------------------------- MODULE SnippetStoreProofs -------------------------
(***************************************************************************)
(* Theorems about SnippetStore for any clients, names, versions and sizes. *)
(***************************************************************************)
EXTENDS SnippetStore, FiniteSetTheorems, TLAPS

Saves == [kind : {"save"}, name : Names, version : Versions]
Deletes == [kind : {"delete"}, name : Names, existed : BOOLEAN]
SaveSteps == {"open js", "write js", "open json", "write json"}
DeleteSteps == {"exists", "unlink js", "unlink json"}

Content == Seq(Versions) \cup {Absent}

Types ==
  /\ file \in [Names -> [Parts -> Content]]
  /\ op \in [Clients -> Saves \cup Deletes \cup {NoOp}]
  /\ step \in [Clients -> {"idle"} \cup SaveSteps \cup DeleteSteps]
  /\ handle \in [Clients -> {"none", "live", "dead"}]
  /\ begun \in Nat
  /\ created \in [Names -> Nat] /\ deleted \in [Names -> Nat]

\* A client's step is one of its operation, and it has a file open exactly while
\* it is about to write.
Role(c) ==
  /\ step[c] \in SaveSteps => op[c] \in Saves
  /\ step[c] \in DeleteSteps => op[c] \in Deletes
  /\ step[c] = "idle" <=> op[c] = NoOp
  /\ step[c] = "unlink js" => op[c].existed
  /\ handle[c] = "live" => step[c] \in {"write js", "write json"}
  /\ \A part \in Parts :
        step[c] = Writing[part] /\ handle[c] = "live" => file[op[c].name][part] # Absent

TInv == Types /\ \A c \in Clients : Role(c)

\* Overwriting yields a sequence of blocks of the two contents.
LEMMA OverwriteTyped ==
  ASSUME NEW old \in Seq(Versions), NEW new \in Seq(Versions)
  PROVE  /\ Overwrite(old, new) \in Seq(Versions)
         /\ \A i \in DOMAIN Overwrite(old, new) :
               \/ i \in DOMAIN old /\ Overwrite(old, new)[i] = old[i]
               \/ i \in DOMAIN new /\ Overwrite(old, new)[i] = new[i]
BY DEF Overwrite

\* The bytes of a version, and any beginning of them, are blocks of that version.
LEMMA BytesTyped ==
  ASSUME NEW part \in Parts, NEW v \in Versions, NEW k \in 0..Size[part][v]
  PROVE  /\ Bytes(part, v) \in Seq(Versions)
         /\ Size[part][v] >= 1 /\ Len(Bytes(part, v)) = Size[part][v]
         /\ \A i \in DOMAIN Bytes(part, v) : Bytes(part, v)[i] = v
         /\ SubSeq(Bytes(part, v), 1, k) \in Seq(Versions)
         /\ \A i \in DOMAIN SubSeq(Bytes(part, v), 1, k) :
               SubSeq(Bytes(part, v), 1, k)[i] = v
<1>1. Size[part][v] \in Nat \ {0}
  BY StoreAssumption
<1>2. Bytes(part, v) \in Seq(Versions) /\ Len(Bytes(part, v)) = Size[part][v]
  BY <1>1 DEF Bytes
<1>3. \A i \in 1..Size[part][v] : Bytes(part, v)[i] = v
  BY <1>1 DEF Bytes
<1>4. SubSeq(Bytes(part, v), 1, k) = [i \in 1..k |-> Bytes(part, v)[i]]
  BY <1>1, <1>2
<1>5. SubSeq(Bytes(part, v), 1, k) \in Seq(Versions)
  BY <1>1, <1>3, <1>4
<1>6. QED
  BY <1>1, <1>2, <1>3, <1>4, <1>5

\* Putting blocks into a file leaves every other file alone, and a file that
\* exists goes on existing.
LEMMA PutTyped ==
  ASSUME TInv, NEW c \in Clients, NEW part \in Parts, op[c] \in Saves,
         step[c] = Writing[part], NEW bytes \in Seq(Versions), Put(c, part, bytes)
  PROVE  /\ file' \in [Names -> [Parts -> Content]]
         /\ \A n \in Names, p \in Parts :
               /\ file'[n][p] = Absent <=> file[n][p] = Absent
               /\ \/ file'[n][p] = file[n][p]
                  \/ /\ n = op[c].name /\ p = part /\ handle[c] = "live"
                     /\ file[n][p] \in Seq(Versions)
                     /\ file'[n][p] = Overwrite(file[n][p], bytes)
<1> DEFINE n == op[c].name
<1>1. n \in Names /\ Types
  BY DEF Saves, TInv
<1>2. CASE handle[c] # "live"
  BY <1>1, <1>2 DEF Put, Types
<1>3. CASE handle[c] = "live"
  <2>1. file[n][part] \in Seq(Versions)
    <3>1. file[n][part] # Absent
      BY <1>3 DEF TInv, Role
    <3>2. QED
      BY <1>1, <3>1 DEF Types, Content
  <2>2. Overwrite(file[n][part], bytes) \in Seq(Versions)
    BY <2>1, OverwriteTyped
  <2>3. file' = [file EXCEPT ![n][part] = Overwrite(file[n][part], bytes)]
    BY <1>3 DEF Put, Set
  <2> HIDE DEF n
  <2>4. file' \in [Names -> [Parts -> Content]]
    BY <1>1, <2>2, <2>3 DEF Types, Content
  <2>5. \A m \in Names, p \in Parts :
           file'[m][p] = IF m = n /\ p = part THEN Overwrite(file[n][part], bytes)
                         ELSE file[m][p]
    BY <1>1, <2>3 DEF Types
  <2>6. QED
    BY <1>3, <2>1, <2>2, <2>4, <2>5, StoreAssumption DEF n
<1>4. QED
  BY <1>2, <1>3

\* What operations are made of.
LEMMA SaveFacts ==
  \A o \in Saves : o # NoOp /\ o.kind = "save" /\ o.name \in Names /\ o.version \in Versions
BY DEF Saves, NoOp

LEMMA DeleteFacts ==
  /\ \A o \in Deletes : o # NoOp /\ o.kind = "delete" /\ o.name \in Names /\ o.existed \in BOOLEAN
  /\ \A o \in Deletes : \A b \in BOOLEAN :
        LET o2 == [o EXCEPT !.existed = b]
        IN  o2 \in Deletes /\ o2.existed = b /\ o2.name = o.name
BY DEF Deletes, NoOp

LEMMA Labels ==
  /\ Opening["js"] = "open js" /\ Opening["json"] = "open json"
  /\ Writing["js"] = "write js" /\ Writing["json"] = "write json"
  /\ Order[1] = "js" /\ Order[2] = "json"
BY DEF Opening, Writing, Order

LEMMA PartLabels ==
  /\ \A part \in Parts : /\ Opening[part] \in SaveSteps /\ Writing[part] \in SaveSteps
                         /\ Writing[part] \in {"write js", "write json"}
  /\ \A p, q \in Parts : Writing[p] # Opening[q] /\ (Writing[p] = Writing[q] => p = q)
BY Labels DEF Parts, SaveSteps

\* The steps of a save have a save to do, those of a delete a delete.
LEMMA Doing ==
  ASSUME TInv, NEW c \in Clients
  PROVE  /\ step[c] \in SaveSteps =>
              /\ op[c] \in Saves /\ op[c] # NoOp
              /\ op[c].name \in Names /\ op[c].version \in Versions
         /\ step[c] \in DeleteSteps =>
              /\ op[c] \in Deletes /\ op[c] # NoOp
              /\ op[c].name \in Names /\ op[c].existed \in BOOLEAN
BY SaveFacts, DeleteFacts DEF TInv, Role

LEMMA TInvInit == Init => TInv
BY DEF Init, TInv, Types, Role, SaveSteps, DeleteSteps, Content

\* A step of c leaves the other clients their roles, if files go on existing.
LEMMA OtherRole ==
  ASSUME NEW d \in Clients, Role(d),
         UNCHANGED <<op[d], step[d]>>, handle'[d] = "live" => handle[d] = "live",
         \A part \in Parts : step[d] = Writing[part] /\ handle'[d] = "live" =>
            (file'[op[d].name][part] = Absent => file[op[d].name][part] = Absent)
  PROVE  Role(d)'
BY DEF Role

LEMMA BeginStep ==
  ASSUME TInv, NEW c \in Clients, NEW o \in Saves \cup Deletes, Begin(c, o) PROVE TInv'
<1>1. o.kind = "save" <=> o \in Saves
  BY SaveFacts, DeleteFacts
<1>2. o # NoOp
  BY SaveFacts, DeleteFacts
<1>3. /\ op' = [op EXCEPT ![c] = o] /\ UNCHANGED <<file, handle, created, deleted>>
      /\ step' = [step EXCEPT ![c] = IF o \in Saves THEN "open js" ELSE "exists"]
      /\ begun' \in Nat /\ op[c] = NoOp
  <2>1. Opening[Order[1]] = "open js"
    BY Labels
  <2>2. (IF o.kind = "save" THEN Opening[Order[1]] ELSE "exists")
          = IF o \in Saves THEN "open js" ELSE "exists"
    BY <1>1, <2>1
  <2>3. step' = [step EXCEPT ![c] = IF o \in Saves THEN "open js" ELSE "exists"]
    <3>1. step' = [step EXCEPT ![c] = IF o.kind = "save" THEN Opening[Order[1]] ELSE "exists"]
      BY DEF Begin, Goto
    <3>2. QED
      BY ONLY <2>2, <3>1
  <2>4. begun' \in Nat
    BY DEF Begin, TInv, Types
  <2>5. QED
    BY <2>3, <2>4 DEF Begin
<1>4. Types'
  BY <1>3 DEF TInv, Types, SaveSteps, DeleteSteps
<1>5. ASSUME NEW d \in Clients PROVE Role(d)'
  <2>1. CASE d = c
    <3>1. handle'[c] # "live"
      BY <1>3 DEF TInv, Types, Role
    <3>2. op'[c] = o /\ step'[c] = IF o \in Saves THEN "open js" ELSE "exists"
      BY <1>3 DEF TInv, Types
    <3>3. QED
      BY <1>2, <2>1, <3>1, <3>2 DEF Role, SaveSteps, DeleteSteps
  <2>2. CASE d # c
    <3>1. UNCHANGED <<op[d], step[d], handle[d]>>
      BY <1>3, <2>2 DEF TInv, Types
    <3>2. QED
      BY <1>3, <3>1, OtherRole DEF TInv
  <2>3. QED
    BY <2>1, <2>2
<1>6. QED
  BY <1>4, <1>5 DEF TInv

LEMMA OpenStep ==
  ASSUME TInv, NEW c \in Clients, NEW part \in Parts, Open(c, part) PROVE TInv'
<1>1. step[c] = Opening[part] /\ op[c] \in Saves
  BY PartLabels, Doing DEF Open, Opens
<1>2. op[c].name \in Names
  BY <1>1, SaveFacts
<1>3. /\ step' = [step EXCEPT ![c] = Writing[part]]
      /\ handle' = [handle EXCEPT ![c] = "live"]
      /\ file' = [file EXCEPT ![op[c].name][part] = <<>>]
      /\ UNCHANGED <<op, begun, deleted>>
  BY DEF Open, Opens, Set, Goto
<1>4. created' \in [Names -> Nat]
  BY <1>2 DEF Open, Opens, TInv, Types
<1>5. file' \in [Names -> [Parts -> Content]]
  <2>1. <<>> \in Content
    BY DEF Content
  <2>2. QED
    BY <1>2, <1>3, <2>1 DEF TInv, Types
<1>6. \A n \in Names, p \in Parts :
         file'[n][p] = IF n = op[c].name /\ p = part THEN <<>> ELSE file[n][p]
  BY <1>2, <1>3 DEF TInv, Types
<1>7. <<>> # Absent /\ <<>> \in Content
  <2>1. <<>> \in Seq(Versions)
    OBVIOUS
  <2>2. QED
    BY <2>1, StoreAssumption DEF Content
<1>8. Types'
  BY <1>3, <1>4, <1>5, Labels DEF TInv, Types, SaveSteps, Parts
<1>9. ASSUME NEW d \in Clients PROVE Role(d)'
  <2>1. CASE d = c
    <3>1. op'[c] = op[c] /\ step'[c] = Writing[part]
      BY <1>3 DEF TInv, Types
    <3>2. ASSUME NEW p \in Parts, step'[c] = Writing[p]
          PROVE  file'[op'[c].name][p] # Absent
      <4>1. p = part
        BY <3>1, <3>2, PartLabels
      <4>2. QED
        BY <1>2, <1>6, <1>7, <3>1, <4>1
    <3>3. QED
      BY <1>1, <2>1, <3>1, <3>2, PartLabels, SaveFacts DEF Role, SaveSteps, DeleteSteps
  <2>2. CASE d # c
    <3>1. UNCHANGED <<op[d], step[d], handle[d]>>
      BY <1>3, <2>2 DEF TInv, Types
    <3>2. ASSUME NEW p \in Parts, step[d] = Writing[p]
          PROVE  file'[op[d].name][p] = Absent => file[op[d].name][p] = Absent
      <4>1. op[d].name \in Names
        BY <3>2, PartLabels, Doing
      <4>2. QED
        BY <1>6, <1>7, <4>1
    <3>3. QED
      BY <3>1, <3>2, OtherRole DEF TInv
  <2>3. QED
    BY <2>1, <2>2
<1>10. QED
  BY <1>8, <1>9 DEF TInv

\* What a write of some bytes of a version does to the files.
LEMMA WriteTyped ==
  ASSUME TInv, NEW c \in Clients, NEW part \in Parts, step[c] = Writing[part],
         NEW k \in 0..Size[part][op[c].version], NEW bytes,
         bytes \in {Bytes(part, op[c].version), SubSeq(Bytes(part, op[c].version), 1, k)},
         Put(c, part, bytes)
  PROVE  /\ bytes \in Seq(Versions) /\ \A i \in DOMAIN bytes : bytes[i] = op[c].version
         /\ file' \in [Names -> [Parts -> Content]]
         /\ \A n \in Names, p \in Parts :
               /\ file'[n][p] = Absent <=> file[n][p] = Absent
               /\ \/ file'[n][p] = file[n][p]
                  \/ /\ n = op[c].name /\ p = part /\ handle[c] = "live"
                     /\ file[n][p] \in Seq(Versions)
                     /\ file'[n][p] = Overwrite(file[n][p], bytes)
<1>1. op[c] \in Saves /\ op[c].version \in Versions
  BY PartLabels, Doing
<1>2. bytes \in Seq(Versions) /\ \A i \in DOMAIN bytes : bytes[i] = op[c].version
  <2>1. CASE bytes = Bytes(part, op[c].version)
    BY <1>1, <2>1, BytesTyped
  <2>2. CASE bytes = SubSeq(Bytes(part, op[c].version), 1, k)
    BY <1>1, <2>2, BytesTyped
  <2>3. QED
    BY <2>1, <2>2
<1>3. QED
  BY <1>1, <1>2, PutTyped

LEMMA WriteStep ==
  ASSUME TInv, NEW c \in Clients, NEW part \in Parts, Write(c, part) PROVE TInv'
<1>1. step[c] = Writing[part] /\ Put(c, part, Bytes(part, op[c].version))
  BY DEF Write
<1>2. op[c] \in Saves /\ op[c] # NoOp /\ op[c].name \in Names /\ op[c].version \in Versions
  BY <1>1, PartLabels, Doing
<1>3. 0 \in 0..Size[part][op[c].version]
  BY <1>2, StoreAssumption
<1>4. /\ file' \in [Names -> [Parts -> Content]]
      /\ \A n \in Names, p \in Parts : file'[n][p] = Absent <=> file[n][p] = Absent
  BY <1>1, <1>3, WriteTyped
<1>5. \/ op' = [op EXCEPT ![c] = NoOp] /\ step' = [step EXCEPT ![c] = "idle"]
      \/ op' = op /\ step' = [step EXCEPT ![c] = "open json"]
  BY Labels DEF Write, End, Goto
<1>6. handle' = [handle EXCEPT ![c] = "none"] /\ UNCHANGED <<begun, created, deleted>>
  BY DEF Write
<1>7. Types'
  BY <1>4, <1>5, <1>6 DEF TInv, Types, SaveSteps
<1>8. ASSUME NEW d \in Clients PROVE Role(d)'
  <2>1. CASE d = c
    BY <1>2, <1>5, <1>6, <2>1 DEF TInv, Types, Role, SaveSteps, DeleteSteps
  <2>2. CASE d # c
    <3>1. UNCHANGED <<op[d], step[d], handle[d]>>
      BY <1>5, <1>6, <2>2 DEF TInv, Types
    <3>2. ASSUME NEW p \in Parts, step[d] = Writing[p]
          PROVE  file'[op[d].name][p] = Absent => file[op[d].name][p] = Absent
      BY <1>4, <3>2, PartLabels, Doing
    <3>3. QED
      BY <3>1, <3>2, OtherRole DEF TInv
  <2>3. QED
    BY <2>1, <2>2
<1>9. QED
  BY <1>7, <1>8 DEF TInv

LEMMA LookStep ==
  ASSUME TInv, NEW c \in Clients, Look(c) PROVE TInv'
<1> DEFINE there == Exists(op[c].name)
<1>1. op[c] \in Deletes /\ there \in BOOLEAN
  BY Doing DEF Look, DeleteSteps, Exists
<1>2. /\ op' = [op EXCEPT ![c] = [op[c] EXCEPT !.existed = there]]
      /\ step' = [step EXCEPT ![c] = IF there THEN "unlink js" ELSE "unlink json"]
      /\ UNCHANGED <<file, handle, begun, created, deleted>> /\ step[c] = "exists"
  BY DEF Look, Goto, history
<1>3. [op[c] EXCEPT !.existed = there] \in Deletes
      /\ [op[c] EXCEPT !.existed = there].existed = there
      /\ [op[c] EXCEPT !.existed = there] # NoOp
  BY <1>1, DeleteFacts
<1> HIDE DEF there
<1>4. Types'
  BY <1>2, <1>3 DEF TInv, Types, DeleteSteps
<1>5. ASSUME NEW d \in Clients PROVE Role(d)'
  <2>1. CASE d = c
    BY <1>2, <1>3, <2>1, Labels DEF TInv, Types, Role, SaveSteps, DeleteSteps, Parts
  <2>2. CASE d # c
    <3>1. UNCHANGED <<op[d], step[d], handle[d], file>>
      BY <1>2, <2>2 DEF TInv, Types
    <3>2. QED
      BY <3>1, OtherRole DEF TInv
  <2>3. QED
    BY <2>1, <2>2
<1>6. QED
  BY <1>4, <1>5 DEF TInv

\* Unlinking a file takes it from every client that has it open.
LEMMA UnlinkedStep ==
  ASSUME TInv, NEW c \in Clients, NEW part \in Parts, op[c] \in Deletes,
         step[c] \in DeleteSteps, op[c].name \in Names,
         Set(op[c].name, part, Absent), Orphans(op[c].name, part),
         \/ op' = op /\ step' = [step EXCEPT ![c] = "unlink json"]
         \/ op' = [op EXCEPT ![c] = NoOp] /\ step' = [step EXCEPT ![c] = "idle"],
         begun' = begun, deleted' \in [Names -> Nat], created' = created
  PROVE  TInv'
<1>1. file' = [file EXCEPT ![op[c].name][part] = Absent]
  BY DEF Set
<1>2. \A n \in Names, p \in Parts :
         file'[n][p] = IF n = op[c].name /\ p = part THEN Absent ELSE file[n][p]
  BY <1>1 DEF TInv, Types
<1>3. file' \in [Names -> [Parts -> Content]]
  <2>1. Absent \in Content
    BY DEF Content
  <2>2. QED
    BY <1>1, <2>1 DEF TInv, Types
<1>4. ASSUME NEW d \in Clients
      PROVE  /\ handle'[d] \in {"none", "live", "dead"}
             /\ handle'[d] = "live" => handle[d] = "live"
             /\ handle'[d] = "live" /\ op[d] # NoOp /\ step[d] = Writing[part] =>
                   op[d].name # op[c].name
  BY DEF Orphans, Active, TInv, Types
<1>5. Types'
  <2>1. handle' \in [Clients -> {"none", "live", "dead"}]
    BY <1>4 DEF Orphans
  <2>2. QED
    BY <1>3, <2>1 DEF TInv, Types, DeleteSteps
<1>6. ASSUME NEW d \in Clients PROVE Role(d)'
  <2>1. CASE d = c
    <3>1. handle[c] # "live"
      BY DEF TInv, Role, DeleteSteps
    <3>2. handle'[c] # "live"
      BY <1>4, <3>1
    <3>3. op[c] # NoOp
      BY Doing
    <3>4. QED
      BY <2>1, <3>2, <3>3 DEF TInv, Types, Role, SaveSteps, DeleteSteps
  <2>2. CASE d # c
    <3>1. UNCHANGED <<op[d], step[d]>>
      BY <2>2 DEF TInv, Types
    <3>2. ASSUME NEW p \in Parts, step[d] = Writing[p], handle'[d] = "live"
          PROVE  file'[op[d].name][p] = Absent => file[op[d].name][p] = Absent
      <4>1. op[d] # NoOp /\ op[d].name \in Names
        BY <3>2, PartLabels, Doing
      <4>2. ~(op[d].name = op[c].name /\ p = part)
        BY <1>4, <3>2, <4>1
      <4>3. QED
        BY <1>2, <4>1, <4>2
    <3>3. QED
      BY <1>4, <3>1, <3>2, OtherRole DEF TInv
  <2>3. QED
    BY <2>1, <2>2
<1>7. QED
  BY <1>5, <1>6 DEF TInv

LEMMA UnlinkStep ==
  ASSUME TInv, NEW c \in Clients, Unlink(c) PROVE TInv'
<1>1. step[c] \in DeleteSteps /\ "js" \in Parts
  BY DEF Unlink, DeleteSteps, Parts
<1>2. op[c] \in Deletes /\ op[c].name \in Names /\ deleted \in [Names -> Nat]
  BY <1>1, Doing DEF TInv, Types
<1>3. QED
  BY <1>1, <1>2, UnlinkedStep DEF Unlink, Goto, history

LEMMA UnlinkMetaStep ==
  ASSUME TInv, NEW c \in Clients, UnlinkMeta(c) PROVE TInv'
<1>1. step[c] \in DeleteSteps /\ "json" \in Parts
  BY DEF UnlinkMeta, DeleteSteps, Parts
<1>2. op[c] \in Deletes /\ op[c].name \in Names
  BY <1>1, Doing
<1>3. /\ deleted' \in [Names -> Nat] /\ created' = created /\ begun' = begun
      /\ op' = [op EXCEPT ![c] = NoOp] /\ step' = [step EXCEPT ![c] = "idle"]
  <2>1. deleted' \in {deleted, [deleted EXCEPT ![op[c].name] = @ + 1]}
    BY DEF UnlinkMeta
  <2>2. deleted' \in [Names -> Nat]
    BY <1>2, <2>1 DEF TInv, Types
  <2>3. QED
    BY <2>2 DEF UnlinkMeta, End, Goto
<1>4. CASE Set(op[c].name, "json", Absent) /\ Orphans(op[c].name, "json")
  BY <1>1, <1>2, <1>3, <1>4, UnlinkedStep
<1>5. CASE UNCHANGED <<file, handle>>
  <2>1. Types'
    BY <1>3, <1>5 DEF TInv, Types
  <2>2. ASSUME NEW d \in Clients PROVE Role(d)'
    <3>1. CASE d = c
      BY <1>1, <1>3, <1>5, <3>1 DEF TInv, Types, Role, SaveSteps, DeleteSteps
    <3>2. CASE d # c
      <4>1. UNCHANGED <<op[d], step[d], handle[d], file>>
        BY <1>3, <1>5, <3>2 DEF TInv, Types
      <4>2. QED
        BY <4>1, OtherRole DEF TInv
    <3>3. QED
      BY <3>1, <3>2
  <2>3. QED
    BY <2>1, <2>2 DEF TInv
<1>6. QED
  BY <1>4, <1>5 DEF UnlinkMeta

\* A failed operation leaves the files as they are, or written in part.
LEMMA FailWrites ==
  ASSUME TInv, NEW c \in Clients, Fail(c), ~UNCHANGED file
  PROVE  \E part \in Parts :
           /\ step[c] = Writing[part]
           /\ \E k \in 0..Size[part][op[c].version] :
                 Put(c, part, SubSeq(Bytes(part, op[c].version), 1, k))
<1>1. PICK part \in Parts :
         /\ step[c] = Writing[part]
         /\ \E k \in 1..(Size[part][op[c].version] - 1) :
               Put(c, part, SubSeq(Bytes(part, op[c].version), 1, k))
  BY DEF Fail
<1>2. Size[part][op[c].version] \in Nat
  <2>1. op[c].version \in Versions
    BY <1>1, PartLabels, Doing
  <2>2. QED
    BY <2>1, StoreAssumption
<1>3. QED
  BY <1>1, <1>2

LEMMA FailKeeps ==
  ASSUME TInv, NEW c \in Clients, Fail(c)
  PROVE  /\ file' \in [Names -> [Parts -> Content]]
         /\ \A n \in Names, p \in Parts : file'[n][p] = Absent <=> file[n][p] = Absent
<1>1. CASE UNCHANGED file
  BY <1>1 DEF TInv, Types
<1>2. CASE ~UNCHANGED file
  <2>1. PICK part \in Parts :
           /\ step[c] = Writing[part]
           /\ \E k \in 0..Size[part][op[c].version] :
                 Put(c, part, SubSeq(Bytes(part, op[c].version), 1, k))
    BY <1>2, FailWrites
  <2>2. PICK k \in 0..Size[part][op[c].version] :
           Put(c, part, SubSeq(Bytes(part, op[c].version), 1, k))
    BY <2>1
  <2> DEFINE bytes == SubSeq(Bytes(part, op[c].version), 1, k)
  <2>3. bytes \in {Bytes(part, op[c].version), SubSeq(Bytes(part, op[c].version), 1, k)}
        /\ Put(c, part, bytes)
    BY <2>2
  <2> HIDE DEF bytes
  <2>4. QED
    BY <2>1, <2>3, WriteTyped
<1>3. QED
  BY <1>1, <1>2

LEMMA FailStep ==
  ASSUME TInv, NEW c \in Clients, Fail(c) PROVE TInv'
<1>1. /\ file' \in [Names -> [Parts -> Content]]
      /\ \A n \in Names, p \in Parts : file'[n][p] = Absent <=> file[n][p] = Absent
  BY FailKeeps
<1>2. /\ op' = [op EXCEPT ![c] = NoOp] /\ step' = [step EXCEPT ![c] = "idle"]
      /\ handle' = [handle EXCEPT ![c] = "none"] /\ UNCHANGED <<begun, created, deleted>>
  BY DEF Fail, End, Goto
<1>3. Types'
  BY <1>1, <1>2 DEF TInv, Types
<1>4. ASSUME NEW d \in Clients PROVE Role(d)'
  <2>1. CASE d = c
    BY <1>2, <2>1 DEF TInv, Types, Role, SaveSteps, DeleteSteps
  <2>2. CASE d # c
    <3>1. UNCHANGED <<op[d], step[d], handle[d]>>
      BY <1>2, <2>2 DEF TInv, Types
    <3>2. ASSUME NEW p \in Parts, step[d] = Writing[p]
          PROVE  file'[op[d].name][p] = Absent => file[op[d].name][p] = Absent
      BY <1>1, <3>2, PartLabels, Doing
    <3>3. QED
      BY <3>1, <3>2, OtherRole DEF TInv
  <2>3. QED
    BY <2>1, <2>2
<1>5. QED
  BY <1>3, <1>4 DEF TInv

\* The operations Next begins.
LEMMA Begins ==
  /\ \A n \in Names, v \in Versions : [kind |-> "save", name |-> n, version |-> v] \in Saves
  /\ \A n \in Names : [kind |-> "delete", name |-> n, existed |-> FALSE] \in Deletes
BY DEF Saves, Deletes

LEMMA Inductive == Spec => []TInv
<1>1. ASSUME TInv, [Next]_vars PROVE TInv'
  <2>1. CASE UNCHANGED vars
    BY <1>1, <2>1 DEF vars, history, TInv, Types, Role
  <2>2. CASE Next
    BY <1>1, <2>2, Begins, BeginStep, OpenStep, WriteStep, LookStep, UnlinkStep,
       UnlinkMetaStep, FailStep DEF Next
  <2>3. QED
    BY <1>1, <2>1, <2>2
<1>2. QED
  BY <1>1, TInvInit, PTL DEF Spec
-----------------------------------------------------------------------------
(***************************************************************************)
(* The metadata follows the source.                                        *)
(***************************************************************************)

\* Whoever wrote a block of metadata, or is about to, has written the source.
MInv ==
  /\ \A n \in Names : file[n]["json"] # Absent =>
        \A i \in DOMAIN file[n]["json"] : <<n, file[n]["json"][i]>> \in written
  /\ \A c \in Clients : step[c] \in {"open json", "write json"} =>
        <<op[c].name, op[c].version>> \in written

\* MInv holds after a step that leaves the metadata as it is, or puts blocks into
\* it whose source is written.
LEMMA MetaKept ==
  ASSUME TInv, MInv, written \subseteq written', NEW v,
         \A n \in Names :
            \/ file'[n]["json"] = file[n]["json"]
            \/ file'[n]["json"] = Absent \/ file'[n]["json"] = <<>>
            \/ /\ file[n]["json"] \in Seq(Versions) /\ <<n, v>> \in written
               /\ \E bytes \in Seq(Versions) :
                     /\ \A i \in DOMAIN bytes : bytes[i] = v
                     /\ file'[n]["json"] = Overwrite(file[n]["json"], bytes)
  PROVE  \A n \in Names : file'[n]["json"] # Absent =>
            \A i \in DOMAIN file'[n]["json"] : <<n, file'[n]["json"][i]>> \in written'
<1> SUFFICES ASSUME NEW n \in Names, file'[n]["json"] # Absent,
                    NEW i \in DOMAIN file'[n]["json"]
             PROVE  <<n, file'[n]["json"][i]>> \in written'
  OBVIOUS
<1>1. CASE file'[n]["json"] = file[n]["json"]
  BY <1>1 DEF MInv
<1>2. CASE file'[n]["json"] = <<>>
  BY <1>2
<1>3. CASE /\ file[n]["json"] \in Seq(Versions) /\ <<n, v>> \in written
           /\ \E bytes \in Seq(Versions) :
                 /\ \A j \in DOMAIN bytes : bytes[j] = v
                 /\ file'[n]["json"] = Overwrite(file[n]["json"], bytes)
  <2>1. PICK bytes \in Seq(Versions) :
           /\ \A j \in DOMAIN bytes : bytes[j] = v
           /\ file'[n]["json"] = Overwrite(file[n]["json"], bytes)
    BY <1>3
  <2>2. file[n]["json"] # Absent
    BY <1>3, StoreAssumption
  <2>3. \/ i \in DOMAIN file[n]["json"] /\ file'[n]["json"][i] = file[n]["json"][i]
        \/ file'[n]["json"][i] = v
    BY <1>3, <2>1, OverwriteTyped
  <2>4. QED
    BY <1>3, <2>2, <2>3 DEF MInv
<1>4. QED
  BY <1>1, <1>2, <1>3

LEMMA MInvStep == TInv /\ MInv /\ TInv' /\ [Next]_vars => MInv'
<1> SUFFICES ASSUME TInv, MInv, TInv', [Next]_vars PROVE MInv'
  OBVIOUS
<1> DEFINE MetaOK == \A n \in Names : file[n]["json"] # Absent =>
               \A i \in DOMAIN file[n]["json"] : <<n, file[n]["json"][i]>> \in written
           SavedOK(c) == step[c] \in {"open json", "write json"} =>
                            <<op[c].name, op[c].version>> \in written
<1>1. ASSUME NEW c \in Clients, NEW o \in Saves \cup Deletes, Begin(c, o) PROVE MInv'
  <2>1. step' = [step EXCEPT ![c] = IF o.kind = "save" THEN Opening[Order[1]] ELSE "exists"]
        /\ op' = [op EXCEPT ![c] = o] /\ UNCHANGED <<file, written>>
    BY <1>1 DEF Begin, Goto
  <2>2. Opening[Order[1]] = "open js"
    BY Labels
  <2>3. QED
    BY <2>1, <2>2 DEF MInv, TInv, Types
<1>2. ASSUME NEW c \in Clients, NEW part \in Parts, Open(c, part) PROVE MInv'
  <2>1. /\ file' = [file EXCEPT ![op[c].name][part] = <<>>]
        /\ step' = [step EXCEPT ![c] = Writing[part]] /\ step[c] = Opening[part]
        /\ UNCHANGED <<op, written>>
    BY <1>2 DEF Open, Opens, Set, Goto
  <2>2. op[c].name \in Names
    BY <2>1, PartLabels, Doing
  <2>3. \A n \in Names : \/ file'[n]["json"] = file[n]["json"]
                         \/ file'[n]["json"] = <<>>
    BY <2>1, <2>2 DEF TInv, Types, Parts
  <2>4. MetaOK'
    BY <2>1, <2>3, MetaKept
  <2>5. ASSUME NEW d \in Clients, step'[d] \in {"open json", "write json"}
        PROVE  step[d] \in {"open json", "write json"}
    <3>1. CASE d = c
      <4>1. step'[c] = Writing[part]
        BY <2>1 DEF TInv, Types
      <4>2. part = "json"
        BY <2>5, <3>1, <4>1, Labels DEF Parts
      <4>3. QED
        BY <2>1, <3>1, <4>2, Labels
    <3>2. CASE d # c
      BY <2>1, <2>5, <3>2 DEF TInv, Types
    <3>3. QED
      BY <3>1, <3>2
  <2>6. QED
    BY <2>1, <2>4, <2>5 DEF MInv
<1>3. ASSUME NEW c \in Clients, NEW part \in Parts, step[c] = Writing[part],
             NEW k \in 0..Size[part][op[c].version], NEW bytes,
             bytes \in {Bytes(part, op[c].version), SubSeq(Bytes(part, op[c].version), 1, k)},
             Put(c, part, bytes), written \subseteq written'
      PROVE  MetaOK'
  <2>1. part = "json" => <<op[c].name, op[c].version>> \in written
    BY <1>3, Labels DEF MInv
  <2>2. bytes \in Seq(Versions) /\ \A i \in DOMAIN bytes : bytes[i] = op[c].version
    BY <1>3, WriteTyped
  <2>3. \A n \in Names : \/ file'[n]["json"] = file[n]["json"]
                         \/ /\ n = op[c].name /\ "json" = part
                            /\ file[n]["json"] \in Seq(Versions)
                            /\ file'[n]["json"] = Overwrite(file[n]["json"], bytes)
    BY <1>3, WriteTyped DEF Parts
  <2>4. QED
    BY <1>3, <2>1, <2>2, <2>3, MetaKept
<1>4. ASSUME NEW c \in Clients, NEW part \in Parts, Write(c, part) PROVE MInv'
  <2>1. /\ step[c] = Writing[part] /\ Put(c, part, Bytes(part, op[c].version))
        /\ written \subseteq written'
    BY <1>4 DEF Write
  <2>2. 0 \in 0..Size[part][op[c].version]
    <3>1. op[c].version \in Versions
      BY <2>1, PartLabels, Doing
    <3>2. QED
      BY <3>1, StoreAssumption
  <2>3. MetaOK'
    BY <1>3, <2>1, <2>2
  <2>4. \/ op' = [op EXCEPT ![c] = NoOp] /\ step' = [step EXCEPT ![c] = "idle"]
        \/ /\ op' = op /\ step' = [step EXCEPT ![c] = "open json"]
           /\ <<op[c].name, op[c].version>> \in written'
    BY <1>4, Labels DEF Write, End, Goto, Parts
  <2>5. \A d \in Clients : SavedOK(d)'
    BY <2>1, <2>4 DEF MInv, TInv, Types
  <2>6. QED
    BY <2>3, <2>5 DEF MInv
<1>5. ASSUME NEW c \in Clients, step[c] \in DeleteSteps,
             \A n \in Names : file'[n]["json"] \in {Absent, file[n]["json"]},
             \A d \in Clients \ {c} : op'[d] = op[d] /\ step'[d] = step[d],
             step'[c] \notin SaveSteps, written' = written
      PROVE  MInv'
  <2>1. MetaOK'
    BY <1>5, MetaKept
  <2>2. \A d \in Clients : SavedOK(d)'
    BY <1>5 DEF MInv, SaveSteps
  <2>3. QED
    BY <2>1, <2>2 DEF MInv
<1>6. ASSUME NEW c \in Clients, Look(c) PROVE MInv'
  BY <1>5, <1>6 DEF Look, Goto, history, TInv, Types, SaveSteps, DeleteSteps
<1>7. ASSUME NEW c \in Clients, Unlink(c) PROVE MInv'
  <2>1. file' = [file EXCEPT ![op[c].name]["js"] = Absent]
    BY <1>7 DEF Unlink, Set
  <2>2. \A n \in Names : file'[n]["json"] \in {Absent, file[n]["json"]}
    BY <2>1 DEF TInv, Types, Parts
  <2>3. QED
    BY <1>5, <1>7, <2>2 DEF Unlink, Goto, history, TInv, Types, SaveSteps, DeleteSteps
<1>8. ASSUME NEW c \in Clients, UnlinkMeta(c) PROVE MInv'
  <2>1. \/ file' = file
        \/ file' = [file EXCEPT ![op[c].name]["json"] = Absent]
    BY <1>8 DEF UnlinkMeta, Set
  <2>2. \A n \in Names : file'[n]["json"] \in {Absent, file[n]["json"]}
    BY <2>1 DEF TInv, Types, Parts
  <2>3. QED
    BY <1>5, <1>8, <2>2 DEF UnlinkMeta, End, Goto, TInv, Types, SaveSteps, DeleteSteps
<1>9. ASSUME NEW c \in Clients, Fail(c) PROVE MInv'
  <2>1. /\ op' = [op EXCEPT ![c] = NoOp] /\ step' = [step EXCEPT ![c] = "idle"]
        /\ written' = written
    BY <1>9 DEF Fail, End, Goto
  <2>2. MetaOK'
    <3>1. CASE UNCHANGED file
      BY <2>1, <3>1 DEF MInv
    <3>2. CASE ~UNCHANGED file
      <4>1. PICK part \in Parts :
               /\ step[c] = Writing[part]
               /\ \E k \in 0..Size[part][op[c].version] :
                     Put(c, part, SubSeq(Bytes(part, op[c].version), 1, k))
        BY <1>9, <3>2, FailWrites
      <4>2. PICK k \in 0..Size[part][op[c].version] :
               Put(c, part, SubSeq(Bytes(part, op[c].version), 1, k))
        BY <4>1
      <4>3. QED
        BY <1>3, <2>1, <4>1, <4>2
    <3>3. QED
      BY <3>1, <3>2
  <2>3. \A d \in Clients : SavedOK(d)'
    BY <2>1 DEF MInv, TInv, Types
  <2>4. QED
    BY <2>2, <2>3 DEF MInv
<1>10. CASE UNCHANGED vars
  BY <1>10 DEF vars, history, MInv
<1>11. QED
  BY <1>1, <1>2, <1>4, <1>6, <1>7, <1>8, <1>9, <1>10, Begins DEF Next

\* THEOREM MetaFollows: the metadata of a save is never on disk whole before its
\* source was, however saves and deletes interleave, fail or are killed.
THEOREM MetaFollows == Spec => []MetaNeverAhead
<1>1. Init => MInv
  BY DEF Init, MInv, Parts
<1>2. TInv /\ MInv => MetaNeverAhead
  <2> SUFFICES ASSUME TInv, MInv, NEW n \in Names, NEW v \in Versions,
                      file[n]["json"] = Bytes("json", v)
               PROVE  <<n, v>> \in written
    BY DEF MetaNeverAhead
  <2>1. "json" \in Parts /\ Size["json"][v] \in Nat /\ 0 \in 0..Size["json"][v]
    BY StoreAssumption DEF Parts
  <2>2. /\ Bytes("json", v) \in Seq(Versions) /\ Len(Bytes("json", v)) >= 1
        /\ \A i \in DOMAIN Bytes("json", v) : Bytes("json", v)[i] = v
    BY <2>1, BytesTyped
  <2>3. 1 \in DOMAIN Bytes("json", v) /\ file[n]["json"] # Absent
    BY <2>2, StoreAssumption
  <2>4. QED
    BY <2>2, <2>3 DEF MInv
<1>3. QED
  BY <1>1, <1>2, Inductive, MInvStep, PTL DEF Spec
-----------------------------------------------------------------------------
(***************************************************************************)
(* Files of two versions.                                                  *)
(***************************************************************************)

\* Unless two saves had it open at once, a file holds one version, and is empty
\* while the one save that has it open has not written.
Holding(c, n, part) == step[c] = Writing[part] /\ handle[c] = "live" /\ op[c].name = n

CInv ==
  \A n \in Names, part \in Parts :
     <<n, part>> \notin collided =>
        /\ file[n][part] # Absent => ~Mixed(file[n][part])
        /\ \A c \in Clients : Holding(c, n, part) =>
              /\ file[n][part] = <<>>
              /\ \A d \in Clients : Holding(d, n, part) => d = c

LEMMA HoldingWriters ==
  ASSUME TInv, NEW c \in Clients, NEW d \in Clients \ {c}, NEW n \in Names,
         NEW part \in Parts, Holding(d, n, part)
  PROVE  d \in Writers(c, n, part)
BY PartLabels, Doing DEF Holding, Writers, Active

\* One version is written to a file on behalf of a client that lets go of it.
Overwritten(n, part) ==
  \E c \in Clients, bytes \in Seq(Versions) :
     /\ Holding(c, n, part) /\ ~Holding(c, n, part)'
     /\ \A i, j \in DOMAIN bytes : bytes[i] = bytes[j]
     /\ file'[n][part] = Overwrite(file[n][part], bytes)

\* CInv holds after a step by which no client comes to hold a file, and which
\* leaves each file as it is, removes it from those that hold it, or overwrites it.
LEMMA CInvKept ==
  ASSUME TInv, CInv, UNCHANGED collided,
         \A d \in Clients, n \in Names, part \in Parts :
            Holding(d, n, part)' => Holding(d, n, part),
         \A n \in Names, part \in Parts :
            \/ file'[n][part] = file[n][part]
            \/ file'[n][part] = Absent /\ \A d \in Clients : ~Holding(d, n, part)'
            \/ Overwritten(n, part)
  PROVE  CInv'
<1> SUFFICES ASSUME NEW n \in Names, NEW part \in Parts, <<n, part>> \notin collided
             PROVE  /\ file'[n][part] # Absent => ~Mixed(file'[n][part])
                    /\ \A d \in Clients : Holding(d, n, part)' =>
                          /\ file'[n][part] = <<>>
                          /\ \A e \in Clients : Holding(e, n, part)' => e = d
  BY DEF CInv
<1>1. /\ file[n][part] # Absent => ~Mixed(file[n][part])
      /\ \A d \in Clients : Holding(d, n, part) =>
            /\ file[n][part] = <<>>
            /\ \A e \in Clients : Holding(e, n, part) => e = d
  BY DEF CInv
<1>2. CASE file'[n][part] = file[n][part]
  BY <1>1, <1>2
<1>3. CASE file'[n][part] = Absent /\ \A d \in Clients : ~Holding(d, n, part)'
  BY <1>3
<1>4. CASE Overwritten(n, part)
  <2>1. PICK c \in Clients, bytes \in Seq(Versions) :
           /\ Holding(c, n, part) /\ ~Holding(c, n, part)'
           /\ \A i, j \in DOMAIN bytes : bytes[i] = bytes[j]
           /\ file'[n][part] = Overwrite(file[n][part], bytes)
    BY <1>4 DEF Overwritten
  <2>2. file[n][part] = <<>> /\ \A d \in Clients : ~Holding(d, n, part)'
    BY <1>1, <2>1
  <2>3. \A i \in DOMAIN file'[n][part] :
           i \in DOMAIN bytes /\ file'[n][part][i] = bytes[i]
    <3>1. <<>> \in Seq(Versions) /\ file'[n][part] = Overwrite(<<>>, bytes)
      BY <2>1, <2>2
    <3>2. \A i \in DOMAIN Overwrite(<<>>, bytes) :
             \/ i \in DOMAIN <<>> /\ Overwrite(<<>>, bytes)[i] = <<>>[i]
             \/ i \in DOMAIN bytes /\ Overwrite(<<>>, bytes)[i] = bytes[i]
      BY <3>1, OverwriteTyped
    <3>3. QED
      BY <3>1, <3>2
  <2>4. ~Mixed(file'[n][part])
    BY <2>1, <2>3 DEF Mixed
  <2>5. QED
    BY <2>2, <2>4
<1>5. QED
  BY <1>2, <1>3, <1>4

LEMMA CInvStep == TInv /\ CInv /\ TInv' /\ [Next]_vars => CInv'
<1> SUFFICES ASSUME TInv, CInv, TInv', [Next]_vars PROVE CInv'
  OBVIOUS
<1>1. ASSUME NEW c \in Clients, NEW o \in Saves \cup Deletes, Begin(c, o) PROVE CInv'
  <2>1. /\ step' = [step EXCEPT ![c] = IF o.kind = "save" THEN "open js" ELSE "exists"]
        /\ op' = [op EXCEPT ![c] = o] /\ UNCHANGED <<file, handle, collided>>
    <3>1. Opening[Order[1]] = "open js"
      BY Labels
    <3>2. QED
      BY <1>1, <3>1 DEF Begin, Goto
  <2>2. \A part \in Parts : Writing[part] \notin {"open js", "exists"}
    BY Labels DEF Parts
  <2>3. \A d \in Clients, n \in Names, part \in Parts :
           Holding(d, n, part)' => Holding(d, n, part)
    BY <2>1, <2>2 DEF Holding, TInv, Types
  <2>4. QED
    BY <2>1, <2>3, CInvKept
<1>2. ASSUME NEW c \in Clients, NEW part \in Parts, Open(c, part) PROVE CInv'
  <2> DEFINE m == op[c].name
  <2>1. /\ file' = [file EXCEPT ![m][part] = <<>>]
        /\ step' = [step EXCEPT ![c] = Writing[part]] /\ step[c] = Opening[part]
        /\ handle' = [handle EXCEPT ![c] = "live"] /\ op' = op
        /\ collided' = IF Writers(c, m, part) = {} THEN collided \ {<<m, part>>}
                       ELSE collided \cup {<<m, part>>}
    BY <1>2 DEF Open, Opens, Set, Goto
  <2>2. m \in Names
    BY <2>1, PartLabels, Doing
  <2> HIDE DEF m
  <2>3. \A n \in Names, p \in Parts :
           file'[n][p] = IF n = m /\ p = part THEN <<>> ELSE file[n][p]
    BY <2>1, <2>2 DEF TInv, Types
  <2>4. \A n \in Names, p \in Parts :
           /\ Holding(c, n, p)' <=> n = m /\ p = part
           /\ \A d \in Clients \ {c} : Holding(d, n, p)' <=> Holding(d, n, p)
    BY <2>1, PartLabels DEF Holding, TInv, Types, m
  <2>5. SUFFICES ASSUME NEW n \in Names, NEW p \in Parts, <<n, p>> \notin collided'
                 PROVE  /\ file'[n][p] # Absent => ~Mixed(file'[n][p])
                        /\ \A d \in Clients : Holding(d, n, p)' =>
                              /\ file'[n][p] = <<>>
                              /\ \A e \in Clients : Holding(e, n, p)' => e = d
    BY DEF CInv
  <2>6. CASE n = m /\ p = part
    <3>1. Writers(c, n, p) = {} /\ file'[n][p] = <<>>
      BY <2>1, <2>3, <2>5, <2>6
    <3>2. \A d \in Clients \ {c} : ~Holding(d, n, p)'
      BY <2>4, <3>1, HoldingWriters
    <3>3. QED
      BY <3>1, <3>2 DEF Mixed
  <2>7. CASE ~(n = m /\ p = part)
    <3>1. <<n, p>> \notin collided
      BY <2>1, <2>5, <2>7
    <3>2. ~Holding(c, n, p)' /\ file'[n][p] = file[n][p]
      BY <2>3, <2>4, <2>7
    <3>3. QED
      BY <2>4, <3>1, <3>2 DEF CInv
  <2>8. QED
    BY <2>6, <2>7
<1>3. ASSUME NEW c \in Clients, NEW part \in Parts, step[c] = Writing[part],
             NEW k \in 0..Size[part][op[c].version], NEW bytes,
             bytes \in {Bytes(part, op[c].version), SubSeq(Bytes(part, op[c].version), 1, k)},
             Put(c, part, bytes), handle' = [handle EXCEPT ![c] = "none"],
             \A d \in Clients \ {c} : op'[d] = op[d] /\ step'[d] = step[d],
             UNCHANGED collided
      PROVE  CInv'
  <2>1. \A d \in Clients, n \in Names, p \in Parts :
           Holding(d, n, p)' => d # c /\ Holding(d, n, p)
    BY <1>3 DEF Holding, TInv, Types
  <2>2. bytes \in Seq(Versions) /\ \A i \in DOMAIN bytes : bytes[i] = op[c].version
    BY <1>3, WriteTyped
  <2>3. \A n \in Names, p \in Parts :
           \/ file'[n][p] = file[n][p]
           \/ Holding(c, n, p) /\ file'[n][p] = Overwrite(file[n][p], bytes)
    BY <1>3, WriteTyped DEF Holding
  <2>4. \A n \in Names, p \in Parts : file'[n][p] = file[n][p] \/ Overwritten(n, p)
    BY <2>1, <2>2, <2>3 DEF Overwritten
  <2>5. QED
    BY <1>3, <2>1, <2>4, CInvKept
<1>4. ASSUME NEW c \in Clients, NEW part \in Parts, Write(c, part) PROVE CInv'
  <2>1. /\ step[c] = Writing[part] /\ Put(c, part, Bytes(part, op[c].version))
        /\ handle' = [handle EXCEPT ![c] = "none"] /\ UNCHANGED collided
    BY <1>4 DEF Write
  <2>2. 0 \in 0..Size[part][op[c].version]
    <3>1. op[c].version \in Versions
      BY <2>1, PartLabels, Doing
    <3>2. QED
      BY <3>1, StoreAssumption
  <2>3. \A d \in Clients \ {c} : op'[d] = op[d] /\ step'[d] = step[d]
    BY <1>4 DEF Write, End, Goto, TInv, Types
  <2>4. QED
    BY <1>3, <2>1, <2>2, <2>3
<1>5. ASSUME NEW c \in Clients, Look(c) PROVE CInv'
  <2>1. /\ \A d \in Clients \ {c} : op'[d] = op[d] /\ step'[d] = step[d]
        /\ step'[c] \in DeleteSteps /\ UNCHANGED <<file, handle, collided>>
    BY <1>5 DEF Look, Goto, history, TInv, Types, DeleteSteps
  <2>2. \A part \in Parts : Writing[part] \notin DeleteSteps
    BY Labels DEF Parts, DeleteSteps
  <2>3. \A d \in Clients, n \in Names, part \in Parts :
           Holding(d, n, part)' => Holding(d, n, part)
    BY <2>1, <2>2 DEF Holding
  <2>4. QED
    BY <2>1, <2>3, CInvKept
<1>6. ASSUME NEW c \in Clients, NEW part \in Parts, Set(op[c].name, part, Absent),
             Orphans(op[c].name, part), op[c].name \in Names, UNCHANGED collided,
             \A d \in Clients \ {c} : op'[d] = op[d] /\ step'[d] = step[d],
             step'[c] \in {"idle", "unlink json"}
      PROVE  CInv'
  <2>1. \A n \in Names, p \in Parts :
           file'[n][p] = IF n = op[c].name /\ p = part THEN Absent ELSE file[n][p]
    BY <1>6 DEF Set, TInv, Types
  <2>2. \A p \in Parts : Writing[p] \notin {"idle", "unlink json"}
    BY Labels DEF Parts
  <2>3. ASSUME NEW d \in Clients, NEW n \in Names, NEW p \in Parts, Holding(d, n, p)'
        PROVE  Holding(d, n, p) /\ ~(n = op[c].name /\ p = part)
    <3>1. d # c /\ step[d] = Writing[p] /\ op[d].name = n /\ handle'[d] = "live"
      BY <1>6, <2>2, <2>3 DEF Holding
    <3>2. op[d] # NoOp
      BY <3>1, PartLabels, Doing
    <3>3. QED
      BY <1>6, <3>1, <3>2 DEF Holding, Orphans, Active
  <2>4. \A n \in Names, p \in Parts :
           \/ file'[n][p] = file[n][p]
           \/ file'[n][p] = Absent /\ \A d \in Clients : ~Holding(d, n, p)'
    BY <2>1, <2>3
  <2>5. \A d \in Clients, n \in Names, p \in Parts : Holding(d, n, p)' => Holding(d, n, p)
    BY <2>3
  <2>6. QED
    BY <1>6, <2>4, <2>5, CInvKept
<1>7. ASSUME NEW c \in Clients, Unlink(c) PROVE CInv'
  <2>1. op[c].name \in Names /\ "js" \in Parts
    BY <1>7, Doing DEF Unlink, DeleteSteps, Parts
  <2>2. \A d \in Clients \ {c} : op'[d] = op[d] /\ step'[d] = step[d]
    BY <1>7 DEF Unlink, Goto, TInv, Types
  <2>3. step'[c] = "unlink json"
    BY <1>7 DEF Unlink, Goto, TInv, Types
  <2>4. QED
    BY <1>6, <1>7, <2>1, <2>2, <2>3 DEF Unlink, history
<1>8. ASSUME NEW c \in Clients, UnlinkMeta(c) PROVE CInv'
  <2>1. op[c].name \in Names /\ "json" \in Parts
    BY <1>8, Doing DEF UnlinkMeta, DeleteSteps, Parts
  <2>2. /\ \A d \in Clients \ {c} : op'[d] = op[d] /\ step'[d] = step[d]
        /\ step'[c] = "idle" /\ UNCHANGED collided
    BY <1>8 DEF UnlinkMeta, End, Goto, TInv, Types
  <2>3. CASE Set(op[c].name, "json", Absent) /\ Orphans(op[c].name, "json")
    BY <1>6, <2>1, <2>2, <2>3
  <2>4. CASE UNCHANGED <<file, handle>>
    <3>1. \A part \in Parts : Writing[part] # "idle"
      BY Labels DEF Parts
    <3>2. \A d \in Clients, n \in Names, part \in Parts :
             Holding(d, n, part)' => Holding(d, n, part)
      BY <2>2, <2>4, <3>1 DEF Holding
    <3>3. QED
      BY <2>2, <2>4, <3>2, CInvKept
  <2>5. QED
    BY <1>8, <2>3, <2>4 DEF UnlinkMeta
<1>9. ASSUME NEW c \in Clients, Fail(c) PROVE CInv'
  <2>1. /\ \A d \in Clients \ {c} : op'[d] = op[d] /\ step'[d] = step[d]
        /\ handle' = [handle EXCEPT ![c] = "none"] /\ UNCHANGED collided
    BY <1>9 DEF Fail, End, Goto, TInv, Types
  <2>2. CASE UNCHANGED file
    <3>1. \A d \in Clients, n \in Names, part \in Parts :
             Holding(d, n, part)' => Holding(d, n, part)
      BY <2>1 DEF Holding, TInv, Types
    <3>2. QED
      BY <2>1, <2>2, <3>1, CInvKept
  <2>3. CASE ~UNCHANGED file
    <3>1. PICK part \in Parts :
             /\ step[c] = Writing[part]
             /\ \E k \in 0..Size[part][op[c].version] :
                   Put(c, part, SubSeq(Bytes(part, op[c].version), 1, k))
      BY <1>9, <2>3, FailWrites
    <3>2. PICK k \in 0..Size[part][op[c].version] :
             Put(c, part, SubSeq(Bytes(part, op[c].version), 1, k))
      BY <3>1
    <3>3. QED
      BY <1>3, <2>1, <3>1, <3>2
  <2>4. QED
    BY <2>2, <2>3
<1>10. CASE UNCHANGED vars
  BY <1>10 DEF vars, history, CInv, Holding
<1>11. QED
  BY <1>1, <1>2, <1>4, <1>5, <1>7, <1>8, <1>9, <1>10, Begins DEF Next

\* THEOREM MixesCollide: a file holds blocks of two versions only if two saves
\* had it open at once.
THEOREM MixesCollide == Spec => []MixNeedsCollision
<1>1. Init => CInv
  BY DEF Init, CInv, Holding
<1>2. CInv => MixNeedsCollision
  BY DEF CInv, MixNeedsCollision
<1>3. QED
  BY <1>1, <1>2, Inductive, CInvStep, PTL DEF Spec
-----------------------------------------------------------------------------
(***************************************************************************)
(* One delete for each source file.                                        *)
(***************************************************************************)

\* The deletes that have unlinked the source of n and not returned yet.
Unlinked(n) == {c \in Clients : step[c] = "unlink json" /\ op[c].name = n /\ op[c].existed}
Present(n) == IF file[n]["js"] = Absent THEN 0 ELSE 1

DInv ==
  \A n \in Names :
     /\ IsFiniteSet(Unlinked(n))
     /\ deleted[n] + Cardinality(Unlinked(n)) + Present(n) <= created[n]

\* What a step may do to the count of a name: nothing, or create the file, unlink
\* it, or let go of a delete that unlinked it, which may return true.
Steady(n) ==
  /\ Unlinked(n)' = Unlinked(n) /\ deleted'[n] = deleted[n]
  /\ \/ Present(n)' = Present(n) /\ created'[n] = created[n]
     \/ Present(n) = 0 /\ created'[n] = created[n] + 1
Taken(n) ==
  /\ \E c \in Clients : Unlinked(n)' = Unlinked(n) \cup {c}
  /\ Present(n) = 1 /\ Present(n)' = 0
  /\ deleted'[n] = deleted[n] /\ created'[n] = created[n]
Returned(n) ==
  /\ \E c \in Unlinked(n) : Unlinked(n)' = Unlinked(n) \ {c}
  /\ Present(n)' = Present(n) /\ created'[n] = created[n]
  /\ deleted'[n] \in {deleted[n], deleted[n] + 1}

LEMMA DInvKept ==
  ASSUME TInv, TInv', DInv, \A n \in Names : Steady(n) \/ Taken(n) \/ Returned(n)
  PROVE  DInv'
<1> SUFFICES ASSUME NEW n \in Names
             PROVE  /\ IsFiniteSet(Unlinked(n))'
                    /\ (deleted[n] + Cardinality(Unlinked(n)) + Present(n) <= created[n])'
  BY DEF DInv
<1> DEFINE S == Unlinked(n)
<1>1. /\ IsFiniteSet(S) /\ Cardinality(S) \in Nat
      /\ deleted[n] + Cardinality(S) + Present(n) <= created[n]
  BY FS_CardinalityType DEF DInv
<1>2. /\ deleted[n] \in Nat /\ created[n] \in Nat /\ Present(n) \in 0..1
      /\ Present(n)' \in 0..1
  BY DEF TInv, Types, Present
<1>3. CASE Steady(n)
  BY <1>1, <1>2, <1>3 DEF Steady
<1>4. CASE Taken(n)
  <2>1. PICK c \in Clients : S' = S \cup {c}
    BY <1>4 DEF Taken
  <2>2. IsFiniteSet(S') /\ Cardinality(S') \in {Cardinality(S), Cardinality(S) + 1}
    BY <1>1, <2>1, FS_AddElement
  <2>3. QED
    BY <1>1, <1>2, <1>4, <2>2 DEF Taken
<1>5. CASE Returned(n)
  <2>1. PICK c \in S : S' = S \ {c}
    BY <1>5 DEF Returned
  <2>2. IsFiniteSet(S') /\ Cardinality(S') = Cardinality(S) - 1
    BY <1>1, <2>1, FS_RemoveElement
  <2>3. QED
    BY <1>1, <1>2, <1>5, <2>2 DEF Returned
<1>6. QED
  BY <1>3, <1>4, <1>5

LEMMA UnlinkedSame ==
  ASSUME NEW c \in Clients, NEW n \in Names, step[c] # "unlink json",
         step'[c] = "unlink json" => ~op'[c].existed,
         \A d \in Clients \ {c} : op'[d] = op[d] /\ step'[d] = step[d]
  PROVE  Unlinked(n)' = Unlinked(n)
BY DEF Unlinked

LEMMA DInvStep == TInv /\ TInv' /\ DInv /\ [Next]_vars => DInv'
<1> SUFFICES ASSUME TInv, TInv', DInv, [Next]_vars PROVE DInv'
  OBVIOUS
<1>2. ASSUME NEW c \in Clients, NEW o \in Saves \cup Deletes, Begin(c, o) PROVE DInv'
  <2>1. /\ op[c] = NoOp /\ step[c] = "idle" /\ step'[c] # "unlink json"
        /\ \A d \in Clients \ {c} : op'[d] = op[d] /\ step'[d] = step[d]
    <3>1. Opening[Order[1]] = "open js"
      BY Labels
    <3>2. /\ step' = [step EXCEPT ![c] = IF o.kind = "save" THEN "open js" ELSE "exists"]
          /\ op' = [op EXCEPT ![c] = o] /\ op[c] = NoOp
      BY <1>2, <3>1 DEF Begin, Goto
    <3>3. step[c] = "idle"
      BY <3>2 DEF TInv, Role
    <3>4. QED
      BY <3>2, <3>3 DEF TInv, Types
  <2>2. UNCHANGED <<file, created, deleted>>
    BY <1>2 DEF Begin
  <2>3. \A n \in Names : Steady(n)
    BY <2>1, <2>2, UnlinkedSame DEF Steady, Present
  <2>4. QED
    BY <2>3, DInvKept
<1>3. ASSUME NEW c \in Clients, NEW part \in Parts, Open(c, part) PROVE DInv'
  <2> DEFINE m == op[c].name
  <2>1. /\ step[c] = Opening[part] /\ step'[c] = Writing[part]
        /\ \A d \in Clients \ {c} : op'[d] = op[d] /\ step'[d] = step[d]
        /\ file' = [file EXCEPT ![m][part] = <<>>] /\ deleted' = deleted
        /\ created' = IF part = "js" /\ file[m][part] = Absent
                      THEN [created EXCEPT ![m] = @ + 1] ELSE created
    BY <1>3 DEF Open, Opens, Goto, Set, TInv, Types
  <2>2. m \in Names /\ step[c] # "unlink json" /\ step'[c] # "unlink json"
    BY <2>1, PartLabels, Doing DEF SaveSteps
  <2> HIDE DEF m
  <2>3. \A n \in Names : file'[n]["js"] = IF n = m /\ part = "js" THEN <<>> ELSE file[n]["js"]
    BY <2>1, <2>2 DEF TInv, Types, Parts
  <2>4. <<>> # Absent
    <3>1. <<>> \in Seq(Versions)
      OBVIOUS
    <3>2. QED
      BY <3>1, StoreAssumption
  <2>5. \A n \in Names : created'[n] = IF n = m /\ part = "js" /\ file[m][part] = Absent
                                       THEN created[n] + 1 ELSE created[n]
    BY <2>1, <2>2 DEF TInv, Types
  <2>6. ASSUME NEW n \in Names PROVE Steady(n)
    <3>1. Unlinked(n)' = Unlinked(n) /\ deleted'[n] = deleted[n]
      BY <2>1, <2>2, UnlinkedSame
    <3>2. CASE n = m /\ part = "js" /\ file[m][part] = Absent
      BY <2>3, <2>5, <3>1, <3>2 DEF Steady, Present
    <3>3. CASE ~(n = m /\ part = "js" /\ file[m][part] = Absent)
      <4>1. Present(n)' = Present(n)
        BY <2>3, <2>4, <3>3 DEF Present
      <4>2. QED
        BY <2>5, <3>1, <3>3, <4>1 DEF Steady
    <3>4. QED
      BY <3>2, <3>3
  <2>7. QED
    BY <2>6, DInvKept
<1>4. ASSUME NEW c \in Clients, NEW part \in Parts, Write(c, part) PROVE DInv'
  <2>1. /\ step[c] = Writing[part] /\ step'[c] \in {"idle", "open json"}
        /\ \A d \in Clients \ {c} : op'[d] = op[d] /\ step'[d] = step[d]
        /\ UNCHANGED <<created, deleted>> /\ Put(c, part, Bytes(part, op[c].version))
    <3>1. \/ op' = [op EXCEPT ![c] = NoOp] /\ step' = [step EXCEPT ![c] = "idle"]
          \/ op' = op /\ step' = [step EXCEPT ![c] = "open json"]
      BY <1>4, Labels DEF Write, End, Goto
    <3>2. QED
      BY <1>4, <3>1 DEF Write, TInv, Types
  <2>2. op[c].version \in Versions /\ step[c] # "unlink json"
    BY <2>1, PartLabels, Doing DEF SaveSteps
  <2>3. 0 \in 0..Size[part][op[c].version]
    <3>1. Size[part][op[c].version] \in Nat
      BY <2>2, StoreAssumption
    <3>2. QED
      BY <3>1
  <2>4. \A n \in Names : file'[n]["js"] = Absent <=> file[n]["js"] = Absent
    BY <2>1, <2>3, WriteTyped DEF Parts
  <2>5. ASSUME NEW n \in Names PROVE Steady(n)
    <3>1. Unlinked(n)' = Unlinked(n)
      BY <2>1, <2>2, UnlinkedSame
    <3>2. Present(n)' = Present(n)
      BY <2>4 DEF Present
    <3>3. QED
      BY <2>1, <3>1, <3>2 DEF Steady
  <2>6. QED
    BY <2>5, DInvKept
<1>5. ASSUME NEW c \in Clients, Look(c) PROVE DInv'
  <2>1. step[c] = "exists" /\ op[c] \in Deletes /\ Exists(op[c].name) \in BOOLEAN
    BY <1>5, Doing DEF Look, DeleteSteps, Exists
  <2>2. /\ step'[c] = IF Exists(op[c].name) THEN "unlink js" ELSE "unlink json"
        /\ op'[c].existed = Exists(op[c].name)
    BY <1>5, <2>1, DeleteFacts DEF Look, Goto, TInv, Types
  <2>3. /\ \A d \in Clients \ {c} : op'[d] = op[d] /\ step'[d] = step[d]
        /\ UNCHANGED <<file, created, deleted>>
    BY <1>5 DEF Look, Goto, history, TInv, Types
  <2>4. ASSUME NEW n \in Names PROVE Steady(n)
    <3>1. Unlinked(n)' = Unlinked(n)
      BY <2>1, <2>2, <2>3, UnlinkedSame
    <3>2. QED
      BY <2>3, <3>1 DEF Steady, Present
  <2>5. QED
    BY <2>4, DInvKept
<1>6. ASSUME NEW c \in Clients, Unlink(c) PROVE DInv'
  <2>. PICK m \in Names : m = op[c].name
    BY <1>6, Doing DEF Unlink, DeleteSteps
  <2>1. /\ step[c] = "unlink js" /\ step'[c] = "unlink json" /\ op' = op
        /\ \A d \in Clients \ {c} : step'[d] = step[d]
        /\ file[m]["js"] # Absent /\ file' = [file EXCEPT ![m]["js"] = Absent]
        /\ UNCHANGED <<created, deleted>>
    BY <1>6 DEF Unlink, Unlinkable, Goto, Set, history, TInv, Types
  <2>2. op[c].existed
    BY <2>1 DEF TInv, Role
  <2>3. \A n \in Names : file'[n]["js"] = IF n = m THEN Absent ELSE file[n]["js"]
    BY <2>1, <2>2 DEF TInv, Types, Parts
  <2>4. ASSUME NEW n \in Names, n # m PROVE Steady(n)
    <3>1. Unlinked(n)' = Unlinked(n)
      BY <2>1, <2>4 DEF Unlinked
    <3>2. QED
      <4>1. Present(n)' = Present(n)
        BY <2>3, <2>4 DEF Present
      <4>2. QED
        BY <2>1, <3>1, <4>1 DEF Steady
  <2>5. Taken(m)
    <3>1. Unlinked(m)' = Unlinked(m) \cup {c}
      BY <2>1, <2>2 DEF Unlinked
    <3>2. QED
      <4>1. file[m]["js"] # Absent /\ file'[m]["js"] = Absent
        BY <2>1, <2>2, <2>3
      <4>2. Present(m) = 1 /\ Present(m)' = 0
        BY <4>1 DEF Present
      <4>3. QED
        BY <2>1, <3>1, <4>2 DEF Taken
  <2>6. QED
    BY <2>4, <2>5, DInvKept
<1>7. ASSUME NEW c \in Clients, step'[c] = "idle", op[c].name \in Names,
             \A d \in Clients \ {c} : op'[d] = op[d] /\ step'[d] = step[d],
             \A n \in Names : file'[n]["js"] = Absent <=> file[n]["js"] = Absent,
             created' = created,
             \A n \in Names : \/ deleted'[n] = deleted[n]
                              \/ c \in Unlinked(n) /\ deleted'[n] = deleted[n] + 1
      PROVE  DInv'
  <2>1. ASSUME NEW n \in Names PROVE Steady(n) \/ Returned(n)
    <3>1. Unlinked(n)' = Unlinked(n) \ {c}
      BY <1>7 DEF Unlinked
    <3>2. Present(n)' = Present(n)
      BY <1>7 DEF Present
    <3>3. CASE c \in Unlinked(n)
      BY <1>7, <3>1, <3>2, <3>3 DEF Returned
    <3>4. CASE c \notin Unlinked(n)
      BY <1>7, <3>1, <3>2, <3>4 DEF Steady, Present
    <3>5. QED
      BY <3>3, <3>4
  <2>2. QED
    BY <2>1, DInvKept
<1>8. ASSUME NEW c \in Clients, UnlinkMeta(c) PROVE DInv'
  <2>1. step[c] = "unlink json" /\ op[c].name \in Names
    BY <1>8, Doing DEF UnlinkMeta, DeleteSteps
  <2>2. /\ \A d \in Clients \ {c} : op'[d] = op[d] /\ step'[d] = step[d]
        /\ step'[c] = "idle" /\ created' = created
    BY <1>8 DEF UnlinkMeta, End, Goto, TInv, Types
  <2>3. \A n \in Names : file'[n]["js"] = file[n]["js"]
    <3>1. \/ file' = file
          \/ file' = [file EXCEPT ![op[c].name]["json"] = Absent]
      BY <1>8 DEF UnlinkMeta, Set
    <3>2. CASE file' = [file EXCEPT ![op[c].name]["json"] = Absent]
      <4>1. \A n \in Names, p \in Parts :
               file'[n][p] = IF n = op[c].name /\ p = "json" THEN Absent ELSE file[n][p]
        BY <2>1, <3>2 DEF TInv, Types
      <4>2. QED
        BY <4>1 DEF Parts
    <3>3. QED
      BY <3>1, <3>2
  <2>4. \A n \in Names : \/ deleted'[n] = deleted[n]
                         \/ c \in Unlinked(n) /\ deleted'[n] = deleted[n] + 1
    BY <1>8, <2>1 DEF UnlinkMeta, Unlinked, TInv, Types
  <2>5. QED
    BY <1>7, <2>1, <2>2, <2>3, <2>4
<1>9. ASSUME NEW c \in Clients, Fail(c) PROVE DInv'
  <2>1. op[c].name \in Names
    <3>1. step[c] \in SaveSteps \cup DeleteSteps
      BY <1>9 DEF Fail, TInv, Types, Role
    <3>2. QED
      BY <3>1, Doing
  <2>2. /\ \A d \in Clients \ {c} : op'[d] = op[d] /\ step'[d] = step[d]
        /\ step'[c] = "idle" /\ UNCHANGED <<created, deleted>>
    BY <1>9 DEF Fail, End, Goto, TInv, Types
  <2>3. \A n \in Names : file'[n]["js"] = Absent <=> file[n]["js"] = Absent
    BY <1>9, FailKeeps DEF Parts
  <2>4. QED
    BY <1>7, <2>1, <2>2, <2>3
<1>10. CASE UNCHANGED vars
  <2>1. \A n \in Names : Steady(n)
    BY <1>10 DEF vars, history, Steady, Unlinked, Present
  <2>2. QED
    BY <2>1, DInvKept
<1>11. QED
  BY <1>2, <1>3, <1>4, <1>5, <1>6, <1>8, <1>9, <1>10, Begins DEF Next

\* THEOREM DeletesCounted: deletes return true at most once for each source file
\* that a save created, and not for one that is still there.
THEOREM DeletesCounted == Spec => []OneDeletePerFile
<1>1. Init => DInv
  <2> SUFFICES ASSUME Init, NEW n \in Names
               PROVE  /\ IsFiniteSet(Unlinked(n))
                      /\ deleted[n] + Cardinality(Unlinked(n)) + Present(n) <= created[n]
    BY DEF DInv
  <2>1. Unlinked(n) = {}
    BY DEF Init, Unlinked
  <2>2. QED
    BY <2>1, FS_EmptySet DEF Init, Present, Parts
<1>2. TInv /\ DInv => OneDeletePerFile
  <2> SUFFICES ASSUME TInv, DInv, NEW n \in Names
               PROVE  deleted[n] + Present(n) <= created[n]
    BY DEF OneDeletePerFile, Present
  <2>1. Cardinality(Unlinked(n)) \in Nat /\ Present(n) \in 0..1
    BY FS_CardinalityType DEF DInv, Present
  <2>2. QED
    BY <2>1 DEF DInv, TInv, Types
<1>3. QED
  BY <1>1, <1>2, Inductive, DInvStep, PTL DEF Spec
-----------------------------------------------------------------------------
(***************************************************************************)
(* An operation that runs alone is exact.                                  *)
(***************************************************************************)

On(c, n) == op[c] # NoOp /\ op[c].name = n
Expectations == Versions \cup {"none", "any"}

\* How far the operation of c on n has come, if it met no other.
Lone(c, n) ==
  /\ step[c] = "write js" => handle[c] = "live" /\ file[n]["js"] = <<>>
  /\ step[c] \in {"open json", "write json"} =>
        file[n]["js"] = Bytes("js", op[c].version)
  /\ step[c] = "write json" => handle[c] = "live" /\ file[n]["json"] = <<>>
  /\ step[c] = "unlink json" => file[n]["js"] = Absent

\* What the last operation left, if it was alone.
Left(n) ==
  /\ expected[n] = "none" => file[n]["js"] = Absent
  /\ expected[n] \in Versions =>
        \A part \in Parts : file[n][part] = Bytes(part, expected[n])

Alone(c, n) ==
  On(c, n) =>
    /\ expected[n] = "any"
    /\ c \notin overlapped =>
          Lone(c, n) /\ \A d \in Clients : On(d, n) => d = c

EInv ==
  /\ expected \in [Names -> Expectations]
  /\ \A n \in Names : Left(n) /\ \A c \in Clients : Alone(c, n)

LEMMA Markers == "any" \notin Versions /\ "none" \notin Versions
BY StoreAssumption

LEMMA OverwriteEmpty ==
  ASSUME NEW new \in Seq(Versions) PROVE Overwrite(<<>>, new) = new
<1>1. Overwrite(<<>>, new) = [i \in 1..Len(new) |-> new[i]]
  BY DEF Overwrite
<1>2. QED
  BY <1>1

\* EInv holds after a step of c on m that leaves other names and the steps of
\* other clients alone, if it holds of m and c.
LEMMA EInvKept ==
  ASSUME TInv, EInv, NEW c \in Clients, NEW m \in Names, On(c, m),
         \A d \in Clients \ {c} :
            /\ op'[d] = op[d] /\ step'[d] = step[d]
            /\ op[d].name # m => handle'[d] = handle[d],
         \A n \in Names \ {m} :
            expected'[n] = expected[n] /\ \A part \in Parts : file'[n][part] = file[n][part],
         \/ overlapped' = overlapped
         \/ overlapped' = overlapped \ {c} /\ op'[c] = NoOp,
         op'[c] # NoOp => op'[c].name = m /\ expected'[m] = "any",
         op'[c] # NoOp /\ c \notin overlapped => Lone(c, m)',
         c \in overlapped => expected'[m] = "any",
         Left(m)', expected' \in [Names -> Expectations]
  PROVE  EInv'
<1> USE DEF Alone
<1> SUFFICES ASSUME NEW n \in Names
             PROVE  Left(n)' /\ \A d \in Clients : Alone(d, n)'
  BY DEF EInv
<1>1. \A d \in Clients \ {c} : \A k \in Names : On(d, k)' <=> On(d, k)
  BY DEF On
<1>2. \A k \in Names : On(c, k)' => k = m
  BY DEF On
<1>3. CASE n = m
  <2>1. ASSUME NEW d \in Clients \ {c}, On(d, m)
        PROVE  d \in overlapped' /\ c \in overlapped
    BY <2>1 DEF EInv
  <2>2. ASSUME On(c, m)', c \notin overlapped'
        PROVE  Lone(c, m)' /\ \A e \in Clients : On(e, m)' => e = c
    <3>1. op'[c] # NoOp /\ c \notin overlapped
      BY <2>2 DEF On
    <3>2. QED
      BY <1>1, <3>1, <2>1
  <2>3. QED
    BY <1>1, <1>3, <2>1, <2>2 DEF On
<1>4. CASE n # m
  <2>1. Left(n)'
    BY <1>4 DEF EInv, Left, Parts
  <2>2. ASSUME NEW d \in Clients, On(d, n)'
        PROVE  /\ expected'[n] = "any"
               /\ d \notin overlapped' =>
                     Lone(d, n)' /\ \A e \in Clients : On(e, n)' => e = d
    <3>1. d # c /\ On(d, n) /\ \A e \in Clients : On(e, n)' => On(e, n)
      BY <1>1, <1>2, <1>4, <2>2
    <3>2. op'[d] = op[d] /\ step'[d] = step[d] /\ handle'[d] = handle[d]
      BY <1>4, <3>1 DEF On
    <3>3. \A part \in Parts : file'[n][part] = file[n][part]
      BY <1>4
    <3>4. d \notin overlapped' => d \notin overlapped
      BY <3>1
    <3>5. "js" \in Parts /\ "json" \in Parts
      BY DEF Parts
    <3>6. Lone(d, n) => Lone(d, n)'
      BY <3>2, <3>3, <3>5 DEF Lone
    <3>7. expected'[n] = "any"
      BY <1>4, <3>1 DEF EInv
    <3>8. QED
      BY <3>1, <3>4, <3>6, <3>7 DEF EInv
  <2>3. QED
    BY <2>1, <2>2
<1>5. QED
  BY <1>3, <1>4
LEMMA EInvStep == TInv /\ EInv /\ TInv' /\ [Next]_vars => EInv'
<1> SUFFICES ASSUME TInv, EInv, TInv', [Next]_vars PROVE EInv'
  OBVIOUS
<1> USE Markers
<1>0. "js" \in Parts /\ "json" \in Parts /\ \A p \in Parts : p \in {"js", "json"}
  BY DEF Parts
<1>1. ASSUME NEW c \in Clients, NEW o \in Saves \cup Deletes, Begin(c, o) PROVE EInv'
  <2> DEFINE m == o.name
  <2>1. m \in Names /\ o # NoOp
    BY SaveFacts, DeleteFacts
  <2>2. /\ step' = [step EXCEPT ![c] = IF o.kind = "save" THEN "open js" ELSE "exists"]
        /\ op' = [op EXCEPT ![c] = o] /\ UNCHANGED <<file, handle>> /\ op[c] = NoOp
        /\ overlapped' = IF Active(m) = {} THEN overlapped
                         ELSE overlapped \cup Active(m) \cup {c}
        /\ expected' = [expected EXCEPT ![m] = "any"]
    <3>1. Opening[Order[1]] = "open js"
      BY Labels
    <3>2. QED
      BY <1>1, <3>1 DEF Begin, Goto
  <2> HIDE DEF m
  <2>3. \A d \in Clients, n \in Names : d # c => (On(d, n)' <=> On(d, n))
    BY <2>2 DEF On, TInv, Types
  <2>4. \A n \in Names : On(c, n)' <=> n = m
    BY <2>1, <2>2 DEF On, TInv, Types, m
  <2>5. \A n \in Names : ~On(c, n)
    BY <2>2 DEF On
  <2>6. Active(m) = {d \in Clients : On(d, m)}
    BY DEF Active, On
  <2>7. Lone(c, m)'
    BY <2>2 DEF Lone, TInv, Types
  <2>8. \A d \in Clients \ {c}, n \in Names : Lone(d, n) => Lone(d, n)'
    BY <2>2 DEF Lone, TInv, Types
  <2>9. \A n \in Names : expected'[n] = IF n = m THEN "any" ELSE expected[n]
    BY <2>2 DEF EInv
  <2>10. expected' \in [Names -> Expectations]
    BY <2>2 DEF EInv, Expectations
  <2>11. \A n \in Names : Left(n)'
    BY <2>2, <2>9 DEF EInv, Left
  <2>12. ASSUME NEW n \in Names, NEW d \in Clients PROVE Alone(d, n)'
    <3>1. CASE n = m
      <4>1. ASSUME NEW e \in Clients, On(e, m), e # c
            PROVE  /\ c \in overlapped' /\ e \in overlapped'
        BY <2>2, <2>6, <4>1
      <4>2. QED
        BY <2>3, <2>7, <2>9, <3>1, <4>1 DEF Alone
    <3>2. CASE n # m
      <4>1. d \in overlapped => d \in overlapped'
        BY <2>2
      <4>2. Alone(d, n)
        BY DEF EInv
      <4>3. QED
        BY <2>3, <2>4, <2>8, <2>9, <3>2, <4>1, <4>2 DEF Alone
    <3>3. QED
      BY <3>1, <3>2
  <2>13. QED
    BY <2>10, <2>11, <2>12 DEF EInv
\* End: what the operation left is expected if it met no other.
<1>2. ASSUME NEW c \in Clients, NEW m \in Names, On(c, m),
             NEW outcome \in Expectations, End(c, outcome),
             \A d \in Clients \ {c} : op[d].name # m => handle'[d] = handle[d],
             \A n \in Names \ {m} : \A part \in Parts : file'[n][part] = file[n][part],
             c \notin overlapped =>
                /\ outcome = "none" => file'[m]["js"] = Absent
                /\ outcome \in Versions =>
                      \A part \in Parts : file'[m][part] = Bytes(part, outcome)
      PROVE  EInv'
  <2>1. /\ op' = [op EXCEPT ![c] = NoOp] /\ step' = [step EXCEPT ![c] = "idle"]
        /\ overlapped' = overlapped \ {c}
        /\ expected' = [expected EXCEPT ![m] = IF c \in overlapped THEN "any"
                                              ELSE outcome]
    BY <1>2 DEF End, Goto, On
  <2>2. \A d \in Clients \ {c} : op'[d] = op[d] /\ step'[d] = step[d]
    BY <2>1 DEF TInv, Types
  <2>3. op'[c] = NoOp
    BY <2>1 DEF TInv, Types
  <2>4. /\ expected' \in [Names -> Expectations]
        /\ expected'[m] = IF c \in overlapped THEN "any" ELSE outcome
        /\ \A n \in Names \ {m} : expected'[n] = expected[n]
    BY <2>1 DEF EInv, Expectations
  <2>5. Left(m)'
    BY <1>2, <2>4 DEF Left
  <2>6. QED
    BY <1>2, <2>1, <2>2, <2>3, <2>4, <2>5, EInvKept
\* A step within the operation, which goes on to the next system call.
<1>3. ASSUME NEW c \in Clients, NEW m \in Names, On(c, m), On(c, m)',
             \A d \in Clients \ {c} :
                /\ op'[d] = op[d] /\ step'[d] = step[d]
                /\ op[d].name # m => handle'[d] = handle[d],
             \A n \in Names \ {m} : \A part \in Parts : file'[n][part] = file[n][part],
             UNCHANGED <<overlapped, expected>>,
             c \notin overlapped => Lone(c, m)'
      PROVE  EInv'
  <2>1. expected[m] = "any" /\ expected \in [Names -> Expectations]
    BY <1>3 DEF EInv, Alone
  <2>2. Left(m)'
    BY <1>3, <2>1 DEF Left
  <2>3. QED
    BY <1>3, <2>1, <2>2, EInvKept DEF On
<1>4. ASSUME NEW c \in Clients, NEW part \in Parts, Open(c, part) PROVE EInv'
  <2>a. PICK m : m = op[c].name
    OBVIOUS
  <2>1. /\ file' = [file EXCEPT ![m][part] = <<>>]
        /\ step' = [step EXCEPT ![c] = Writing[part]] /\ step[c] = Opening[part]
        /\ handle' = [handle EXCEPT ![c] = "live"] /\ op' = op
        /\ UNCHANGED <<overlapped, expected>>
    BY <1>4, <2>a DEF Open, Opens, Set, Goto
  <2>2. m \in Names /\ op[c] # NoOp
    BY <2>1, <2>a, PartLabels, Doing
  <2>3. On(c, m) /\ On(c, m)'
    BY <2>1, <2>2, <2>a DEF On
  <2>4. \A n \in Names, p \in Parts :
           file'[n][p] = IF n = m /\ p = part THEN <<>> ELSE file[n][p]
    BY <2>1, <2>2 DEF TInv, Types
  <2>5. step'[c] = Writing[part] /\ handle'[c] = "live"
    BY <2>1 DEF TInv, Types
  <2>6. \A d \in Clients \ {c} : UNCHANGED <<op[d], step[d], handle[d]>>
    BY <2>1 DEF TInv, Types
  <2>7. ASSUME c \notin overlapped PROVE Lone(c, m)'
    <3>1. Lone(c, m)
      BY <2>2, <2>3, <2>7 DEF EInv, Alone
    <3>2. CASE part = "js"
      BY <1>0, <2>2, <2>4, <2>5, <3>2, Labels DEF Lone
    <3>3. CASE part = "json"
      <4>1. step[c] = "open json" /\ step'[c] = "write json"
        BY <2>1, <2>5, <3>3, Labels
      <4>2. file'[m]["json"] = <<>> /\ file'[m]["js"] = file[m]["js"]
        BY <1>0, <2>2, <2>4, <3>3
      <4>3. file[m]["js"] = Bytes("js", op[c].version) /\ op'[c] = op[c]
        BY <2>1, <3>1, <4>1 DEF Lone
      <4>4. Bytes("js", op[c].version)' = Bytes("js", op[c].version)
        BY <4>3 DEF Bytes
      <4>5. QED
        BY <2>5, <4>1, <4>2, <4>3, <4>4 DEF Lone
    <3>4. QED
      BY <1>0, <3>2, <3>3
  <2>8. QED
    BY <1>3, <2>1, <2>2, <2>3, <2>4, <2>6, <2>7
<1>5. ASSUME NEW c \in Clients, NEW part \in Parts, Write(c, part) PROVE EInv'
  <2>a. PICK m, v : m = op[c].name /\ v = op[c].version
    OBVIOUS
  <2>1. /\ step[c] = Writing[part] /\ Put(c, part, Bytes(part, v))
        /\ handle' = [handle EXCEPT ![c] = "none"]
    BY <1>5, <2>a DEF Write
  <2>2. m \in Names /\ v \in Versions /\ op[c] # NoOp /\ op[c] \in Saves
    BY <2>1, <2>a, PartLabels, Doing
  <2>3. On(c, m)
    BY <2>2, <2>a DEF On
  <2>4. Bytes(part, v) \in Seq(Versions)
    <3>1. 0 \in 0..Size[part][v]
      BY <2>2, StoreAssumption
    <3>2. QED
      BY <2>2, <3>1, BytesTyped
  <2>5. /\ \A n \in Names \ {m} : \A p \in Parts : file'[n][p] = file[n][p]
        /\ \A p \in Parts \ {part} : file'[m][p] = file[m][p]
    BY <2>1, <2>2, <2>4, <2>a, PutTyped
  <2>6. handle[c] = "live" /\ file[m][part] = <<>> => file'[m][part] = Bytes(part, v)
    <3>1. ASSUME handle[c] = "live"
          PROVE  file' = [file EXCEPT ![m][part] = Overwrite(file[m][part], Bytes(part, v))]
      BY <2>1, <2>a, <3>1 DEF Put, Set
    <3>2. file \in [Names -> [Parts -> Content]]
      BY DEF TInv, Types
    <3>3. QED
      BY <2>2, <2>4, <3>1, <3>2, OverwriteEmpty
  <2>7. \A d \in Clients \ {c} : handle'[d] = handle[d]
    BY <2>1 DEF TInv, Types
  <2>8. c \notin overlapped => Lone(c, m)
    BY <2>2, <2>3 DEF EInv, Alone
  <2>9. CASE part = "js"
    <3>1. /\ step' = [step EXCEPT ![c] = "open json"]
          /\ UNCHANGED <<op, overlapped, expected>>
      BY <1>5, <2>9, Labels DEF Write, Goto
    <3>2. step'[c] = "open json" /\ \A d \in Clients \ {c} : step'[d] = step[d]
      BY <3>1 DEF TInv, Types
    <3>3. c \notin overlapped => Lone(c, m)'
      BY <2>1, <2>6, <2>8, <2>9, <2>a, <3>1, <3>2, Labels DEF Lone
    <3>4. On(c, m)'
      BY <2>3, <3>1 DEF On
    <3>5. QED
      BY <1>3, <2>2, <2>3, <2>5, <2>7, <3>1, <3>2, <3>3, <3>4
  <2>10. CASE part = "json"
    <3>1. End(c, v)
      BY <1>5, <2>10, <2>a, Labels DEF Write
    <3>2. ASSUME c \notin overlapped, NEW p \in Parts PROVE file'[m][p] = Bytes(p, v)
      <4>1. step[c] = "write json"
        BY <2>1, <2>10, Labels
      <4>2. /\ file[m]["js"] = Bytes("js", v) /\ handle[c] = "live"
            /\ file[m]["json"] = <<>>
        BY <2>8, <2>a, <3>2, <4>1 DEF Lone
      <4>3. CASE p = "js"
        BY <1>0, <2>5, <2>10, <4>2, <4>3
      <4>4. CASE p = "json"
        BY <2>6, <2>10, <4>2, <4>4
      <4>5. QED
        BY <1>0, <4>3, <4>4
    <3>3. v \in Expectations
      BY <2>2 DEF Expectations
    <3>4. QED
      BY <1>2, <2>2, <2>3, <2>5, <2>7, <3>1, <3>2, <3>3
  <2>11. QED
    BY <1>0, <2>9, <2>10
<1>6. ASSUME NEW c \in Clients, Look(c) PROVE EInv'
  <2>a. PICK m : m = op[c].name
    OBVIOUS
  <2>1. op[c] \in Deletes /\ m \in Names /\ op[c] # NoOp
    BY <1>6, <2>a, Doing DEF Look, DeleteSteps
  <2>2. /\ op' = [op EXCEPT ![c] = [op[c] EXCEPT !.existed = Exists(m)]]
        /\ step' = [step EXCEPT ![c] = IF Exists(m) THEN "unlink js" ELSE "unlink json"]
        /\ UNCHANGED <<file, handle, overlapped, expected>>
    BY <1>6, <2>a DEF Look, Goto, history
  <2>3. op'[c].name = m /\ op'[c] # NoOp
    <3>1. Exists(m) \in BOOLEAN
      BY DEF Exists
    <3>2. [op[c] EXCEPT !.existed = Exists(m)] \in Deletes
          /\ [op[c] EXCEPT !.existed = Exists(m)].name = m
      BY <2>1, <2>a, <3>1, DeleteFacts
    <3>3. op'[c] = [op[c] EXCEPT !.existed = Exists(m)]
      BY <2>2 DEF TInv, Types
    <3>4. QED
      BY <3>2, <3>3, DeleteFacts
  <2>4. On(c, m) /\ On(c, m)'
    BY <2>1, <2>3, <2>a DEF On
  <2>5. step'[c] = IF Exists(m) THEN "unlink js" ELSE "unlink json"
    BY <2>2 DEF TInv, Types
  <2>6. Lone(c, m)'
    <3>1. step'[c] = "unlink json" => file'[m]["js"] = Absent
      <4>1. CASE Exists(m)
        BY <2>5, <4>1
      <4>2. CASE ~Exists(m)
        BY <2>2, <4>2 DEF Exists
      <4>3. QED
        BY <4>1, <4>2
    <3>2. step'[c] \in {"unlink js", "unlink json"}
      BY <2>5
    <3>3. QED
      BY <3>1, <3>2 DEF Lone
  <2>7. \A d \in Clients \ {c} : UNCHANGED <<op[d], step[d], handle[d]>>
    BY <2>2 DEF TInv, Types
  <2>8. QED
    BY <1>3, <2>1, <2>2, <2>4, <2>6, <2>7
<1>7. ASSUME NEW c \in Clients, Unlink(c) PROVE EInv'
  <2>a. PICK m : m = op[c].name
    OBVIOUS
  <2>1. m \in Names /\ op[c] # NoOp
    BY <1>7, <2>a, Doing DEF Unlink, DeleteSteps
  <2>2. /\ file' = [file EXCEPT ![m]["js"] = Absent] /\ Orphans(m, "js")
        /\ step' = [step EXCEPT ![c] = "unlink json"]
        /\ UNCHANGED <<op, overlapped, expected>>
    BY <1>7, <2>a DEF Unlink, Goto, Set, history
  <2>3. On(c, m) /\ On(c, m)'
    BY <2>1, <2>2, <2>a DEF On
  <2>4. \A n \in Names, p \in Parts :
           file'[n][p] = IF n = m /\ p = "js" THEN Absent ELSE file[n][p]
    BY <2>1, <2>2 DEF TInv, Types
  <2>5. Lone(c, m)'
    BY <1>0, <2>1, <2>2, <2>4 DEF Lone, TInv, Types
  <2>6. \A d \in Clients \ {c} :
           /\ UNCHANGED <<op[d], step[d]>>
           /\ op[d].name # m => handle'[d] = handle[d]
    BY <2>2 DEF Orphans, Active, TInv, Types
  <2>7. \A n \in Names \ {m} : \A p \in Parts : file'[n][p] = file[n][p]
    BY <2>4
  <2>8. UNCHANGED <<overlapped, expected>>
    BY <2>2
  <2>9. QED
    BY <1>3, <2>1, <2>3, <2>5, <2>6, <2>7, <2>8
<1>8. ASSUME NEW c \in Clients, UnlinkMeta(c) PROVE EInv'
  <2> DEFINE m == op[c].name
  <2>1. m \in Names /\ op[c] # NoOp
    BY <1>8, Doing DEF UnlinkMeta, DeleteSteps
  <2>2. End(c, "none") /\ step[c] = "unlink json"
    BY <1>8 DEF UnlinkMeta
  <2>3. On(c, m) /\ "none" \in Expectations
    BY <2>1 DEF On, Expectations
  <2>4. \/ file' = [file EXCEPT ![m]["json"] = Absent] /\ Orphans(m, "json")
        \/ UNCHANGED <<file, handle>>
    BY <1>8 DEF UnlinkMeta, Set
  <2>5. c \notin overlapped => file[m]["js"] = Absent
    BY <2>1, <2>2, <2>3 DEF EInv, Alone, Lone
  <2> HIDE DEF m
  <2>6. \A n \in Names, p \in Parts :
           n # m \/ p = "js" => file'[n][p] = file[n][p]
    BY <2>1, <2>4 DEF TInv, Types
  <2>7. \A d \in Clients \ {c} : op[d].name # m => handle'[d] = handle[d]
    BY <2>4 DEF Orphans, Active
  <2>8. QED
    BY <1>0, <1>2, <2>1, <2>2, <2>3, <2>5, <2>6, <2>7
<1>9. ASSUME NEW c \in Clients, Fail(c) PROVE EInv'
  <2> DEFINE m == op[c].name
  <2>1. op[c] # NoOp /\ End(c, "any") /\ handle' = [handle EXCEPT ![c] = "none"]
    BY <1>9 DEF Fail
  <2>2. op[c] \in Saves \cup Deletes
    BY <2>1 DEF TInv, Types
  <2>3. m \in Names /\ On(c, m) /\ "any" \in Expectations
    BY <2>1, <2>2, SaveFacts, DeleteFacts DEF On, Expectations
  <2>4. \A n \in Names \ {m} : \A p \in Parts : file'[n][p] = file[n][p]
    <3>1. CASE UNCHANGED file
      BY <3>1
    <3>2. CASE ~UNCHANGED file
      <4>1. PICK part \in Parts :
               /\ step[c] = Writing[part]
               /\ \E k \in 0..Size[part][op[c].version] :
                     Put(c, part, SubSeq(Bytes(part, op[c].version), 1, k))
        BY <1>9, <3>2, FailWrites
      <4>2. PICK k \in 0..Size[part][op[c].version] :
               Put(c, part, SubSeq(Bytes(part, op[c].version), 1, k))
        BY <4>1
      <4> DEFINE bytes == SubSeq(Bytes(part, op[c].version), 1, k)
      <4>3. bytes \in {Bytes(part, op[c].version), SubSeq(Bytes(part, op[c].version), 1, k)}
            /\ Put(c, part, bytes)
        BY <4>2
      <4> HIDE DEF bytes
      <4>4. QED
        BY <4>1, <4>3, WriteTyped
    <3>3. QED
      BY <3>1, <3>2
  <2>5. \A d \in Clients \ {c} : handle'[d] = handle[d]
    BY <2>1 DEF TInv, Types
  <2> HIDE DEF m
  <2>6. QED
    BY <1>2, <2>1, <2>3, <2>4, <2>5
<1>10. CASE UNCHANGED vars
  <2>1. UNCHANGED <<file, op, step, handle, overlapped, expected>>
    BY <1>10 DEF vars, history
  <2>2. \A n \in Names : Left(n) => Left(n)'
    BY <2>1 DEF Left
  <2>3. \A n \in Names, c \in Clients : Alone(c, n) => Alone(c, n)'
    BY <2>1 DEF Alone, On, Lone
  <2>4. QED
    BY <2>1, <2>2, <2>3 DEF EInv
<1>11. QED
  BY <1>1, <1>4, <1>5, <1>6, <1>7, <1>8, <1>9, <1>10, Begins DEF Next

\* After an operation that met no other and did not fail, list and load show
\* exactly what it left, for any clients, names, versions and sizes.
THEOREM LoneIsExact == Spec => []AloneIsExact
<1>1. Init => EInv
  BY Markers DEF Init, EInv, Left, Alone, On, Expectations, Parts
<1>2. EInv => AloneIsExact
  <2> SUFFICES ASSUME EInv, NEW n \in Names PROVE expected[n] \in {"any", Shown(n)}
    BY DEF AloneIsExact
  <2>1. "js" \in Parts /\ "json" \in Parts
    BY DEF Parts
  <2>2. CASE expected[n] = "none"
    BY <2>2, Markers DEF EInv, Left, Shown
  <2>3. CASE expected[n] \in Versions
    <3> DEFINE v == expected[n]
    <3>1. \A part \in Parts : file[n][part] = Bytes(part, v)
      BY <2>3 DEF EInv, Left
    <3>2. \A w \in Versions :
             /\ Bytes("js", w) \in Seq(Versions) /\ 1 \in DOMAIN Bytes("js", w)
             /\ Bytes("js", w)[1] = w
      <4>1. ASSUME NEW w \in Versions PROVE Size["js"][w] \in Nat \ {0}
        BY <2>1, <4>1, StoreAssumption
      <4>2. QED
        BY <4>1 DEF Bytes
    <3>3. \A w \in Versions : Bytes("js", w) = Bytes("js", v) => w = v
      BY <2>3, <3>2
    <3>4. file[n]["js"] # Absent
      BY <2>1, <2>3, <3>1, <3>2, StoreAssumption
    <3>5. (CHOOSE w \in Versions : file[n]["js"] = Bytes("js", w)) = v
      BY <2>1, <2>3, <3>1, <3>3
    <3>6. QED
      BY <2>3, <3>1, <3>4, <3>5 DEF Shown
  <2>4. QED
    BY <2>2, <2>3 DEF EInv, Expectations
<1>3. QED
  BY <1>1, <1>2, Inductive, EInvStep, PTL DEF Spec
-----------------------------------------------------------------------------
(***************************************************************************)
(* Types and sizes: whatever races, no file outgrows the largest version.  *)
(***************************************************************************)

Fits(content, part) == \E v \in Versions : Len(content) <= Size[part][v]

KInv ==
  /\ \A n \in Names, part \in Parts :
        file[n][part] # Absent => Fits(file[n][part], part)
  /\ begun \in 0..MaxOps
  /\ overlapped \subseteq Clients /\ collided \subseteq Names \X Parts
  /\ failed \subseteq Names /\ written \subseteq Names \X Versions
  /\ expected \in [Names -> Expectations]

LEMMA SizeTyped == \A part \in Parts, v \in Versions : Size[part][v] \in Nat \ {0}
BY StoreAssumption

\* A part of a version, written over what fits, fits.
LEMMA OverwriteFits ==
  ASSUME NEW part \in Parts, NEW v \in Versions, NEW k \in 0..Size[part][v],
         NEW bytes, bytes \in {Bytes(part, v), SubSeq(Bytes(part, v), 1, k)},
         NEW old \in Seq(Versions), Fits(old, part)
  PROVE  Fits(Overwrite(old, bytes), part)
<1>1. bytes \in Seq(Versions) /\ Len(bytes) <= Size[part][v]
  <2>1. Size[part][v] \in Nat
    BY SizeTyped
  <2>2. CASE bytes = Bytes(part, v)
    BY <2>1, <2>2, BytesTyped
  <2>3. CASE bytes = SubSeq(Bytes(part, v), 1, k)
    BY <2>1, <2>3, BytesTyped
  <2>4. QED
    BY <2>2, <2>3
<1>2. Len(Overwrite(old, bytes)) = IF Len(old) > Len(bytes) THEN Len(old) ELSE Len(bytes)
  BY <1>1 DEF Overwrite
<1>3. QED
  BY <1>1, <1>2 DEF Fits

\* KInv holds after a step of c that writes to one file or none.
LEMMA WriteKeepsFit ==
  ASSUME TInv, KInv, NEW c \in Clients, NEW part \in Parts, step[c] = Writing[part],
         NEW k \in 0..Size[part][op[c].version], NEW bytes,
         bytes \in {Bytes(part, op[c].version), SubSeq(Bytes(part, op[c].version), 1, k)},
         Put(c, part, bytes), NEW n \in Names, NEW p \in Parts, file'[n][p] # Absent
  PROVE  Fits(file'[n][p], p)
<1>1. op[c].version \in Versions
  BY PartLabels, Doing
<1>2. /\ file'[n][p] = Absent <=> file[n][p] = Absent
      /\ \/ file'[n][p] = file[n][p]
         \/ /\ p = part /\ file[n][p] \in Seq(Versions)
            /\ file'[n][p] = Overwrite(file[n][p], bytes)
  BY WriteTyped
<1>3. Fits(file[n][p], p)
  BY <1>2 DEF KInv
<1>4. CASE file'[n][p] = file[n][p]
  BY <1>3, <1>4
<1>5. CASE /\ p = part /\ file[n][p] \in Seq(Versions)
           /\ file'[n][p] = Overwrite(file[n][p], bytes)
  BY <1>1, <1>3, <1>5, OverwriteFits
<1>6. QED
  BY <1>2, <1>4, <1>5

\* An operation that ends leaves the history typed.
LEMMA EndTyped ==
  ASSUME KInv, NEW c \in Clients, NEW outcome \in Expectations, End(c, outcome)
  PROVE  overlapped' \subseteq Clients /\ expected' \in [Names -> Expectations]
BY DEF KInv, End, Expectations

LEMMA KInvStep == TInv /\ KInv /\ [Next]_vars => KInv'
<1> SUFFICES ASSUME TInv, KInv, [Next]_vars PROVE KInv'
  OBVIOUS
<1>1. ASSUME NEW c \in Clients, NEW o \in Saves \cup Deletes, Begin(c, o) PROVE KInv'
  <2>1. begun' \in 0..MaxOps
    BY <1>1, StoreAssumption DEF Begin, KInv
  <2>2. overlapped' \subseteq Clients
    BY <1>1 DEF Begin, KInv, Active
  <2>3. expected' \in [Names -> Expectations]
    BY <1>1 DEF Begin, KInv, Expectations
  <2>4. UNCHANGED <<file, collided, failed, written>>
    BY <1>1 DEF Begin
  <2>5. QED
    BY <2>1, <2>2, <2>3, <2>4 DEF KInv
<1>2. ASSUME NEW c \in Clients, NEW part \in Parts, Open(c, part) PROVE KInv'
  <2>a. PICK m : m = op[c].name
    OBVIOUS
  <2>1. /\ file' = [file EXCEPT ![m][part] = <<>>] /\ step[c] = Opening[part]
        /\ \/ collided' = collided \ {<<m, part>>}
           \/ collided' = collided \cup {<<m, part>>}
        /\ UNCHANGED <<begun, overlapped, failed, expected, written>>
    BY <1>2, <2>a DEF Open, Opens, Set
  <2>2. m \in Names /\ op[c].version \in Versions
    BY <2>1, <2>a, PartLabels, Doing
  <2>3. \A n \in Names, p \in Parts :
           file'[n][p] = IF n = m /\ p = part THEN <<>> ELSE file[n][p]
    BY <2>1, <2>2 DEF TInv, Types
  <2>4. Fits(<<>>, part)
    <3>1. Size[part][op[c].version] \in Nat
      BY <2>2, SizeTyped
    <3>2. QED
      BY <2>2, <3>1 DEF Fits
  <2>5. \A n \in Names, p \in Parts : file'[n][p] # Absent => Fits(file'[n][p], p)
    BY <2>3, <2>4 DEF KInv
  <2>6. collided' \subseteq Names \X Parts
    BY <2>1, <2>2 DEF KInv
  <2>7. QED
    BY <2>1, <2>5, <2>6 DEF KInv
<1>3. ASSUME NEW c \in Clients, NEW part \in Parts, Write(c, part) PROVE KInv'
  <2>1. step[c] = Writing[part] /\ Put(c, part, Bytes(part, op[c].version))
    BY <1>3 DEF Write
  <2>2. op[c].name \in Names /\ op[c].version \in Versions
    BY <2>1, PartLabels, Doing
  <2>3. 0 \in 0..Size[part][op[c].version]
    BY <2>2, SizeTyped
  <2>4. \A n \in Names, p \in Parts : file'[n][p] # Absent => Fits(file'[n][p], p)
    BY <2>1, <2>3, WriteKeepsFit
  <2>5. overlapped' \subseteq Clients /\ expected' \in [Names -> Expectations]
    <3>1. op[c].version \in Expectations
      BY <2>2 DEF Expectations
    <3>2. End(c, op[c].version) \/ UNCHANGED <<overlapped, expected>>
      BY <1>3 DEF Write
    <3>3. QED
      BY <3>1, <3>2, EndTyped DEF KInv
  <2>6. written' \subseteq Names \X Versions
    BY <1>3, <2>2 DEF Write, KInv
  <2>7. UNCHANGED <<begun, collided, failed>>
    BY <1>3 DEF Write
  <2>8. QED
    BY <2>4, <2>5, <2>6, <2>7 DEF KInv
<1>4. ASSUME NEW c \in Clients, Look(c) PROVE KInv'
  BY <1>4 DEF Look, history, KInv
<1>5. ASSUME NEW c \in Clients, NEW part \in Parts, op[c].name \in Names,
             Set(op[c].name, part, Absent),
             UNCHANGED <<begun, collided, failed, written>>,
             overlapped' \subseteq Clients, expected' \in [Names -> Expectations]
      PROVE  KInv'
  <2>1. \A n \in Names, p \in Parts :
           file'[n][p] = Absent \/ file'[n][p] = file[n][p]
    BY <1>5 DEF Set, TInv, Types
  <2>2. \A n \in Names, p \in Parts : file'[n][p] # Absent => Fits(file'[n][p], p)
    BY <2>1 DEF KInv
  <2>3. QED
    BY <1>5, <2>2 DEF KInv
<1>6. ASSUME NEW c \in Clients, Unlink(c) PROVE KInv'
  <2>1. op[c].name \in Names /\ "js" \in Parts
    BY <1>6, Doing DEF Unlink, DeleteSteps, Parts
  <2>2. overlapped' \subseteq Clients /\ expected' \in [Names -> Expectations]
    BY <1>6 DEF Unlink, history, KInv
  <2>3. QED
    BY <1>5, <1>6, <2>1, <2>2 DEF Unlink, history
<1>7. ASSUME NEW c \in Clients, UnlinkMeta(c) PROVE KInv'
  <2>1. op[c].name \in Names /\ "json" \in Parts /\ "none" \in Expectations
    BY <1>7, Doing DEF UnlinkMeta, DeleteSteps, Parts, Expectations
  <2>2. overlapped' \subseteq Clients /\ expected' \in [Names -> Expectations]
    BY <1>7, <2>1, EndTyped DEF UnlinkMeta
  <2>3. CASE Set(op[c].name, "json", Absent)
    BY <1>5, <1>7, <2>1, <2>2, <2>3 DEF UnlinkMeta
  <2>4. CASE UNCHANGED file
    BY <1>7, <2>2, <2>4 DEF UnlinkMeta, KInv
  <2>5. QED
    BY <1>7, <2>3, <2>4 DEF UnlinkMeta
<1>8. ASSUME NEW c \in Clients, Fail(c) PROVE KInv'
  <2>1. op[c].name \in Names /\ "any" \in Expectations
    BY <1>8, SaveFacts, DeleteFacts DEF Fail, TInv, Types, Expectations
  <2>2. overlapped' \subseteq Clients /\ expected' \in [Names -> Expectations]
    BY <1>8, <2>1, EndTyped DEF Fail
  <2>3. failed' \subseteq Names /\ UNCHANGED <<begun, collided, written>>
    BY <1>8, <2>1 DEF Fail, KInv
  <2>4. \A n \in Names, p \in Parts : file'[n][p] # Absent => Fits(file'[n][p], p)
    <3>1. CASE UNCHANGED file
      BY <3>1 DEF KInv
    <3>2. CASE ~UNCHANGED file
      <4>1. PICK part \in Parts :
               /\ step[c] = Writing[part]
               /\ \E k \in 0..Size[part][op[c].version] :
                     Put(c, part, SubSeq(Bytes(part, op[c].version), 1, k))
        BY <1>8, <3>2, FailWrites
      <4>2. PICK k \in 0..Size[part][op[c].version] :
               Put(c, part, SubSeq(Bytes(part, op[c].version), 1, k))
        BY <4>1
      <4> DEFINE bytes == SubSeq(Bytes(part, op[c].version), 1, k)
      <4>3. bytes \in {Bytes(part, op[c].version), SubSeq(Bytes(part, op[c].version), 1, k)}
            /\ Put(c, part, bytes)
        BY <4>2
      <4> HIDE DEF bytes
      <4>4. QED
        BY <4>1, <4>3, WriteKeepsFit
    <3>3. QED
      BY <3>1, <3>2
  <2>5. QED
    BY <2>2, <2>3, <2>4 DEF KInv
<1>9. CASE UNCHANGED vars
  BY <1>9 DEF vars, history, KInv
<1>10. QED
  BY <1>1, <1>2, <1>3, <1>4, <1>6, <1>7, <1>8, <1>9, Begins DEF Next

\* However saves overlap, fail or are killed, no file outgrows the largest
\* version saved, and the store's state keeps its types.
THEOREM StoreTyped == Spec => []TypeOK
<1>1. Init => KInv
  BY StoreAssumption DEF Init, KInv, Expectations, Parts
<1>2. TInv /\ KInv => TypeOK
  <2> SUFFICES ASSUME TInv, KInv PROVE TypeOK
    OBVIOUS
  <2>1. ASSUME NEW n \in Names, NEW part \in Parts, file[n][part] # Absent
        PROVE  \E v \in Versions :
                  file[n][part] \in UNION {[1..k -> Versions] : k \in 0..Size[part][v]}
    <3>1. file[n][part] \in Seq(Versions)
      BY <2>1 DEF TInv, Types, Content
    <3>2. PICK v \in Versions : Len(file[n][part]) <= Size[part][v]
      BY <2>1 DEF KInv, Fits
    <3>3. /\ Len(file[n][part]) \in 0..Size[part][v]
          /\ file[n][part] \in [1..Len(file[n][part]) -> Versions]
      BY <3>1, <3>2, SizeTyped
    <3>4. QED
      BY <3>3
  <2>2. op \in [Clients -> Ops \cup {NoOp}]
    BY DEF TInv, Types, Ops, Saves, Deletes
  <2>3. SaveSteps \subseteq Range(Opening) \cup Range(Writing)
    BY DEF SaveSteps, Range, Opening, Writing
  <2>4. step \in [Clients -> {"idle", "exists", "unlink js", "unlink json"}
                              \cup Range(Opening) \cup Range(Writing)]
    BY <2>3 DEF TInv, Types, DeleteSteps
  <2>5. QED
    BY <2>1, <2>2, <2>4 DEF TInv, Types, KInv, TypeOK, Expectations
<1>3. QED
  BY <1>1, <1>2, Inductive, KInvStep, PTL DEF Spec
=============================================================================
