--------------------------- MODULE NamespaceProofs ---------------------------
(***************************************************************************)
(* The safety of the file tree, for every size of the tables, every        *)
(* archive and every set of paths.                                         *)
(***************************************************************************)
EXTENDS Namespace, Induction

-----------------------------------------------------------------------------
(* Look-ups. *)

(* Where a look-up starts. *)
From(path, pg) == [node |-> IF path.abs THEN Root ELSE vfs_current, pages |-> pg]

(* f gives the values of a look-up, from where it starts to its result. *)
Leads(f, path, pg) ==
  /\ f[0] = From(path, pg)
  /\ \A i \in 1 .. Len(path.parts) : f[i] = Walk(f[i - 1], path.parts[i])
  /\ Lookup(path, pg) = f[Len(path.parts)]

(* A look-up with values in X goes through the parts of its path in order. *)
LEMMA LookupSteps ==
  ASSUME NEW path \in Path, NEW pg, NEW X, From(path, pg) \in X,
         \A s \in X : \A part \in Name : Walk(s, part) \in X
  PROVE  \E f \in [0 .. Len(path.parts) -> X] : Leads(f, path, pg)
<1> DEFINE n == Len(path.parts)
           from == From(path, pg)
           F == [y \in X \X (1 .. n) |-> Walk(y[1], path.parts[y[2]])]
           Body(f) == [i \in 0 .. n |-> IF i = 0 THEN from ELSE Walk(f[i - 1], path.parts[i])]
<1>1. n \in Nat /\ path.parts \in Seq(Name)
  BY DEF Path
<1>2. F \in [X \X (1 .. n) -> X]
  <2>1. ASSUME NEW y \in X \X (1 .. n) PROVE Walk(y[1], path.parts[y[2]]) \in X
    <3>1. y[1] \in X /\ y[2] \in 1 .. n
      OBVIOUS
    <3>2. path.parts[y[2]] \in Name
      BY <1>1, <3>1
    <3>3. QED BY <3>1, <3>2
  <2>2. QED BY <2>1
<1>3. PICK f \in [0 .. n -> X] : Solves(f, n, from, F)
  <2> HIDE DEF F, n, from
  <2>1. from \in X
    BY DEF from
  <2>2. n \in Nat /\ F \in [X \X (1 .. n) -> X]
    BY <1>1, <1>2
  <2> HIDE <1>1, <1>2
  <2>3. QED BY <2>1, <2>2, RecursionExists, Zenon
<1>4. \A i \in 1 .. n : f[i] = Walk(f[i - 1], path.parts[i])
  <2>1. ASSUME NEW i \in 1 .. n PROVE f[i] = Walk(f[i - 1], path.parts[i])
    <3>1. f[i - 1] \in X
      <4>1. i - 1 \in 0 .. n
        BY <1>1
      <4>2. QED BY <4>1
    <3>2. <<f[i - 1], i>> \in X \X (1 .. n)
      BY <3>1
    <3>3. f[i] = F[<<f[i - 1], i>>]
      <4> HIDE DEF F
      <4> QED BY <1>3 DEF Solves
    <3>4. QED BY <3>2, <3>3
  <2>2. QED BY <2>1
<1>5. f = Body(f)
  <2> HIDE DEF from
  <2>1. f[0] = from
    BY <1>3 DEF Solves
  <2>2. QED BY <1>1, <1>4, <2>1
<1> DEFINE walk == CHOOSE h : h = Body(h)
<1>6. walk = Body(walk)
  <2> HIDE DEF Body
  <2> QED BY <1>5
<1>7. Lookup(path, pg) = walk[n]
  BY DEF Lookup, From
<1>8. \A i \in 0 .. n : walk[i] = f[i]
  <2> DEFINE S == {i \in 0 .. n : walk[i] = f[i]}
  <2>1. \A i \in 0 .. n : walk[i] = IF i = 0 THEN from ELSE Walk(walk[i - 1], path.parts[i])
    <3> HIDE DEF walk, from
    <3> QED BY <1>6
  <2> HIDE DEF walk, from
  <2>2. 0 \in S
    <3>1. f[0] = from
      BY <1>3 DEF Solves
    <3>2. QED BY <1>1, <2>1, <3>1
  <2>3. \A i \in 1 .. n : (i - 1) \in S => i \in S
    BY <1>1, <1>4, <2>1
  <2>4. \A i \in 0 .. n : i \in S
    <3> HIDE DEF S, n
    <3> QED BY <1>1, <2>2, <2>3, SetInduction
  <2>5. QED BY <2>4
<1>9. QED
  <2> HIDE DEF walk, F
  <2>1. f[0] = from
    BY <1>3 DEF Solves
  <2>2. Lookup(path, pg) = f[Len(path.parts)]
    BY <1>1, <1>7, <1>8
  <2>3. Leads(f, path, pg)
    BY <1>4, <2>1, <2>2 DEF Leads
  <2>4. QED BY <2>3

-----------------------------------------------------------------------------
(* The nodes a look-up gives. *)

(* Each inode of node n is, among the records R, in the one before it, and *)
(* has a name a look-up can ask for.                                       *)
TrueNode(R, n) ==
  /\ n \in Seq(Nat)
  /\ \A i \in DOMAIN n : \E r \in R :
       /\ r.num = n[i] /\ r.parent = InodeOf(SubSeq(n, 1, i - 1))
       /\ r.name \notin {Dot, DotDot}

(* What a look-up with pg pages may give. *)
Reached(pg) ==
  {s \in [node : Seq(Nat) \union {NoNode}, pages : 0 .. pg] :
     s.node # NoNode => TrueNode(Records, s.node)}

(* The nodes that are held between two steps are true. *)
HeldTrue ==
  /\ TrueNode(Records, vfs_current)
  /\ \A d \in Fds : fd_table[d] # NoNode => TrueNode(Records, fd_table[d])

LEMMA RecordsType ==
  ASSUME TypeOK
  PROVE  /\ Records \subseteq InodeType
         /\ \A r \in Records : \E g \in AGs : \E j \in DOMAIN inodes[g] : r = inodes[g][j]
         /\ \A g \in AGs : \A j \in DOMAIN inodes[g] : inodes[g][j] \in Records
<1>1. \A g \in AGs : inodes[g] \in Seq(InodeType)
  BY DEF TypeOK
<1>2. \A g \in AGs : Range(inodes[g]) = {inodes[g][j] : j \in DOMAIN inodes[g]}
  BY DEF Range
<1>3. \A g \in AGs : \A j \in DOMAIN inodes[g] : inodes[g][j] \in InodeType
  BY <1>1
<1> HIDE DEF InodeType, AGs
<1>4. \A r \in Records : \E g \in AGs : \E j \in DOMAIN inodes[g] : r = inodes[g][j]
  BY <1>2 DEF Records
<1>5. \A g \in AGs : \A j \in DOMAIN inodes[g] : inodes[g][j] \in Records
  <2>1. ASSUME NEW g \in AGs, NEW j \in DOMAIN inodes[g] PROVE inodes[g][j] \in Records
    <3>1. inodes[g][j] \in Range(inodes[g])
      BY <1>2
    <3>2. QED BY <3>1 DEF Records
  <2>2. QED BY <2>1
<1>6. QED
  BY <1>3, <1>4, <1>5

(* The same of the records after a step. *)
RecordsAreSlots ==
  /\ \A r \in Records : \E g \in AGs : \E j \in DOMAIN inodes[g] : r = inodes[g][j]
  /\ \A g \in AGs : \A j \in DOMAIN inodes[g] : inodes[g][j] \in Records

LEMMA RecordsLater == TypeOK' => RecordsAreSlots'
<1>1. TypeOK => RecordsAreSlots
  BY RecordsType DEF RecordsAreSlots
<1>2. QED
  BY <1>1, PTL

LEMMA GroupsAreNumbers == AGs \subseteq Nat
<1>1. AgCount \in Nat
  BY NamespaceAssumption, Zenon
<1>2. QED
  BY <1>1 DEF AGs

LEMMA NodeInode ==
  ASSUME NEW n \in Seq(Nat)
  PROVE  InodeOf(n) \in Nat
BY DEF InodeOf, Root, Last

LEMMA RootIsTrue == \A R : TrueNode(R, Root) /\ Root # NoNode
<1>1. Root \in Seq(Nat) /\ DOMAIN Root = {}
  BY DEF Root
<1>2. QED
  BY <1>1, NamespaceAssumption DEF TrueNode

LEMMA ParentIsTrue ==
  ASSUME NEW R, NEW n, TrueNode(R, n), n # Root
  PROVE  TrueNode(R, Front(n))
<1>1. n \in Seq(Nat) /\ Len(n) \in Nat \ {0}
  BY DEF TrueNode, Root
<1>2. Front(n) \in Seq(Nat) /\ DOMAIN Front(n) = 1 .. Len(n) - 1
  BY <1>1 DEF Front
<1>3. ASSUME NEW i \in 1 .. Len(n) - 1
      PROVE  Front(n)[i] = n[i] /\ SubSeq(Front(n), 1, i - 1) = SubSeq(n, 1, i - 1)
  BY <1>1 DEF Front
<1>4. DOMAIN n = 1 .. Len(n)
  BY <1>1
<1>5. ASSUME NEW i \in DOMAIN Front(n)
      PROVE  \E r \in R : /\ r.num = Front(n)[i]
                          /\ r.parent = InodeOf(SubSeq(Front(n), 1, i - 1))
                          /\ r.name \notin {Dot, DotDot}
  <2>1. i \in 1 .. Len(n) - 1 /\ i \in DOMAIN n
    BY <1>1, <1>2, <1>4
  <2>2. PICK r \in R : /\ r.num = n[i] /\ r.parent = InodeOf(SubSeq(n, 1, i - 1))
                       /\ r.name \notin {Dot, DotDot}
    BY <2>1 DEF TrueNode
  <2>3. QED BY <1>3, <2>1, <2>2
<1>6. QED
  BY <1>2, <1>5 DEF TrueNode

LEMMA ChildIsTrue ==
  ASSUME NEW R, NEW n, TrueNode(R, n), NEW r \in R,
         r.num \in Nat, r.parent = InodeOf(n), r.name \notin {Dot, DotDot}
  PROVE  TrueNode(R, Append(n, r.num))
<1> DEFINE m == Append(n, r.num)
<1>1. n \in Seq(Nat) /\ DOMAIN n = 1 .. Len(n) /\ Len(n) \in Nat
  BY DEF TrueNode
<1>2. m \in Seq(Nat) /\ DOMAIN m = 1 .. Len(n) + 1
  BY <1>1
<1>3. ASSUME NEW i \in 1 .. Len(n)
      PROVE  m[i] = n[i] /\ SubSeq(m, 1, i - 1) = SubSeq(n, 1, i - 1)
  BY <1>1
<1>4. m[Len(n) + 1] = r.num /\ SubSeq(m, 1, Len(n)) = n
  BY <1>1
<1>5. QED
  <2> HIDE DEF m
  <2>1. ASSUME NEW i \in 1 .. Len(n) + 1
        PROVE  \E q \in R : /\ q.num = m[i] /\ q.parent = InodeOf(SubSeq(m, 1, i - 1))
                            /\ q.name \notin {Dot, DotDot}
    <3>1. CASE i \in 1 .. Len(n)
      <4>1. PICK q \in R : /\ q.num = n[i] /\ q.parent = InodeOf(SubSeq(n, 1, i - 1))
                           /\ q.name \notin {Dot, DotDot}
        BY <1>1, <3>1 DEF TrueNode
      <4>2. QED BY <1>3, <3>1, <4>1
    <3>2. CASE i = Len(n) + 1
      <4>1. i - 1 = Len(n)
        BY <1>1, <3>2
      <4>2. QED BY <1>4, <3>2, <4>1
    <3>3. QED BY <1>1, <3>1, <3>2
  <2>2. QED BY <1>2, <2>1 DEF TrueNode, m

(* The record that finddir takes bears the name, in the directory. *)
LEMMA FirstEntryIsEntry ==
  ASSUME TypeOK, NEW dir, NEW name, Entries(dir, name) # {}
  PROVE  FirstEntry(Entries(dir, name)) \in Entries(dir, name)
<1> DEFINE S == Entries(dir, name)
           G == {e[1] : e \in S}
<1>1. \A e \in S : e = <<e[1], e[2]>> /\ e[1] \in Nat /\ e[2] \in Nat
  <2>1. ASSUME NEW e \in S PROVE e = <<e[1], e[2]>> /\ e[1] \in Nat /\ e[2] \in Nat
    <3>1. PICK g \in AGs : e \in {<<g, j>> : j \in DOMAIN inodes[g]}
      BY DEF Entries
    <3>2. PICK j \in DOMAIN inodes[g] : e = <<g, j>>
      BY <3>1
    <3>3. g \in Nat /\ j \in Nat
      <4>1. inodes[g] \in Seq(InodeType)
        BY DEF TypeOK
      <4>2. j \in Nat
        BY <4>1
      <4>3. g \in Nat
        BY GroupsAreNumbers
      <4>4. QED BY <4>2, <4>3
    <3>4. QED BY <3>2, <3>3
  <2>2. QED BY <2>1
<1>2. S # {}
  OBVIOUS
<1> HIDE DEF S
<1>3. G \subseteq Nat /\ G # {}
  BY <1>1, <1>2
<1>4. PICK g \in G : \A h \in G : g <= h
  <2> HIDE DEF G
  <2> QED BY <1>3, LeastElement
<1> DEFINE J == {j \in Nat : <<g, j>> \in S}
<1>5. J \subseteq Nat /\ J # {}
  <2>1. PICK e \in S : e[1] = g
    BY <1>4
  <2>2. e[2] \in J
    BY <1>1, <2>1
  <2>3. QED BY <2>2
<1>6. PICK j \in J : \A k \in J : j <= k
  <2> HIDE DEF J
  <2> QED BY <1>5, LeastElement
<1>7. <<g, j>> \in S
  BY <1>6
<1>8. ASSUME NEW f \in S PROVE g < f[1] \/ (g = f[1] /\ j <= f[2])
  <2>1. g <= f[1] /\ g \in Nat /\ f[1] \in Nat
    BY <1>1, <1>3, <1>4
  <2>2. ASSUME g = f[1] PROVE j <= f[2]
    <3>1. f[2] \in J
      BY <1>1, <2>2
    <3>2. QED BY <1>6, <3>1
  <2>3. QED BY <2>1, <2>2
<1>9. \A f \in S : <<g, j>>[1] < f[1] \/ (<<g, j>>[1] = f[1] /\ <<g, j>>[2] <= f[2])
  BY <1>8
<1>10. FirstEntry(S) \in S
  BY <1>7, <1>9 DEF FirstEntry
<1>11. QED
  BY <1>10 DEF S

LEMMA EntryIsRecord ==
  ASSUME TypeOK, NEW dir, NEW name, NEW e \in Entries(dir, name)
  PROVE  /\ e[1] \in AGs /\ e[2] \in DOMAIN inodes[e[1]] /\ e = <<e[1], e[2]>>
         /\ inodes[e[1]][e[2]] \in Records
         /\ inodes[e[1]][e[2]].parent = dir
         /\ inodes[e[1]][e[2]].name = name
<1>1. PICK g \in AGs : e \in {<<g, j>> : j \in DOMAIN inodes[g]}
  BY DEF Entries
<1>2. PICK j \in DOMAIN inodes[g] : e = <<g, j>>
  BY <1>1
<1>3. e[1] = g /\ e[2] = j
  BY <1>2
<1>4. inodes[e[1]][e[2]].parent = dir /\ inodes[e[1]][e[2]].name = name
  BY DEF Entries
<1>5. QED
  BY <1>2, <1>3, <1>4, RecordsType

LEMMA WalkIsTrue ==
  ASSUME TypeOK, NEW pg \in Nat, NEW s \in Reached(pg), NEW part \in Name
  PROVE  Walk(s, part) \in Reached(pg)
<1>1. /\ s \in [node : Seq(Nat) \union {NoNode}, pages : 0 .. pg]
      /\ s.node # NoNode => TrueNode(Records, s.node)
  BY DEF Reached
<1>2. CASE s.node = NoNode \/ part = Dot
  BY <1>2 DEF Walk
<1>3. CASE s.node # NoNode /\ part = DotDot
  <2>1. Dot # DotDot
    BY DEF Dot, DotDot
  <2>2. Walk(s, part) = [s EXCEPT !.node = IF @ = Root THEN Root ELSE Front(@)]
    BY <1>3, <2>1 DEF Walk
  <2> DEFINE m == IF s.node = Root THEN Root ELSE Front(s.node)
  <2>3. TrueNode(Records, m)
    BY <1>1, <1>3, RootIsTrue, ParentIsTrue
  <2>4. m \in Seq(Nat)
    BY <2>3 DEF TrueNode
  <2>5. Walk(s, part) = [s EXCEPT !.node = m]
    BY <2>2
  <2> HIDE DEF m
  <2>6. QED
    BY <1>1, <2>3, <2>4, <2>5 DEF Reached
<1>4. CASE s.node # NoNode /\ part # Dot /\ part # DotDot
  <2> DEFINE S == Entries(InodeOf(s.node), part)
             e == FirstEntry(S)
             r == inodes[e[1]][e[2]]
             m == Append(s.node, r.num)
  <2>1. Walk(s, part) = Finddir(s, part)
    BY <1>4 DEF Walk
  <2>2. CASE S = {} \/ s.pages = 0
    <3>1. Walk(s, part) = [s EXCEPT !.node = NoNode]
      BY <2>1, <2>2 DEF Finddir
    <3>2. QED BY <1>1, <3>1 DEF Reached
  <2>3. CASE S # {} /\ s.pages # 0
    <3>1. Walk(s, part) = [node |-> m, pages |-> s.pages - 1]
      BY <2>1, <2>3 DEF Finddir
    <3>2. r \in Records /\ r.parent = InodeOf(s.node) /\ r.name = part
      <4>1. e \in S
        BY <2>3, FirstEntryIsEntry
      <4>2. QED BY <4>1, EntryIsRecord
    <3> HIDE DEF r
    <3>3. r.num \in Nat
      BY <3>2, RecordsType DEF InodeType
    <3>4. TrueNode(Records, m)
      BY <1>1, <1>4, <3>2, <3>3, ChildIsTrue
    <3> HIDE DEF m
    <3>5. m \in Seq(Nat)
      BY <3>4 DEF TrueNode
    <3>6. QED
      BY <1>1, <2>3, <3>1, <3>4, <3>5 DEF Reached
  <2>4. QED BY <2>2, <2>3
<1>5. QED
  BY <1>2, <1>3, <1>4

LEMMA FromIsTrue ==
  ASSUME HeldTrue, NEW pg \in Nat, NEW path \in Path
  PROVE  From(path, pg) \in Reached(pg)
<1>1. TrueNode(Records, IF path.abs THEN Root ELSE vfs_current)
  BY RootIsTrue DEF HeldTrue
<1>2. QED
  BY <1>1 DEF From, Reached, TrueNode

LEMMA LookupIsTrue ==
  ASSUME TypeOK, HeldTrue, NEW pg \in Nat, NEW path \in Path
  PROVE  Lookup(path, pg) \in Reached(pg)
<1>1. From(path, pg) \in Reached(pg)
  BY FromIsTrue
<1>2. \A s \in Reached(pg) : \A part \in Name : Walk(s, part) \in Reached(pg)
  BY WalkIsTrue
<1>3. PICK f \in [0 .. Len(path.parts) -> Reached(pg)] : Leads(f, path, pg)
  BY <1>1, <1>2, LookupSteps, Zenon
<1>4. Len(path.parts) \in 0 .. Len(path.parts)
  BY DEF Path
<1>5. QED
  BY <1>3, <1>4 DEF Leads

LEMMA SingleIsName ==
  ASSUME NEW word \in Words
  PROVE  <<word>> \in Name
BY DEF Name

LEMMA ParentForIsTrue ==
  ASSUME TypeOK, HeldTrue, NEW pg \in Nat, NEW path \in Path
  PROVE  ParentFor(path, pg) \in Reached(pg) /\ NameIn(path) \in Name
<1>1. path.abs \in BOOLEAN /\ path.parts \in Seq(Name) /\ path = [abs |-> path.abs, parts |-> path.parts]
  BY DEF Path
<1>2. NameIn(path) \in Name
  <2>1. <<"">> \in Name
    BY NamespaceAssumption, SingleIsName, Zenon
  <2> HIDE DEF Name
  <2>2. path.parts # <<>> => Last(path.parts) \in Name
    BY <1>1 DEF Last
  <2>3. QED BY <2>1, <2>2 DEF NameIn
<1>3. CASE Len(path.parts) <= 1
  <2>1. ParentFor(path, pg) = From(path, pg)
    BY <1>3 DEF ParentFor, From
  <2>2. ParentFor(path, pg) \in Reached(pg)
    BY <2>1, FromIsTrue
  <2>3. QED BY <1>2, <2>2
<1>4. CASE ~(Len(path.parts) <= 1)
  <2> HIDE DEF Name
  <2>1. Front(path.parts) \in Seq(Name)
    BY <1>1, <1>4 DEF Front
  <2>2. [path EXCEPT !.parts = Front(@)] \in Path
    BY <1>1, <2>1 DEF Path
  <2>3. ParentFor(path, pg) = Lookup([path EXCEPT !.parts = Front(@)], pg)
    BY <1>4 DEF ParentFor
  <2>4. QED BY <1>2, <2>2, <2>3, LookupIsTrue
<1>5. QED
  BY <1>3, <1>4

-----------------------------------------------------------------------------
(* What a step may do to the tables. *)

(* xfs_create_file makes a file: record r, with the next free block b, in  *)
(* group g, below the root or a directory entry that exists.               *)
Created(g, b, r) ==
  /\ inode_count[g] < MaxFilesAg /\ free_blocks[g] # 0
  /\ b \notin block_bitmap[g]
  /\ r.num = counter /\ r.block = b /\ r.data = 0
  /\ r.parent = 0 \/ \E q \in Records : q.num = r.parent
  /\ inodes' = [inodes EXCEPT ![g] = Append(@, r)]
  /\ inode_count' = [inode_count EXCEPT ![g] = @ + 1]
  /\ block_bitmap' = [block_bitmap EXCEPT ![g] = @ \union {b}]
  /\ free_blocks' = [free_blocks EXCEPT ![g] = @ - 1]
  /\ counter' = counter + 1

(* xfs_bind_file_buffer gives inode num the data of entry k. *)
Bound(num, k) ==
  /\ inodes' = [g \in AGs |-> [j \in DOMAIN inodes[g] |->
                  IF inodes[g][j].num = num THEN [inodes[g][j] EXCEPT !.data = k]
                                            ELSE inodes[g][j]]]
  /\ UNCHANGED <<inode_count, block_bitmap, free_blocks, counter>>

(* It is the entry the boot thread is at, and the inode its path leads to. *)
BindsEntry(num, k) ==
  /\ boot.stage = "tar" /\ k = boot.at /\ k \in DOMAIN Archive
  /\ Lookup(Abs(Parts), pages).node # NoNode
  /\ num = InodeOf(Lookup(Abs(Parts), pages).node)
  /\ Bound(num, k)

TableStep ==
  \/ UNCHANGED tables
  \/ \E g \in AGs, b \in Blocks, r \in InodeType : Created(g, b, r)
  \/ \E num \in Nat, k \in Nat : BindsEntry(num, k)

LEMMA TrueNodeInode ==
  ASSUME NEW n, TrueNode(Records, n)
  PROVE  /\ InodeOf(n) \in Nat
         /\ n = Root \/ \E q \in Records : q.num = InodeOf(n)
         /\ InodeOf(n) = 0 \/ \E q \in Records : q.num = InodeOf(n)
<1>1. n \in Seq(Nat)
  BY DEF TrueNode
<1>2. InodeOf(n) \in Nat
  BY <1>1, NodeInode
<1>3. CASE n = Root
  BY <1>2, <1>3 DEF InodeOf
<1>4. CASE n # Root
  <2>1. Len(n) \in DOMAIN n /\ InodeOf(n) = n[Len(n)]
    BY <1>1, <1>4 DEF InodeOf, Last, Root
  <2>2. QED BY <1>2, <2>1 DEF TrueNode
<1>5. QED
  BY <1>3, <1>4

LEMMA CreateFileStep ==
  ASSUME TypeOK, BlocksAccounted, NEW name \in Name, NEW type \in {"DIR", "FILE"},
         NEW n, TrueNode(Records, n), XfsCreateFile(name, type, InodeOf(n))
  PROVE  \/ UNCHANGED tables /\ \E g \in AGs : Picked(g) /\ Refuses(g, name)
         \/ \E g \in AGs, b \in Blocks : Created(g, b, Inode(name, type, InodeOf(n), b))
<1>1. PICK g \in AGs :
       /\ Picked(g)
       /\ IF Refuses(g, name)
         THEN UNCHANGED tables
         ELSE \E b \in Blocks :
                /\ AllocBlock(g, b)
                /\ IF Len(inodes[g]) < MaxFilesAg
                     THEN /\ inodes' = [inodes EXCEPT ![g] = Append(@, Inode(name, type, InodeOf(n), b))]
                          /\ inode_count' = [inode_count EXCEPT ![g] = @ + 1]
                          /\ counter' = counter + 1
                     ELSE UNCHANGED <<inodes, inode_count, counter>>
  BY DEF XfsCreateFile
<1>2. SUFFICES ASSUME ~Refuses(g, name)
               PROVE  \E b \in Blocks : Created(g, b, Inode(name, type, InodeOf(n), b))
  BY <1>1
<1>3. ~(inode_count[g] >= MaxFilesAg) /\ free_blocks[g] # 0
  BY <1>2 DEF Refuses
<1>4. inode_count[g] < MaxFilesAg /\ inode_count[g] = Len(inodes[g])
  <2>1. inode_count[g] \in Nat /\ MaxFilesAg \in Nat
    <3>1. MaxFilesAg \in Nat
      BY NamespaceAssumption, Zenon
    <3>2. QED BY <3>1 DEF TypeOK
  <2>2. QED BY <1>3, <2>1 DEF BlocksAccounted
<1>5. PICK b \in Blocks :
        /\ AllocBlock(g, b)
        /\ inodes' = [inodes EXCEPT ![g] = Append(@, Inode(name, type, InodeOf(n), b))]
        /\ inode_count' = [inode_count EXCEPT ![g] = @ + 1]
        /\ counter' = counter + 1
  BY <1>1, <1>2, <1>4
<1> DEFINE r == Inode(name, type, InodeOf(n), b)
<1>6. /\ r.num = counter /\ r.block = b /\ r.data = 0 /\ r.parent = InodeOf(n)
  BY DEF Inode
<1>7. InodeOf(n) = 0 \/ \E q \in Records : q.num = InodeOf(n)
  BY TrueNodeInode
<1> HIDE DEF r
<1>8. /\ b \notin block_bitmap[g]
      /\ block_bitmap' = [block_bitmap EXCEPT ![g] = @ \union {b}]
      /\ free_blocks' = [free_blocks EXCEPT ![g] = @ - 1]
  BY <1>5 DEF AllocBlock
<1>9. inodes' = [inodes EXCEPT ![g] = Append(@, r)]
  BY <1>5 DEF r
<1>10. Created(g, b, r)
  BY <1>3, <1>4, <1>5, <1>6, <1>7, <1>8, <1>9 DEF Created
<1>11. QED
  BY <1>10 DEF r

LEMMA InodeIsTyped ==
  ASSUME TypeOK, NEW name \in Name, NEW type \in {"DIR", "FILE"}, NEW dir \in Nat,
         NEW b \in Blocks
  PROVE  Inode(name, type, dir, b) \in InodeType
<1>1. Clean(name) \in Name
  <2>1. name \in Seq(Words) /\ name # <<>>
    BY DEF Name
  <2>2. Head(name) \in Words
    BY <2>1
  <2>3. QED BY <2>2, SingleIsName DEF Clean
<1>2. counter \in Nat
  BY DEF TypeOK
<1>3. QED
  BY <1>1, <1>2 DEF Inode, InodeType

LEMMA CreateFileTables ==
  ASSUME TypeOK, BlocksAccounted, NEW name \in Name, NEW type \in {"DIR", "FILE"},
         NEW n, TrueNode(Records, n), XfsCreateFile(name, type, InodeOf(n))
  PROVE  TableStep
<1>1. CASE UNCHANGED tables
  BY <1>1 DEF TableStep
<1>2. ASSUME NEW g \in AGs, NEW b \in Blocks, Created(g, b, Inode(name, type, InodeOf(n), b))
      PROVE  TableStep
  <2>1. Inode(name, type, InodeOf(n), b) \in InodeType
    BY InodeIsTyped, TrueNodeInode
  <2>2. QED BY <1>2, <2>1 DEF TableStep
<1>3. QED
  BY <1>1, <1>2, CreateFileStep

(* What vfs_mkdir, vfs_create and the round of ensure_directory_exists do. *)
FileStep == TableStep /\ pages' \in 0 .. pages

LEMMA ReachedPages ==
  ASSUME NEW pg \in Nat, NEW s \in Reached(pg), pg <= pages, pages \in Nat
  PROVE  s.pages \in Nat /\ s.pages \in 0 .. pages /\ (s.node # NoNode => TrueNode(Records, s.node))
BY DEF Reached

LEMMA PagesNow ==
  ASSUME TypeOK
  PROVE  pages \in Nat /\ Pages \in Nat /\ pages <= Pages
<1>1. Pages \in Nat
  BY NamespaceAssumption, Zenon
<1>2. QED
  BY <1>1 DEF TypeOK

LEMMA CreateFilePart ==
  ASSUME TypeOK, BlocksAccounted, HeldTrue, NEW path \in Path, NEW pg \in 0 .. pages,
         NEW type \in {"DIR", "FILE"}, pages' = ParentFor(path, pg).pages,
         \/ UNCHANGED tables
         \/ /\ ParentFor(path, pg).node # NoNode
            /\ XfsCreateFile(NameIn(path), type, InodeOf(ParentFor(path, pg).node))
  PROVE  FileStep
<1>1. pg \in Nat /\ pg <= pages /\ pages \in Nat
  BY PagesNow
<1>2. ParentFor(path, pg) \in Reached(pg) /\ NameIn(path) \in Name
  BY <1>1, ParentForIsTrue
<1>3. pages' \in 0 .. pages
  BY <1>1, <1>2, ReachedPages
<1>4. CASE UNCHANGED tables
  BY <1>3, <1>4 DEF FileStep, TableStep
<1>5. CASE /\ ParentFor(path, pg).node # NoNode
           /\ XfsCreateFile(NameIn(path), type, InodeOf(ParentFor(path, pg).node))
  <2>1. TrueNode(Records, ParentFor(path, pg).node)
    BY <1>1, <1>2, <1>5, ReachedPages
  <2>2. TableStep
    BY <1>2, <1>5, <2>1, CreateFileTables
  <2>3. QED BY <1>3, <2>2 DEF FileStep
<1>6. QED
  BY <1>4, <1>5

LEMMA LookupPages ==
  ASSUME TypeOK, HeldTrue, NEW path \in Path, NEW pg \in 0 .. pages
  PROVE  /\ Lookup(path, pg).pages \in 0 .. pages
         /\ Lookup(path, pg).node # NoNode => TrueNode(Records, Lookup(path, pg).node)
<1>1. pg \in Nat /\ pg <= pages /\ pages \in Nat
  BY PagesNow
<1>2. Lookup(path, pg) \in Reached(pg)
  BY <1>1, LookupIsTrue
<1>3. QED
  BY <1>1, <1>2, ReachedPages

LEMMA MkdirStep ==
  ASSUME TypeOK, BlocksAccounted, HeldTrue, NEW path \in Path, VfsMkdir(path)
  PROVE  FileStep
<1> DEFINE there == Lookup(path, pages)
<1>1. pages \in 0 .. pages
  BY PagesNow
<1>2. there.pages \in 0 .. pages
  BY <1>1, LookupPages
<1>3. CASE there.node # NoNode
  <2>1. pages' = there.pages /\ UNCHANGED tables
    BY <1>3 DEF VfsMkdir
  <2>2. QED BY <1>2, <2>1 DEF FileStep, TableStep
<1>4. CASE there.node = NoNode
  <2> DEFINE parent == ParentFor(path, there.pages)
  <2>1. /\ pages' = parent.pages
        /\ IF parent.node = NoNode THEN UNCHANGED tables
             ELSE XfsCreateFile(NameIn(path), "DIR", InodeOf(parent.node))
    BY <1>4 DEF VfsMkdir
  <2> HIDE DEF there
  <2>2. QED BY <1>2, <2>1, CreateFilePart
<1>5. QED
  BY <1>3, <1>4

LEMMA CreateStep ==
  ASSUME TypeOK, BlocksAccounted, HeldTrue, NEW path \in Path, NEW pg \in 0 .. pages,
         VfsCreate(path, pg)
  PROVE  FileStep
<1> DEFINE parent == ParentFor(path, pg)
<1>1. /\ pages' = parent.pages
      /\ IF parent.node = NoNode \/ TypeOfNode(parent.node) # "DIR" THEN UNCHANGED tables
           ELSE XfsCreateFile(NameIn(path), "FILE", InodeOf(parent.node))
  BY DEF VfsCreate
<1>2. QED
  BY <1>1, CreateFilePart

LEMMA MakeIfAbsentStep ==
  ASSUME TypeOK, BlocksAccounted, HeldTrue, NEW path \in Path, MakeIfAbsent(path)
  PROVE  FileStep
<1> DEFINE there == Lookup(path, pages)
           again == Lookup(path, there.pages)
           parent == ParentFor(path, again.pages)
<1>1. pages \in 0 .. pages
  BY PagesNow
<1>2. there.pages \in 0 .. pages
  BY <1>1, LookupPages
<1>3. again.pages \in 0 .. pages
  <2> HIDE DEF there
  <2> QED BY <1>2, LookupPages
<1>4. \/ pages' = there.pages /\ UNCHANGED tables
      \/ pages' = again.pages /\ UNCHANGED tables
      \/ /\ pages' = parent.pages
         /\ IF parent.node = NoNode THEN UNCHANGED tables
              ELSE XfsCreateFile(NameIn(path), "DIR", InodeOf(parent.node))
  BY DEF MakeIfAbsent
<1> HIDE DEF again, there
<1>5. CASE pages' \in {there.pages, again.pages} /\ UNCHANGED tables
  BY <1>2, <1>3, <1>5 DEF FileStep, TableStep
<1>6. CASE /\ pages' = parent.pages
           /\ IF parent.node = NoNode THEN UNCHANGED tables
                ELSE XfsCreateFile(NameIn(path), "DIR", InodeOf(parent.node))
  BY <1>3, <1>6, CreateFilePart
<1>7. QED
  BY <1>4, <1>5, <1>6

-----------------------------------------------------------------------------
(* The inductive invariant. *)

(* An inode number is below the counter, and is given once; parents older. *)
Numbered ==
  /\ counter >= FirstInode
  /\ \A r \in Records : r.num \in FirstInode .. counter - 1
  /\ Hierarchy

(* The current directory is a directory. *)
CurrentIsDir ==
  vfs_current = Root \/ \E r \in Records : r.num = InodeOf(vfs_current) /\ r.type = "DIR"

(* The boot thread counts entries and parts from one. *)
BootCounts == boot.at >= 1 /\ boot.part >= 1

TreeInv ==
  TypeOK /\ BlocksAccounted /\ Numbered /\ HeldTrue /\ CurrentIsDir /\ BootCounts

LEMMA NumbersAreUnique ==
  ASSUME TypeOK, Numbered
  PROVE  \A q, r \in Records : q.num = r.num => q = r
<1>1. ASSUME NEW q \in Records, NEW r \in Records, q.num = r.num PROVE q = r
  <2>1. PICK g \in AGs : \E j \in DOMAIN inodes[g] : q = inodes[g][j]
    BY RecordsType
  <2>2. PICK j \in DOMAIN inodes[g] : q = inodes[g][j]
    BY <2>1
  <2>3. PICK h \in AGs : \E k \in DOMAIN inodes[h] : r = inodes[h][k]
    BY RecordsType
  <2>4. PICK k \in DOMAIN inodes[h] : r = inodes[h][k]
    BY <2>3
  <2>5. g = h /\ j = k
    BY <1>1, <2>2, <2>4 DEF Numbered, Hierarchy
  <2>6. QED BY <2>2, <2>4, <2>5
<1>2. QED
  BY <1>1

LEMMA RecordsFinite ==
  ASSUME TypeOK, Numbered
  PROVE  IsFiniteSet(Records)
<1> DEFINE f == [r \in Records |-> r.num]
           T == FirstInode .. counter - 1
<1>1. f \in Injection(Records, T)
  <2>1. f \in [Records -> T]
    BY DEF Numbered
  <2>2. \A q, r \in Records : f[q] = f[r] => q = r
    BY NumbersAreUnique
  <2>3. QED
    <3> HIDE DEF f, T
    <3> QED BY <2>1, <2>2 DEF Injection, IsInjective
<1>2. IsFiniteSet(T)
  <2>1. FirstInode \in Int /\ counter - 1 \in Int
    BY DEF FirstInode, TypeOK
  <2>2. QED BY <2>1, FS_Interval
<1>3. QED
  <2> HIDE DEF f, T
  <2> QED BY <1>1, <1>2, FS_Injection

LEMMA TreeCount ==
  ASSUME TypeOK, Numbered, NEW dir
  PROVE  Cardinality({r \in TreeBelow(dir) : r.type = "DIR"}) \in Nat
<1>1. \A i : Listed(i) \subseteq Records
  BY DEF Listed
<1> DEFINE S == {r \in TreeBelow(dir) : r.type = "DIR"}
<1>2. \E J : TreeBelow(dir) = Listed(dir) \union UNION {Listed(i) : i \in J}
  BY DEF TreeBelow
<1>3. S \in SUBSET Records
  <2>1. TreeBelow(dir) \subseteq Records
    BY <1>1, <1>2
  <2>2. QED BY <2>1
<1>4. IsFiniteSet(S)
  <2> HIDE DEF S
  <2> QED BY <1>3, RecordsFinite, FS_Subset
<1>5. QED
  <2> HIDE DEF S
  <2>1. Cardinality(S) \in Nat
    BY <1>4, FS_CardinalityType
  <2>2. QED BY <2>1 DEF S

-----------------------------------------------------------------------------
(* What a step may do. *)

(* A directory to which the current directory may go. *)
NewCurrent(n) ==
  /\ TrueNode(Records, n)
  /\ n = Root \/ \E r \in Records : r.num = InodeOf(n) /\ r.type = "DIR"

HeldStep ==
  /\ vfs_current' = vfs_current \/ NewCurrent(vfs_current')
  /\ DOMAIN fd_table' = Fds
  /\ \A d \in Fds : fd_table'[d] = fd_table[d] \/ TrueNode(Records, fd_table'[d])

(* The rest of the state keeps its type. *)
RestStep ==
  /\ ops' \in {"root_ops", "xfs_ops"}
  /\ list' \in Seq(Name) /\ current_path' \in Seq(Name)
  /\ boot' \in [stage : {"tree", "tar", "fb", "modules", "idle"}, at : Nat, part : Nat]
  /\ BootCounts'

StepShape == FileStep /\ HeldStep /\ RestStep

LEMMA BootMoves ==
  ASSUME TypeOK, BootCounts,
         \/ UNCHANGED boot \/ NextEntry \/ NextPart
         \/ \E stage \in {"tree", "tar", "fb", "modules", "idle"} : Enter(stage)
  PROVE  /\ boot' \in [stage : {"tree", "tar", "fb", "modules", "idle"}, at : Nat, part : Nat]
         /\ BootCounts'
<1>1. boot \in [stage : {"tree", "tar", "fb", "modules", "idle"}, at : Nat, part : Nat]
  BY DEF TypeOK
<1> DEFINE Stages == {"tree", "tar", "fb", "modules", "idle"}
           B == [stage : Stages, at : Nat, part : Nat]
<1>2. ASSUME UNCHANGED boot PROVE boot' \in B /\ BootCounts'
  BY <1>1, <1>2 DEF BootCounts
<1>3. ASSUME NextEntry PROVE boot' \in B /\ BootCounts'
  <2> HIDE DEF Stages
  <2>1. boot' = [boot EXCEPT !.at = boot.at + 1, !.part = 1] /\ boot \in B
    BY <1>1, <1>3 DEF NextEntry, Stages
  <2>2. boot.at + 1 \in Nat /\ boot.at + 1 >= 1
    BY <2>1
  <2>3. boot' \in B
    BY <2>1, <2>2
  <2>4. boot'.at = boot.at + 1 /\ boot'.part = 1
    BY <2>1
  <2>5. QED BY <2>2, <2>3, <2>4 DEF BootCounts
<1>4. ASSUME NextPart PROVE boot' \in B /\ BootCounts'
  <2> HIDE DEF Stages
  <2>1. boot' = [boot EXCEPT !.part = boot.part + 1] /\ boot \in B
    BY <1>1, <1>4 DEF NextPart, Stages
  <2>2. boot.part + 1 \in Nat /\ boot.part + 1 >= 1
    BY <2>1
  <2>3. boot' \in B
    BY <2>1, <2>2
  <2>4. boot'.at = boot.at /\ boot'.part = boot.part + 1
    BY <2>1
  <2>5. QED BY <2>2, <2>3, <2>4 DEF BootCounts
<1>5. ASSUME NEW stage \in Stages, Enter(stage) PROVE boot' \in B /\ BootCounts'
  <2> HIDE DEF Stages
  <2> QED BY <1>5 DEF BootCounts, Enter
<1>6. QED
  BY <1>2, <1>3, <1>4, <1>5

LEMMA HeldStays ==
  ASSUME TypeOK, UNCHANGED <<vfs_current, fd_table>>
  PROVE  HeldStep
BY DEF HeldStep, TypeOK

LEMMA RestStays ==
  ASSUME TypeOK, BootCounts, UNCHANGED <<ops, list, current_path>>,
         \/ UNCHANGED boot \/ NextEntry \/ NextPart
         \/ \E stage \in {"tree", "tar", "fb", "modules", "idle"} : Enter(stage)
  PROVE  RestStep
<1>1. /\ boot' \in [stage : {"tree", "tar", "fb", "modules", "idle"}, at : Nat, part : Nat]
      /\ BootCounts'
  BY BootMoves, Zenon
<1>2. ops' \in {"root_ops", "xfs_ops"} /\ list' \in Seq(Name) /\ current_path' \in Seq(Name)
  BY DEF TypeOK
<1>3. QED
  BY <1>1, <1>2 DEF RestStep

(* A directory found by a look-up. *)
LEMMA DirectoryFound ==
  ASSUME NEW n, TrueNode(Records, n), TypeOfNode(n) = "DIR"
  PROVE  NewCurrent(n)
<1>1. CASE n = Root
  BY <1>1 DEF NewCurrent
<1>2. CASE n # Root
  <2>1. PICK q \in Records : q.num = InodeOf(n)
    BY <1>2, TrueNodeInode
  <2>2. /\ RecordOf(InodeOf(n)) \in Records
        /\ RecordOf(InodeOf(n)).num = InodeOf(n)
    BY <2>1 DEF RecordOf
  <2>3. RecordOf(InodeOf(n)).type = "DIR"
    BY <1>2 DEF TypeOfNode
  <2>4. QED BY <2>2, <2>3 DEF NewCurrent
<1>3. QED
  BY <1>1, <1>2

LEMMA ChdirStep ==
  ASSUME TreeInv, NEW path \in Path, VfsChdir(path), UNCHANGED tables, UNCHANGED fd_table
  PROVE  FileStep /\ HeldStep
<1> DEFINE to == Lookup(path, pages)
<1>1. TypeOK /\ HeldTrue /\ pages \in 0 .. pages
  BY PagesNow DEF TreeInv, TypeOK
<1>2. to.pages \in 0 .. pages /\ (to.node # NoNode => TrueNode(Records, to.node))
  BY <1>1, LookupPages
<1>3. /\ pages' = to.pages
      /\ vfs_current' = IF to.node # NoNode /\ TypeOfNode(to.node) = "DIR"
                          THEN to.node ELSE vfs_current
  BY DEF VfsChdir
<1> HIDE DEF to
<1>4. FileStep
  BY <1>2, <1>3 DEF FileStep, TableStep
<1>5. DOMAIN fd_table' = Fds /\ fd_table' = fd_table
  BY <1>1 DEF TypeOK
<1>6. vfs_current' = vfs_current \/ NewCurrent(vfs_current')
  <2>1. CASE to.node # NoNode /\ TypeOfNode(to.node) = "DIR"
    <3>1. NewCurrent(to.node)
      BY <1>2, <2>1, DirectoryFound
    <3>2. QED BY <1>3, <2>1, <3>1
  <2>2. QED BY <1>3, <2>1
<1>7. QED
  BY <1>4, <1>5, <1>6 DEF HeldStep

(* The steps of the boot thread. *)
LEMMA BootShape ==
  ASSUME TreeInv, Boot
  PROVE  StepShape
<1>1. TypeOK /\ BlocksAccounted /\ HeldTrue /\ BootCounts /\ pages \in 0 .. pages
  BY PagesNow DEF TreeInv, TypeOK
<1>2. pages \in Nat /\ Pages \in Nat
  BY <1>1, PagesNow
<1>3. CASE SystemDir
  <2>1. FileStep
    BY <1>1, <1>2, <1>3 DEF SystemDir, FileStep, TableStep
  <2>2. HeldStep
    BY <1>1, <1>3, HeldStays DEF SystemDir
  <2>3. list' \in Seq(Name)
    <3>1. SystemDirs \in Seq(Name) /\ boot.at \in Nat /\ boot.at <= Len(SystemDirs)
      BY <1>1, <1>3, NamespaceAssumption DEF SystemDir, TypeOK
    <3>2. SystemDirs[boot.at] \in Name
      BY <1>1, <3>1 DEF BootCounts
    <3>3. list \in Seq(Name)
      BY <1>1 DEF TypeOK
    <3>4. list' = list \/ list' = <<SystemDirs[boot.at]>> \o list
      BY <1>3 DEF SystemDir
    <3> HIDE DEF Name
    <3>5. <<SystemDirs[boot.at]>> \o list \in Seq(Name)
      BY <3>2, <3>3
    <3>6. QED BY <3>3, <3>4, <3>5
  <2>4. RestStep
    <3>1. NextEntry /\ UNCHANGED <<ops, current_path>>
      BY <1>3 DEF SystemDir
    <3>2. /\ boot' \in [stage : {"tree", "tar", "fb", "modules", "idle"}, at : Nat, part : Nat]
          /\ BootCounts'
      BY <1>1, <3>1, BootMoves, Zenon
    <3>3. ops' \in {"root_ops", "xfs_ops"} /\ current_path' \in Seq(Name)
      BY <1>1, <3>1 DEF TypeOK
    <3>4. QED BY <2>3, <3>2, <3>3 DEF RestStep
  <2>5. QED BY <2>1, <2>2, <2>4 DEF StepShape
<1>4. CASE MountXfs
  <2>1. FileStep
    BY <1>1, <1>2, <1>4 DEF MountXfs, FileStep, TableStep
  <2>2. HeldStep
    BY <1>1, <1>4, HeldStays DEF MountXfs
  <2>3. RestStep
    <3>1. Enter("tar") /\ ops' = "xfs_ops" /\ UNCHANGED <<list, current_path>>
      BY <1>4 DEF MountXfs
    <3>2. /\ boot' \in [stage : {"tree", "tar", "fb", "modules", "idle"}, at : Nat, part : Nat]
          /\ BootCounts'
      BY <1>1, <3>1, BootMoves
    <3>3. list' \in Seq(Name) /\ current_path' \in Seq(Name)
      BY <1>1, <3>1 DEF TypeOK
    <3>4. QED BY <3>1, <3>2, <3>3 DEF RestStep
  <2>4. QED BY <2>1, <2>2, <2>3 DEF StepShape
<1>5. ASSUME boot.stage = "tar", boot.at <= Len(Archive)
      PROVE  /\ Abs(Parts) \in Path
             /\ \A n \in Nat : n < Len(Parts) => Abs(SubSeq(Parts, 1, n)) \in Path
  <2> DEFINE E == [type : {"DIR", "FILE"}, parts : Seq(Name)]
  <2>1. Archive \in Seq(E) /\ boot.at \in Nat /\ boot.at >= 1
    BY <1>1, NamespaceAssumption DEF TypeOK, BootCounts
  <2>2. Archive[boot.at] \in E
    <3> HIDE DEF E
    <3> QED BY <1>5, <2>1
  <2>3. Parts \in Seq(Name)
    BY <2>2 DEF Parts
  <2> HIDE DEF Name, Parts
  <2>4. \A n \in Nat : n < Len(Parts) => SubSeq(Parts, 1, n) \in Seq(Name)
    BY <2>3
  <2>5. QED BY <2>3, <2>4 DEF Abs, Path
<1>6. ASSUME ArchiveStep, NextEntry \/ NextPart PROVE HeldStep /\ RestStep
  BY <1>1, <1>6, HeldStays, RestStays DEF ArchiveStep
<1>7. CASE UnpackDirectory
  <2>1. MakeIfAbsent(Abs(Parts)) /\ ArchiveStep /\ NextEntry
    BY <1>7 DEF UnpackDirectory
  <2>2. Abs(Parts) \in Path
    BY <1>5, <1>7 DEF UnpackDirectory, InArchive
  <2>3. FileStep
    BY <1>1, <2>1, <2>2, MakeIfAbsentStep
  <2>4. QED BY <1>6, <2>1, <2>3 DEF StepShape
<1>8. CASE EnsureDirectory
  <2>1. MakeIfAbsent(Abs(SubSeq(Parts, 1, boot.part))) /\ ArchiveStep /\ NextPart
    BY <1>8 DEF EnsureDirectory
  <2>2. Abs(SubSeq(Parts, 1, boot.part)) \in Path
    <3>1. boot.part \in Nat /\ boot.part < Len(Parts)
      BY <1>1, <1>8 DEF EnsureDirectory, TypeOK
    <3>2. QED BY <1>5, <1>8, <3>1 DEF EnsureDirectory, InArchive
  <2>3. FileStep
    BY <1>1, <2>1, <2>2, MakeIfAbsentStep
  <2>4. QED BY <1>6, <2>1, <2>3 DEF StepShape
<1>9. CASE UnpackFile
  <2> DEFINE there == Lookup(Abs(Parts), pages)
  <2>1. Abs(Parts) \in Path
    BY <1>5, <1>9 DEF UnpackFile, InArchive
  <2>2. there.pages \in 0 .. pages
    BY <1>1, <2>1, LookupPages
  <2>3. /\ ArchiveStep
        /\ \/ pages' = there.pages /\ UNCHANGED tables /\ NextEntry
           \/ VfsCreate(Abs(Parts), there.pages) /\ NextPart
    BY <1>9 DEF UnpackFile
  <2> HIDE DEF there
  <2>4. FileStep
    <3>1. CASE pages' = there.pages /\ UNCHANGED tables /\ NextEntry
      BY <2>2, <3>1 DEF FileStep, TableStep
    <3>2. CASE VfsCreate(Abs(Parts), there.pages)
      BY <1>1, <2>1, <2>2, <3>2, CreateStep
    <3>3. QED BY <2>3, <3>1, <3>2
  <2>5. QED BY <1>6, <2>3, <2>4 DEF StepShape
<1>10. CASE BindFile
  <2> DEFINE new == Lookup(Abs(Parts), pages)
  <2>1. Abs(Parts) \in Path
    BY <1>5, <1>10 DEF BindFile, InArchive
  <2>2. /\ new.pages \in 0 .. pages
        /\ new.node # NoNode => TrueNode(Records, new.node)
    BY <1>1, <2>1, LookupPages
  <2>3. /\ pages' = new.pages
        /\ UNCHANGED <<inode_count, block_bitmap, free_blocks, counter>>
        /\ inodes' = IF new.node = NoNode THEN inodes
                     ELSE [g \in AGs |-> [j \in DOMAIN inodes[g] |->
                             IF inodes[g][j].num = InodeOf(new.node)
                               THEN [inodes[g][j] EXCEPT !.data = boot.at]
                               ELSE inodes[g][j]]]
        /\ ArchiveStep /\ NextEntry
    BY <1>10 DEF BindFile
  <2> HIDE DEF new
  <2>4. TableStep
    <3>1. CASE new.node = NoNode
      BY <2>3, <3>1 DEF TableStep, tables
    <3>2. CASE new.node # NoNode
      <4>1. InodeOf(new.node) \in Nat /\ boot.at \in Nat
        BY <1>1, <2>2, <3>2, TrueNodeInode DEF TypeOK
      <4>2. Bound(InodeOf(new.node), boot.at)
        BY <2>3, <3>2 DEF Bound
      <4>3. boot.at \in DOMAIN Archive
        <5>1. boot.at >= 1 /\ boot.at <= Len(Archive) /\ boot.at \in Nat
          BY <1>1, <1>10, <4>1 DEF BindFile, InArchive, BootCounts
        <5>2. DOMAIN Archive = 1 .. Len(Archive)
          <6> DEFINE E == [type : {"DIR", "FILE"}, parts : Seq(Name)]
          <6>1. Archive \in Seq(E)
            BY NamespaceAssumption
          <6> HIDE DEF E
          <6>2. QED BY <6>1
        <5>3. QED BY <5>1, <5>2
      <4>4. BindsEntry(InodeOf(new.node), boot.at)
        BY <1>10, <3>2, <4>2, <4>3 DEF BindsEntry, new, BindFile, InArchive
      <4>5. QED BY <4>1, <4>4 DEF TableStep
    <3>3. QED BY <3>1, <3>2
  <2>5. FileStep
    BY <2>2, <2>3, <2>4 DEF FileStep
  <2>6. QED BY <1>6, <2>3, <2>5 DEF StepShape
<1>11. CASE EnableInterrupts
  <2>1. FileStep
    BY <1>1, <1>2, <1>11 DEF EnableInterrupts, FileStep, TableStep
  <2>2. HeldStep
    BY <1>1, <1>11, HeldStays DEF EnableInterrupts
  <2>3. RestStep
    BY <1>1, <1>11, RestStays DEF EnableInterrupts
  <2>4. QED BY <2>1, <2>2, <2>3 DEF StepShape
<1>12. CASE RegisterFb0
  <2> DEFINE dev == Lookup(Abs(<< <<"dev">> >>), pages)
  <2>1. Abs(<< <<"dev">> >>) \in Path
    <3>1. <<"dev">> \in Name
      BY NamespaceAssumption, SingleIsName, Zenon
    <3> HIDE DEF Name
    <3>2. << <<"dev">> >> \in Seq(Name)
      BY <3>1
    <3>3. QED BY <3>2 DEF Abs, Path
  <2>2. dev.pages \in 0 .. pages
    BY <1>1, <2>1, LookupPages
  <2>3. /\ pages' = IF dev.node = NoNode \/ dev.pages = 0 THEN dev.pages ELSE dev.pages - 1
        /\ UNCHANGED <<tables, ops, list, vfs_current, fd_table, current_path>>
        /\ Enter("modules")
    BY <1>12 DEF RegisterFb0
  <2> HIDE DEF dev
  <2>4. FileStep
    BY <1>2, <2>2, <2>3 DEF FileStep, TableStep
  <2>5. HeldStep
    BY <1>1, <2>3, HeldStays
  <2>6. RestStep
    BY <1>1, <2>3, RestStays
  <2>7. QED BY <2>4, <2>5, <2>6 DEF StepShape
<1>13. CASE CreateBinary
  <2>1. FileStep
    BY <1>1, <1>2, <1>13 DEF CreateBinary, FileStep, TableStep
  <2>2. HeldStep
    BY <1>1, <1>13, HeldStays DEF CreateBinary
  <2>3. list' \in Seq(Name)
    <3>1. list \in Seq(Name)
      BY <1>1 DEF TypeOK
    <3>2. <<"module">> \in Name
      BY NamespaceAssumption, SingleIsName, Zenon
    <3> HIDE DEF Name
    <3>3. << <<"module">> >> \o list \in Seq(Name)
      BY <3>1, <3>2
    <3>4. list' = list \/ list' = << <<"module">> >> \o list
      BY <1>13 DEF CreateBinary
    <3>5. QED BY <3>1, <3>3, <3>4
  <2>4. RestStep
    <3>1. NextEntry /\ UNCHANGED <<ops, current_path>>
      BY <1>13 DEF CreateBinary
    <3>2. /\ boot' \in [stage : {"tree", "tar", "fb", "modules", "idle"}, at : Nat, part : Nat]
          /\ BootCounts'
      BY <1>1, <3>1, BootMoves, Zenon
    <3>3. ops' \in {"root_ops", "xfs_ops"} /\ current_path' \in Seq(Name)
      BY <1>1, <3>1 DEF TypeOK
    <3>4. QED BY <2>3, <3>2, <3>3 DEF RestStep
  <2>5. QED BY <2>1, <2>2, <2>4 DEF StepShape
<1>14. CASE BootDone
  <2>1. FileStep
    BY <1>1, <1>2, <1>14 DEF BootDone, FileStep, TableStep
  <2>2. HeldStep
    <3>1. vfs_current' = Root /\ fd_table' = fd_table
      BY <1>14 DEF BootDone
    <3>2. NewCurrent(Root)
      BY RootIsTrue DEF NewCurrent
    <3>3. QED BY <1>1, <3>1, <3>2 DEF HeldStep, TypeOK
  <2>3. RestStep
    BY <1>1, <1>14, RestStays DEF BootDone
  <2>4. QED BY <2>1, <2>2, <2>3 DEF StepShape
<1>15. QED
  BY <1>3, <1>4, <1>7, <1>8, <1>9, <1>10, <1>11, <1>12, <1>13, <1>14 DEF Boot

(* The shell commands and the system calls. *)
Call(path) ==
  \/ Mkdir(path) \/ Touch(path) \/ ShellCd(path) \/ SysChdir(path)
  \/ SysOpen(path) \/ Cat(path) \/ Ls(path)
  \/ Tree(path) \/ Rm(path)

LEMMA AbsoluteIsPath ==
  ASSUME TypeOK, NEW path \in Path
  PROVE  Absolute(path) \in Path /\ Absolute(path).parts \in Seq(Name)
<1>1. /\ path = [abs |-> path.abs, parts |-> path.parts]
      /\ path.parts \in Seq(Name) /\ path.abs \in BOOLEAN
  BY DEF Path
<1>2. current_path \in Seq(Name)
  BY DEF TypeOK
<1> HIDE DEF Name
<1>3. current_path \o path.parts \in Seq(Name)
  BY <1>1, <1>2
<1>4. QED
  BY <1>1, <1>3 DEF Absolute, Abs, Path

LEMMA CallShape ==
  ASSUME TreeInv, NEW path \in Paths, Call(path)
  PROVE  StepShape
<1>1. /\ TypeOK /\ BlocksAccounted /\ HeldTrue /\ BootCounts /\ Numbered
      /\ pages \in 0 .. pages
  BY PagesNow DEF TreeInv, TypeOK
<1>2. pages \in Nat /\ Pages \in Nat
  BY <1>1, PagesNow
<1>3. path \in Path
  BY NamespaceAssumption, Zenon
<1> DEFINE to == Lookup(path, pages)
<1>4. to.pages \in 0 .. pages /\ (to.node # NoNode => TrueNode(Records, to.node))
  BY <1>1, <1>3, LookupPages
<1>5. CASE Mkdir(path)
  <2>1. VfsMkdir(path) /\ UNCHANGED <<ops, list, vfs_current, fd_table, current_path, boot>>
    BY <1>5 DEF Mkdir
  <2>2. FileStep
    BY <1>1, <1>3, <2>1, MkdirStep
  <2>3. QED BY <1>1, <2>1, <2>2, HeldStays, RestStays DEF StepShape
<1>6. CASE Touch(path)
  <2>1. VfsCreate(path, pages) /\ UNCHANGED <<ops, list, vfs_current, fd_table, current_path, boot>>
    BY <1>6 DEF Touch
  <2>2. FileStep
    BY <1>1, <1>3, <2>1, CreateStep
  <2>3. QED BY <1>1, <2>1, <2>2, HeldStays, RestStays DEF StepShape
<1>7. CASE ShellCd(path)
  <2>1. VfsChdir(path) /\ UNCHANGED <<tables, ops, list, fd_table, current_path, boot>>
    BY <1>7 DEF ShellCd
  <2>2. FileStep /\ HeldStep
    BY <1>3, <2>1, ChdirStep
  <2>3. RestStep
    BY <1>1, <2>1, RestStays
  <2>4. QED BY <2>2, <2>3 DEF StepShape
<1>8. CASE SysChdir(path)
  <2>1. /\ VfsChdir(Absolute(path)) /\ UNCHANGED <<tables, ops, list, fd_table, boot>>
        /\ current_path' = Absolute(path).parts \/ current_path' = current_path
    BY <1>8 DEF SysChdir
  <2>2. FileStep /\ HeldStep
    BY <1>1, <1>3, <2>1, ChdirStep, AbsoluteIsPath
  <2>3. current_path' \in Seq(Name) /\ ops' \in {"root_ops", "xfs_ops"} /\ list' \in Seq(Name)
    BY <1>1, <1>3, <2>1, AbsoluteIsPath DEF TypeOK
  <2>4. RestStep
    BY <1>1, <2>1, <2>3, BootMoves DEF RestStep
  <2>5. QED BY <2>2, <2>4 DEF StepShape
<1>9. CASE SysOpen(path)
  <2> DEFINE unused == {d \in Fds : fd_table[d] = NoNode}
             d0 == CHOOSE d \in unused : \A e \in unused : d <= e
  <2>1. /\ pages' = to.pages
        /\ fd_table' = IF to.node = NoNode \/ unused = {} THEN fd_table
                       ELSE [fd_table EXCEPT ![d0] = to.node]
        /\ UNCHANGED <<tables, ops, list, vfs_current, current_path, boot>>
    BY <1>9 DEF SysOpen
  <2> HIDE DEF to, d0
  <2>2. FileStep
    BY <1>4, <2>1 DEF FileStep, TableStep
  <2>3. DOMAIN fd_table = Fds
    BY <1>1 DEF TypeOK
  <2>4. HeldStep
    <3>1. CASE to.node = NoNode \/ unused = {}
      BY <2>1, <2>3, <3>1 DEF HeldStep
    <3>2. CASE ~(to.node = NoNode \/ unused = {})
      <4>1. fd_table' = [fd_table EXCEPT ![d0] = to.node] /\ TrueNode(Records, to.node)
        BY <1>4, <2>1, <3>2
      <4>2. \A d \in Fds : fd_table'[d] = fd_table[d] \/ fd_table'[d] = to.node
        BY <2>3, <4>1
      <4>3. DOMAIN fd_table' = Fds
        BY <2>3, <4>1
      <4>4. \A d \in Fds : fd_table'[d] = fd_table[d] \/ TrueNode(Records, fd_table'[d])
        BY <4>1, <4>2
      <4>5. QED BY <2>1, <4>3, <4>4 DEF HeldStep
    <3>3. QED BY <3>1, <3>2
  <2>5. RestStep
    BY <1>1, <2>1, RestStays
  <2>6. QED BY <2>2, <2>4, <2>5 DEF StepShape
<1>10. ASSUME UNCHANGED <<tables, ops, list, vfs_current, fd_table, current_path, boot>>,
              pages' \in 0 .. pages
       PROVE  StepShape
  <2>1. FileStep
    BY <1>10 DEF FileStep, TableStep
  <2>2. QED BY <1>1, <1>10, <2>1, HeldStays, RestStays DEF StepShape
<1>11. CASE Cat(path)
  <2>1. /\ pages' = to.pages \/ (to.pages # 0 /\ pages' = to.pages - 1)
        /\ UNCHANGED <<tables, ops, list, vfs_current, fd_table, current_path, boot>>
    BY <1>11 DEF Cat
  <2> HIDE DEF to
  <2>2. pages' \in 0 .. pages
    BY <1>2, <1>4, <2>1
  <2>3. QED BY <1>10, <2>1, <2>2
<1>12. CASE Ls(path)
  <2>1. /\ pages' = to.pages \/ pages' = Lookup(Absolute(path), pages).pages
        /\ UNCHANGED <<tables, ops, list, vfs_current, fd_table, current_path, boot>>
    BY <1>12 DEF Ls, LsOf
  <2>2. Lookup(Absolute(path), pages).pages \in 0 .. pages
    BY <1>1, <1>3, AbsoluteIsPath, LookupPages
  <2>3. QED BY <1>4, <1>10, <2>1, <2>2
<1>13. CASE Tree(path)
  <2> DEFINE copies == IF to.node = NoNode \/ TypeOfNode(to.node) # "DIR" THEN 0
                       ELSE Cardinality({r \in TreeBelow(InodeOf(to.node)) : r.type = "DIR"})
  <2>1. /\ pages' = IF copies > to.pages THEN 0 ELSE to.pages - copies
        /\ UNCHANGED <<tables, ops, list, vfs_current, fd_table, current_path, boot>>
    BY <1>13 DEF Tree
  <2> HIDE DEF to
  <2>2. copies \in Nat
    BY <1>1, TreeCount
  <2> HIDE DEF copies
  <2>3. pages' \in 0 .. pages
    BY <1>2, <1>4, <2>1, <2>2
  <2>4. QED BY <1>10, <2>1, <2>3
<1>14. CASE Rm(path)
  <2>1. /\ pages' = ParentFor(path, pages).pages
        /\ UNCHANGED <<tables, ops, list, vfs_current, fd_table, current_path, boot>>
    BY <1>14 DEF Rm
  <2>2. pages' \in 0 .. pages
    BY <1>1, <1>2, <1>3, <2>1, ParentForIsTrue, ReachedPages
  <2>3. QED BY <1>10, <2>1, <2>2
<1>15. QED
  BY <1>5, <1>6, <1>7, <1>8, <1>9, <1>11, <1>12, <1>13, <1>14 DEF Call

LEMMA EveryStepHasShape ==
  ASSUME TreeInv, [Next]_vars
  PROVE  StepShape
<1>1. CASE Boot
  BY <1>1, BootShape
<1>2. ASSUME NEW path \in Paths, Call(path) PROVE StepShape
  BY <1>2, CallShape
<1>3. CASE UNCHANGED vars
  <2>1. TypeOK /\ BootCounts /\ UNCHANGED <<tables, pages, ops, list, vfs_current, fd_table, current_path, boot>>
    BY <1>3 DEF vars, tables, TreeInv
  <2>2. FileStep
    BY <2>1 DEF FileStep, TableStep, TypeOK
  <2>3. QED BY <2>1, <2>2, HeldStays, RestStays DEF StepShape
<1>4. QED
  BY <1>1, <1>2, <1>3 DEF Next, Call

-----------------------------------------------------------------------------
(* The steps keep the invariant. *)

LEMMA CreatedSlots ==
  ASSUME TypeOK, NEW g \in AGs, NEW b \in Blocks, NEW r \in InodeType, Created(g, b, r)
  PROVE  /\ inodes' \in [AGs -> Seq(InodeType)]
         /\ \A h \in AGs \ {g} : inodes'[h] = inodes[h]
         /\ DOMAIN inodes'[g] = 1 .. Len(inodes[g]) + 1 /\ Len(inodes'[g]) = Len(inodes[g]) + 1
         /\ DOMAIN inodes[g] = 1 .. Len(inodes[g]) /\ Len(inodes[g]) \in Nat
         /\ \A j \in DOMAIN inodes[g] : inodes'[g][j] = inodes[g][j]
         /\ inodes'[g][Len(inodes[g]) + 1] = r
<1> HIDE DEF InodeType, AGs
<1>1. inodes \in [AGs -> Seq(InodeType)] /\ inodes' = [inodes EXCEPT ![g] = Append(@, r)]
  BY DEF TypeOK, Created
<1>2. inodes[g] \in Seq(InodeType)
  BY <1>1
<1>3. Append(inodes[g], r) \in Seq(InodeType)
  BY <1>2
<1>4. inodes'[g] = Append(inodes[g], r)
  BY <1>1
<1>5. inodes' \in [AGs -> Seq(InodeType)] /\ \A h \in AGs \ {g} : inodes'[h] = inodes[h]
  BY <1>1, <1>3
<1>6. QED
  BY <1>2, <1>4, <1>5

LEMMA BoundSlots ==
  ASSUME TypeOK, NEW num \in Nat, NEW k \in Nat, Bound(num, k)
  PROVE  /\ inodes' \in [AGs -> Seq(InodeType)]
         /\ \A g \in AGs :
              /\ DOMAIN inodes'[g] = DOMAIN inodes[g] /\ Len(inodes'[g]) = Len(inodes[g])
              /\ \A j \in DOMAIN inodes[g] :
                   inodes'[g][j] = IF inodes[g][j].num = num
                                     THEN [inodes[g][j] EXCEPT !.data = k] ELSE inodes[g][j]
<1> DEFINE new(g) == [j \in DOMAIN inodes[g] |->
                        IF inodes[g][j].num = num THEN [inodes[g][j] EXCEPT !.data = k]
                                                  ELSE inodes[g][j]]
<1>1. inodes \in [AGs -> Seq(InodeType)] /\ inodes' = [g \in AGs |-> new(g)]
  BY DEF TypeOK, Bound
<1>2. ASSUME NEW g \in AGs PROVE new(g) \in Seq(InodeType) /\ Len(new(g)) = Len(inodes[g])
  <2>1. inodes[g] \in Seq(InodeType)
    BY <1>1
  <2>2. DOMAIN inodes[g] = 1 .. Len(inodes[g]) /\ Len(inodes[g]) \in Nat
    BY <2>1
  <2>3. ASSUME NEW j \in DOMAIN inodes[g] PROVE new(g)[j] \in InodeType
    <3>1. inodes[g][j] \in InodeType
      BY <2>1
    <3>2. [inodes[g][j] EXCEPT !.data = k] \in InodeType
      BY <3>1 DEF InodeType
    <3>3. QED BY <3>1, <3>2
  <2>4. new(g) \in [1 .. Len(inodes[g]) -> InodeType]
    BY <2>2, <2>3
  <2> HIDE DEF new
  <2>5. QED BY <2>2, <2>4
<1>3. \A g \in AGs : inodes'[g] = new(g)
  <2> HIDE DEF new
  <2> QED BY <1>1
<1>4. inodes' \in [AGs -> Seq(InodeType)]
  <2> HIDE DEF new, InodeType
  <2> QED BY <1>1, <1>2
<1>5. ASSUME NEW g \in AGs
      PROVE  /\ DOMAIN inodes'[g] = DOMAIN inodes[g] /\ Len(inodes'[g]) = Len(inodes[g])
             /\ \A j \in DOMAIN inodes[g] :
                  inodes'[g][j] = IF inodes[g][j].num = num
                                    THEN [inodes[g][j] EXCEPT !.data = k] ELSE inodes[g][j]
  BY <1>2, <1>3
<1>6. QED
  BY <1>4, <1>5

LEMMA TablesTyped ==
  ASSUME TypeOK, TableStep
  PROVE  /\ inodes' \in [AGs -> Seq(InodeType)]
         /\ inode_count' \in [AGs -> 0 .. MaxFilesAg]
         /\ block_bitmap' \in [AGs -> SUBSET Blocks]
         /\ free_blocks' \in [AGs -> 0 .. BlocksAg]
         /\ counter' \in Nat
<1>1. /\ inodes \in [AGs -> Seq(InodeType)]
      /\ inode_count \in [AGs -> 0 .. MaxFilesAg]
      /\ block_bitmap \in [AGs -> SUBSET Blocks]
      /\ free_blocks \in [AGs -> 0 .. BlocksAg]
      /\ counter \in Nat
  BY DEF TypeOK
<1>2. CASE UNCHANGED tables
  BY <1>1, <1>2 DEF tables
<1>3. ASSUME NEW g \in AGs, NEW b \in Blocks, NEW r \in InodeType, Created(g, b, r)
      PROVE  /\ inodes' \in [AGs -> Seq(InodeType)]
             /\ inode_count' \in [AGs -> 0 .. MaxFilesAg]
             /\ block_bitmap' \in [AGs -> SUBSET Blocks]
             /\ free_blocks' \in [AGs -> 0 .. BlocksAg]
             /\ counter' \in Nat
  <2>1. /\ inode_count[g] < MaxFilesAg /\ free_blocks[g] # 0
        /\ inode_count' = [inode_count EXCEPT ![g] = @ + 1]
        /\ block_bitmap' = [block_bitmap EXCEPT ![g] = @ \union {b}]
        /\ free_blocks' = [free_blocks EXCEPT ![g] = @ - 1]
        /\ counter' = counter + 1
    BY <1>3 DEF Created
  <2>2. inodes' \in [AGs -> Seq(InodeType)]
    BY <1>3, CreatedSlots
  <2>3. MaxFilesAg \in Nat /\ BlocksAg \in Nat
    BY NamespaceAssumption, Zenon
  <2> HIDE DEF AGs, InodeType, Blocks
  <2>4. inode_count[g] + 1 \in 0 .. MaxFilesAg /\ free_blocks[g] - 1 \in 0 .. BlocksAg
    BY <1>1, <2>1, <2>3
  <2>5. block_bitmap[g] \union {b} \in SUBSET Blocks
    BY <1>1
  <2>6. inode_count' \in [AGs -> 0 .. MaxFilesAg]
    BY <1>1, <2>1, <2>4
  <2>7. free_blocks' \in [AGs -> 0 .. BlocksAg]
    BY <1>1, <2>1, <2>4
  <2>8. block_bitmap' \in [AGs -> SUBSET Blocks]
    BY <1>1, <2>1, <2>5
  <2>9. QED BY <1>1, <2>1, <2>2, <2>6, <2>7, <2>8
<1>4. ASSUME NEW num \in Nat, NEW k \in Nat, Bound(num, k)
      PROVE  /\ inodes' \in [AGs -> Seq(InodeType)]
             /\ UNCHANGED <<inode_count, block_bitmap, free_blocks, counter>>
  BY <1>4, BoundSlots DEF Bound
<1>5. QED
  BY <1>1, <1>2, <1>3, <1>4 DEF TableStep, BindsEntry

LEMMA TypeKept ==
  ASSUME TypeOK, StepShape
  PROVE  TypeOK'
<1>1. TableStep /\ pages' \in 0 .. Pages /\ HeldStep /\ RestStep
  BY PagesNow DEF StepShape, FileStep
<1>2. vfs_current' \in Seq(Nat)
  BY <1>1 DEF HeldStep, NewCurrent, TrueNode, TypeOK
<1>3. DOMAIN fd_table' = Fds /\ \A d \in Fds : IsNode(fd_table'[d])
  BY <1>1 DEF HeldStep, TrueNode, TypeOK, IsNode
<1>4. QED
  BY <1>1, <1>2, <1>3, TablesTyped DEF TypeOK, RestStep, IsNode

LEMMA AccountsKept ==
  ASSUME TypeOK, BlocksAccounted, TableStep
  PROVE  BlocksAccounted'
<1>1. CASE UNCHANGED tables
  BY <1>1 DEF tables, BlocksAccounted
<1>2. ASSUME NEW g \in AGs, NEW b \in Blocks, NEW r \in InodeType, Created(g, b, r),
             NEW h \in AGs
      PROVE  /\ inode_count'[h] = Len(inodes'[h])
             /\ free_blocks'[h] = BlocksAg - inode_count'[h]
             /\ block_bitmap'[h] = {inodes'[h][j].block : j \in DOMAIN inodes'[h]}
             /\ \A j, k \in DOMAIN inodes'[h] : j # k => inodes'[h][j].block # inodes'[h][k].block
  <2>1. /\ inode_count[h] = Len(inodes[h])
        /\ free_blocks[h] = BlocksAg - inode_count[h]
        /\ block_bitmap[h] = {inodes[h][j].block : j \in DOMAIN inodes[h]}
        /\ \A j, k \in DOMAIN inodes[h] : j # k => inodes[h][j].block # inodes[h][k].block
    BY DEF BlocksAccounted
  <2>2. /\ inode_count \in [AGs -> 0 .. MaxFilesAg]
        /\ block_bitmap \in [AGs -> SUBSET Blocks]
        /\ free_blocks \in [AGs -> 0 .. BlocksAg]
    BY DEF TypeOK
  <2>3. /\ b \notin block_bitmap[g] /\ r.block = b
        /\ inode_count' = [inode_count EXCEPT ![g] = @ + 1]
        /\ block_bitmap' = [block_bitmap EXCEPT ![g] = @ \union {b}]
        /\ free_blocks' = [free_blocks EXCEPT ![g] = @ - 1]
    BY <1>2 DEF Created
  <2> HIDE DEF AGs, Blocks, InodeType
  <2>4. CASE h # g
    <3>1. inodes'[h] = inodes[h]
      BY <1>2, <2>4, CreatedSlots
    <3>2. inode_count'[h] = inode_count[h] /\ free_blocks'[h] = free_blocks[h] /\ block_bitmap'[h] = block_bitmap[h]
      BY <2>2, <2>3, <2>4
    <3>3. QED BY <2>1, <3>1, <3>2
  <2>5. CASE h = g
    <3> DEFINE n == Len(inodes[g])
    <3>1. /\ DOMAIN inodes'[g] = 1 .. n + 1 /\ Len(inodes'[g]) = n + 1
          /\ DOMAIN inodes[g] = 1 .. n /\ n \in Nat
          /\ \A j \in DOMAIN inodes[g] : inodes'[g][j] = inodes[g][j]
          /\ inodes'[g][n + 1] = r
      BY <1>2, CreatedSlots
    <3>2. /\ inode_count'[g] = inode_count[g] + 1 /\ free_blocks'[g] = free_blocks[g] - 1
          /\ block_bitmap'[g] = block_bitmap[g] \union {b}
      BY <2>2, <2>3
    <3>3. BlocksAg \in Nat
      BY NamespaceAssumption, Zenon
    <3> HIDE DEF n
    <3>4. inode_count'[g] = Len(inodes'[g]) /\ free_blocks'[g] = BlocksAg - inode_count'[g]
      <4>1. inode_count[g] = n
        BY <2>1, <2>5 DEF n
      <4>2. free_blocks[g] = BlocksAg - n
        BY <2>1, <2>5, <4>1
      <4>3. QED BY <3>1, <3>2, <3>3, <4>1, <4>2
    <3>5. \A j \in 1 .. n : inodes'[g][j].block \in block_bitmap[g]
      BY <2>1, <2>5, <3>1
    <3>6. block_bitmap'[g] = {inodes'[g][j].block : j \in DOMAIN inodes'[g]}
      <4>1. \A x \in block_bitmap[g] : \E j \in 1 .. n : x = inodes'[g][j].block
        BY <2>1, <2>5, <3>1
      <4>2. \A j \in 1 .. n + 1 : j \in 1 .. n \/ j = n + 1
        BY <3>1
      <4>3. 1 .. n \subseteq 1 .. n + 1 /\ n + 1 \in 1 .. n + 1
        BY <3>1
      <4>4. ASSUME NEW x \in block_bitmap'[g] PROVE \E j \in DOMAIN inodes'[g] : x = inodes'[g][j].block
        BY <2>3, <3>1, <3>2, <4>1, <4>3
      <4>5. ASSUME NEW j \in DOMAIN inodes'[g] PROVE inodes'[g][j].block \in block_bitmap'[g]
        BY <2>3, <3>1, <3>2, <3>5, <4>2
      <4>6. QED BY <4>4, <4>5
    <3>7. ASSUME NEW j \in DOMAIN inodes'[g], NEW k \in DOMAIN inodes'[g], j # k
          PROVE  inodes'[g][j].block # inodes'[g][k].block
      <4>1. (j \in 1 .. n \/ j = n + 1) /\ (k \in 1 .. n \/ k = n + 1)
        BY <3>1
      <4>2. ASSUME j \in 1 .. n, k \in 1 .. n PROVE inodes'[g][j].block # inodes'[g][k].block
        <5>1. inodes'[g][j] = inodes[g][j] /\ inodes'[g][k] = inodes[g][k]
          BY <3>1, <4>2
        <5>2. inodes[g][j].block # inodes[g][k].block
          <6>1. j \in DOMAIN inodes[h] /\ k \in DOMAIN inodes[h]
            BY <2>5, <3>1, <4>2
          <6>2. QED BY <2>1, <2>5, <3>7, <6>1
        <5>3. QED BY <5>1, <5>2
      <4>3. inodes'[g][n + 1].block \notin block_bitmap[g]
        BY <2>3, <3>1
      <4>4. QED BY <3>5, <3>7, <4>1, <4>2, <4>3
    <3>8. QED BY <2>5, <3>4, <3>6, <3>7
  <2>6. QED BY <2>4, <2>5
<1>3. ASSUME NEW num \in Nat, NEW k \in Nat, Bound(num, k)
      PROVE  BlocksAccounted'
  <2>1. UNCHANGED <<inode_count, block_bitmap, free_blocks>>
    BY <1>3 DEF Bound
  <2>2. \A g \in AGs : /\ DOMAIN inodes'[g] = DOMAIN inodes[g] /\ Len(inodes'[g]) = Len(inodes[g])
                       /\ \A j \in DOMAIN inodes[g] : inodes'[g][j].block = inodes[g][j].block
    <3>1. ASSUME NEW g \in AGs, NEW j \in DOMAIN inodes[g] PROVE inodes'[g][j].block = inodes[g][j].block
      <4>1. inodes[g][j] \in InodeType
        BY DEF TypeOK
      <4>2. [inodes[g][j] EXCEPT !.data = k].block = inodes[g][j].block
        BY <4>1 DEF InodeType
      <4>3. inodes'[g][j] = IF inodes[g][j].num = num
                              THEN [inodes[g][j] EXCEPT !.data = k] ELSE inodes[g][j]
        BY <1>3, BoundSlots
      <4>4. QED BY <4>2, <4>3
    <3>2. QED BY <1>3, <3>1, BoundSlots
  <2>3. ASSUME NEW g \in AGs
        PROVE  {inodes'[g][j].block : j \in DOMAIN inodes'[g]} = {inodes[g][j].block : j \in DOMAIN inodes[g]}
    BY <2>2
  <2>4. QED BY <2>1, <2>2, <2>3 DEF BlocksAccounted
<1>4. ASSUME NEW g \in AGs, NEW b \in Blocks, NEW r \in InodeType, Created(g, b, r)
      PROVE  BlocksAccounted'
  BY <1>2, <1>4 DEF BlocksAccounted
<1>5. QED
  BY <1>1, <1>3, <1>4 DEF TableStep, BindsEntry

LEMMA CreatedRecords ==
  ASSUME TypeOK, TypeOK', NEW g \in AGs, NEW b \in Blocks, NEW r \in InodeType, Created(g, b, r)
  PROVE  Records' = Records \union {r}
<1>1. RecordsAreSlots
  BY RecordsType DEF RecordsAreSlots
<1>2. RecordsAreSlots'
  BY RecordsLater
<1> DEFINE n == Len(inodes[g])
<1>3. /\ \A h \in AGs \ {g} : inodes'[h] = inodes[h]
      /\ DOMAIN inodes'[g] = 1 .. n + 1
      /\ DOMAIN inodes[g] = 1 .. n /\ n \in Nat
      /\ \A j \in DOMAIN inodes[g] : inodes'[g][j] = inodes[g][j]
      /\ inodes'[g][n + 1] = r
  BY CreatedSlots
<1> HIDE DEF n, AGs, InodeType, Blocks
<1>4. \A q \in Records : q \in Records'
  <2>1. ASSUME NEW q \in Records PROVE q \in Records'
    <3>1. PICK h \in AGs : \E j \in DOMAIN inodes[h] : q = inodes[h][j]
      BY <1>1 DEF RecordsAreSlots
    <3>2. PICK j \in DOMAIN inodes[h] : q = inodes[h][j]
      BY <3>1
    <3>3. j \in DOMAIN inodes'[h] /\ q = inodes'[h][j]
      BY <1>3, <3>2
    <3>4. QED BY <1>2, <3>3 DEF RecordsAreSlots
  <2>2. QED BY <2>1
<1>5. r \in Records'
  <2>1. n + 1 \in DOMAIN inodes'[g]
    BY <1>3
  <2>2. QED BY <1>2, <1>3, <2>1 DEF RecordsAreSlots
<1>6. \A q \in Records' : q = r \/ q \in Records
  <2>1. ASSUME NEW q \in Records' PROVE q = r \/ q \in Records
    <3>1. PICK h \in AGs : \E j \in DOMAIN inodes'[h] : q = inodes'[h][j]
      BY <1>2 DEF RecordsAreSlots
    <3>2. PICK j \in DOMAIN inodes'[h] : q = inodes'[h][j]
      BY <3>1
    <3>3. CASE h # g
      BY <1>1, <1>3, <3>2, <3>3 DEF RecordsAreSlots
    <3>4. CASE h = g /\ j = n + 1
      BY <1>3, <3>2, <3>4
    <3>5. CASE h = g /\ j # n + 1
      <4>1. j \in DOMAIN inodes[g]
        BY <1>3, <3>5
      <4>2. QED BY <1>1, <1>3, <3>2, <3>5, <4>1 DEF RecordsAreSlots
    <3>6. QED BY <3>3, <3>4, <3>5
  <2>2. QED BY <2>1
<1>7. QED
  BY <1>4, <1>5, <1>6

(* Two versions of a record, which differ in the data only. *)
SameFile(q, r) ==
  q.num = r.num /\ q.name = r.name /\ q.type = r.type /\ q.parent = r.parent

LEMMA BoundRecords ==
  ASSUME TypeOK, TypeOK', NEW num \in Nat, NEW k \in Nat, Bound(num, k)
  PROVE  /\ \A g \in AGs : \A j \in DOMAIN inodes[g] : SameFile(inodes[g][j], inodes'[g][j])
         /\ \A q \in Records : \E r \in Records' : SameFile(q, r)
         /\ \A r \in Records' : \E q \in Records :
              SameFile(q, r) /\ r.data = IF q.num = num THEN k ELSE q.data
<1>1. RecordsAreSlots
  BY RecordsType DEF RecordsAreSlots
<1>2. RecordsAreSlots'
  BY RecordsLater
<1>3. ASSUME NEW g \in AGs, NEW j \in DOMAIN inodes[g]
      PROVE  /\ j \in DOMAIN inodes'[g] /\ SameFile(inodes[g][j], inodes'[g][j])
             /\ inodes'[g][j].data = IF inodes[g][j].num = num THEN k ELSE inodes[g][j].data
  <2>1. inodes[g][j] \in InodeType
    <3> HIDE DEF InodeType
    <3>1. inodes[g] \in Seq(InodeType)
      BY DEF TypeOK
    <3>2. QED BY <3>1
  <2>2. /\ SameFile(inodes[g][j], [inodes[g][j] EXCEPT !.data = k])
        /\ [inodes[g][j] EXCEPT !.data = k].data = k
    BY <2>1 DEF InodeType, SameFile
  <2>3. /\ j \in DOMAIN inodes'[g]
        /\ inodes'[g][j] = IF inodes[g][j].num = num
                              THEN [inodes[g][j] EXCEPT !.data = k] ELSE inodes[g][j]
    BY BoundSlots
  <2>4. QED BY <2>2, <2>3 DEF SameFile
<1>4. \A g \in AGs : DOMAIN inodes'[g] = DOMAIN inodes[g]
  BY BoundSlots
<1> HIDE DEF AGs, SameFile
<1>5. ASSUME NEW q \in Records PROVE \E r \in Records' : SameFile(q, r)
  <2>1. PICK g \in AGs : \E j \in DOMAIN inodes[g] : q = inodes[g][j]
    BY <1>1 DEF RecordsAreSlots
  <2>2. PICK j \in DOMAIN inodes[g] : q = inodes[g][j]
    BY <2>1
  <2>3. inodes'[g][j] \in Records'
    BY <1>2, <1>4 DEF RecordsAreSlots
  <2>4. QED BY <1>3, <2>2, <2>3
<1>6. ASSUME NEW r \in Records'
      PROVE  \E q \in Records : SameFile(q, r) /\ r.data = IF q.num = num THEN k ELSE q.data
  <2>1. PICK g \in AGs : \E j \in DOMAIN inodes'[g] : r = inodes'[g][j]
    BY <1>2 DEF RecordsAreSlots
  <2>2. PICK j \in DOMAIN inodes[g] : r = inodes'[g][j]
    BY <1>4, <2>1
  <2>3. inodes[g][j] \in Records
    BY <1>1 DEF RecordsAreSlots
  <2>4. QED BY <1>3, <2>2, <2>3
<1>7. QED
  BY <1>3, <1>5, <1>6

(* No step loses a file, or gives it another number, name, type or place. *)
LEMMA FilesKept ==
  ASSUME TypeOK, TypeOK', TableStep
  PROVE  \A q \in Records : \E r \in Records' : SameFile(q, r)
<1>1. CASE UNCHANGED tables
  BY <1>1 DEF tables, Records, SameFile
<1>2. ASSUME NEW g \in AGs, NEW b \in Blocks, NEW r \in InodeType, Created(g, b, r)
      PROVE  \A q \in Records : q \in Records'
  BY <1>2, CreatedRecords
<1>3. ASSUME NEW num \in Nat, NEW k \in Nat, Bound(num, k)
      PROVE  \A q \in Records : \E r \in Records' : SameFile(q, r)
  BY <1>3, BoundRecords
<1>4. QED
  BY <1>1, <1>2, <1>3 DEF TableStep, SameFile, BindsEntry

LEMMA NumberedKept ==
  ASSUME TypeOK, TypeOK', Numbered, TableStep
  PROVE  Numbered'
<1>1. /\ counter >= FirstInode
      /\ \A r \in Records : r.num \in FirstInode .. counter - 1
      /\ \A g, h \in AGs : \A j \in DOMAIN inodes[g], k \in DOMAIN inodes[h] :
           inodes[g][j].num = inodes[h][k].num => g = h /\ j = k
      /\ \A r \in Records :
           r.parent = 0 \/ \E q \in Records : q.num = r.parent /\ q.num < r.num
  BY DEF Numbered, Hierarchy
<1>2. counter \in Nat /\ FirstInode \in Nat /\ \A q \in Records : q.num \in Nat
  BY RecordsType DEF TypeOK, FirstInode, InodeType
<1>3. RecordsAreSlots
  BY RecordsType DEF RecordsAreSlots
<1>4. CASE UNCHANGED tables
  BY <1>1, <1>4 DEF tables, Records, Numbered, Hierarchy
<1>5. ASSUME NEW g \in AGs, NEW b \in Blocks, NEW r \in InodeType, Created(g, b, r)
      PROVE  Numbered'
  <2>1. Records' = Records \union {r}
    BY <1>5, CreatedRecords
  <2>2. /\ r.num = counter /\ counter' = counter + 1
        /\ r.parent = 0 \/ \E q \in Records : q.num = r.parent
    BY <1>5 DEF Created
  <2>3. \A q \in Records' : q.num \in FirstInode .. counter' - 1
    BY <1>1, <1>2, <1>5, <2>1, <2>2
  <2>4. \A q \in Records : q.num < counter
    BY <1>1, <1>2
  <2>5. \A q \in Records' :
          q.parent = 0 \/ \E p \in Records' : p.num = q.parent /\ p.num < q.num
    BY <1>1, <2>1, <2>2, <2>4
  <2>6. ASSUME NEW x \in AGs, NEW y \in AGs, NEW j \in DOMAIN inodes'[x], NEW k \in DOMAIN inodes'[y],
               inodes'[x][j].num = inodes'[y][k].num
        PROVE  x = y /\ j = k
    <3> DEFINE n == Len(inodes[g])
    <3>1. /\ \A h \in AGs \ {g} : inodes'[h] = inodes[h]
          /\ DOMAIN inodes'[g] = 1 .. n + 1
          /\ DOMAIN inodes[g] = 1 .. n /\ n \in Nat
          /\ \A i \in DOMAIN inodes[g] : inodes'[g][i] = inodes[g][i]
          /\ inodes'[g][n + 1] = r
      BY <1>5, CreatedSlots
    <3> HIDE DEF n, AGs, InodeType, Blocks
    <3>2. ASSUME NEW h \in AGs, NEW i \in DOMAIN inodes'[h]
          PROVE  \/ h = g /\ i = n + 1 /\ inodes'[h][i].num = counter
                 \/ /\ i \in DOMAIN inodes[h] /\ inodes'[h][i] = inodes[h][i]
                    /\ inodes'[h][i].num < counter
      <4>1. CASE h = g /\ i = n + 1
        BY <2>2, <3>1, <4>1
      <4>2. CASE ~(h = g /\ i = n + 1)
        <5>1. i \in DOMAIN inodes[h] /\ inodes'[h][i] = inodes[h][i]
          <6>1. CASE h # g
            BY <3>1, <6>1
          <6>2. CASE h = g
            <7>1. i \in 1 .. n
              BY <3>1, <4>2, <6>2
            <7>2. QED BY <3>1, <6>2, <7>1
          <6>3. QED BY <6>1, <6>2
        <5>2. inodes[h][i] \in Records
          BY <1>3, <5>1 DEF RecordsAreSlots
        <5>3. QED BY <2>4, <5>1, <5>2
      <4>3. QED BY <4>1, <4>2
    <3>3. CASE j \in DOMAIN inodes[x] /\ inodes'[x][j] = inodes[x][j] /\ inodes'[x][j].num < counter
      <4>1. k \in DOMAIN inodes[y] /\ inodes'[y][k] = inodes[y][k]
        <5>1. inodes'[y][k].num # counter
          <6>1. inodes[x][j].num \in Nat
            BY <1>2, <1>3, <3>3 DEF RecordsAreSlots
          <6>2. QED BY <1>2, <2>6, <3>3, <6>1
        <5>2. QED BY <3>2, <5>1
      <4>2. QED BY <1>1, <2>6, <3>3, <4>1
    <3>4. CASE x = g /\ j = n + 1 /\ inodes'[x][j].num = counter
      <4>1. y = g /\ k = n + 1
        <5>1. ~(counter < counter)
          BY <1>2
        <5>2. QED BY <2>6, <3>2, <3>4, <5>1
      <4>2. QED BY <3>4, <4>1
    <3>5. QED BY <3>2, <3>3, <3>4
  <2>7. QED
    <3>1. Hierarchy'
      BY <2>5, <2>6 DEF Hierarchy
    <3>2. counter' >= FirstInode
      BY <1>1, <1>2, <2>2
    <3>3. QED BY <2>3, <3>1, <3>2 DEF Numbered
<1>6. ASSUME NEW num \in Nat, NEW d \in Nat, Bound(num, d)
      PROVE  Numbered'
  <2>1. counter' = counter
    BY <1>6 DEF Bound
  <2>2. /\ \A g \in AGs : \A j \in DOMAIN inodes[g] : inodes[g][j].num = inodes'[g][j].num
        /\ \A q \in Records : \E r \in Records' : q.num = r.num /\ q.parent = r.parent
        /\ \A r \in Records' : \E q \in Records : q.num = r.num /\ q.parent = r.parent
    BY <1>6, BoundRecords DEF SameFile
  <2>3. \A g \in AGs : DOMAIN inodes'[g] = DOMAIN inodes[g]
    BY <1>6, BoundSlots
  <2>4. \A q \in Records' : q.num \in FirstInode .. counter' - 1
    BY <1>1, <2>1, <2>2
  <2>5. \A r \in Records' :
          r.parent = 0 \/ \E q \in Records' : q.num = r.parent /\ q.num < r.num
    BY <1>1, <2>2
  <2>6. \A g, h \in AGs : \A j \in DOMAIN inodes'[g], k \in DOMAIN inodes'[h] :
          inodes'[g][j].num = inodes'[h][k].num => g = h /\ j = k
    BY <1>1, <2>2, <2>3
  <2>7. Hierarchy'
    BY <2>5, <2>6 DEF Hierarchy
  <2>8. QED BY <1>1, <2>1, <2>4, <2>7 DEF Numbered
<1>7. QED
  BY <1>4, <1>5, <1>6 DEF TableStep, BindsEntry

LEMMA NodesStayTrue ==
  ASSUME NEW R, NEW S, \A q \in R : \E r \in S : SameFile(q, r), NEW n, TrueNode(R, n)
  PROVE  TrueNode(S, n)
<1>1. ASSUME NEW i \in DOMAIN n
      PROVE  \E r \in S : /\ r.num = n[i] /\ r.parent = InodeOf(SubSeq(n, 1, i - 1))
                          /\ r.name \notin {Dot, DotDot}
  <2>1. PICK q \in R : /\ q.num = n[i] /\ q.parent = InodeOf(SubSeq(n, 1, i - 1))
                       /\ q.name \notin {Dot, DotDot}
    BY DEF TrueNode
  <2>2. PICK r \in S : SameFile(q, r)
    OBVIOUS
  <2>3. QED BY <2>1, <2>2 DEF SameFile
<1>2. QED
  BY <1>1 DEF TrueNode

LEMMA HeldKept ==
  ASSUME TypeOK, TypeOK', HeldTrue, CurrentIsDir, TableStep, HeldStep
  PROVE  HeldTrue' /\ CurrentIsDir'
<1> DEFINE S == Records'
<1>1. \A q \in Records : \E r \in S : SameFile(q, r)
  BY FilesKept
<1> HIDE DEF S
<1>2. \A n : TrueNode(Records, n) => TrueNode(S, n)
  BY <1>1, NodesStayTrue
<1>3. TrueNode(S, vfs_current')
  BY <1>2 DEF HeldStep, HeldTrue, NewCurrent
<1>4. \A d \in Fds : fd_table'[d] # NoNode => TrueNode(S, fd_table'[d])
  BY <1>2 DEF HeldStep, HeldTrue
<1>5. vfs_current' = Root \/ \E r \in S : r.num = InodeOf(vfs_current') /\ r.type = "DIR"
  <2>1. vfs_current' = Root \/ \E r \in Records : r.num = InodeOf(vfs_current') /\ r.type = "DIR"
    BY DEF HeldStep, CurrentIsDir, NewCurrent
  <2>2. QED BY <1>1, <2>1 DEF SameFile
<1>6. QED
  BY <1>3, <1>4, <1>5 DEF S, HeldTrue, CurrentIsDir

LEMMA TreeInvKept ==
  ASSUME TreeInv, [Next]_vars
  PROVE  TreeInv'
<1>1. StepShape
  BY EveryStepHasShape
<1>2. TypeOK /\ BlocksAccounted /\ Numbered /\ HeldTrue /\ CurrentIsDir
  BY DEF TreeInv
<1>3. TypeOK'
  BY <1>1, <1>2, TypeKept
<1>4. TableStep /\ HeldStep /\ BootCounts'
  BY <1>1 DEF StepShape, FileStep, RestStep
<1>5. BlocksAccounted' /\ Numbered'
  BY <1>2, <1>3, <1>4, AccountsKept, NumberedKept
<1>6. HeldTrue' /\ CurrentIsDir'
  BY <1>2, <1>3, <1>4, HeldKept
<1>7. QED
  BY <1>3, <1>4, <1>5, <1>6 DEF TreeInv

LEMMA TreeInvInitially ==
  ASSUME Init
  PROVE  TreeInv
<1>1. /\ AgCount \in Nat /\ MaxFilesAg \in Nat /\ BlocksAg \in Nat /\ Pages \in Nat
      /\ MaxFd \in Nat
  BY NamespaceAssumption, Zenon
<1>2. TypeOK
  <2> HIDE DEF InodeType, AGs, Blocks, Fds, Name
  <2>1. inodes \in [AGs -> Seq(InodeType)]
    BY DEF Init
  <2>2. /\ inode_count \in [AGs -> 0 .. MaxFilesAg]
        /\ block_bitmap \in [AGs -> SUBSET Blocks]
        /\ free_blocks \in [AGs -> 0 .. BlocksAg]
    BY <1>1 DEF Init
  <2>3. counter \in Nat /\ pages \in 0 .. Pages /\ ops \in {"root_ops", "xfs_ops"}
    BY <1>1 DEF Init, FirstInode
  <2>4. list \in Seq(Name) /\ current_path \in Seq(Name) /\ vfs_current \in Seq(Nat)
    BY DEF Init, Root
  <2>5. DOMAIN fd_table = Fds /\ \A d \in Fds : IsNode(fd_table[d])
    BY DEF Init, IsNode
  <2>6. boot \in [stage : {"tree", "tar", "fb", "modules", "idle"}, at : Nat, part : Nat]
    BY DEF Init
  <2>7. QED BY <2>1, <2>2, <2>3, <2>4, <2>5, <2>6 DEF TypeOK
<1>3. \A g \in AGs : inodes[g] = <<>> /\ DOMAIN inodes[g] = {} /\ Len(inodes[g]) = 0
  BY DEF Init
<1>4. Records = {}
  BY <1>2, <1>3, RecordsType
<1>5. BlocksAccounted
  BY <1>1, <1>3 DEF Init, BlocksAccounted
<1>6. Numbered
  BY <1>3, <1>4 DEF Init, Numbered, Hierarchy, FirstInode
<1>7. HeldTrue
  BY RootIsTrue DEF Init, HeldTrue
<1>8. CurrentIsDir /\ BootCounts
  BY DEF Init, CurrentIsDir, BootCounts
<1>9. QED
  BY <1>2, <1>5, <1>6, <1>7, <1>8 DEF TreeInv

(* TreeInv holds throughout. *)
THEOREM TreeInvHolds == Spec => []TreeInv
<1>1. Init => TreeInv
  BY TreeInvInitially
<1>2. TreeInv /\ [Next]_vars => TreeInv'
  BY TreeInvKept
<1>3. QED
  BY <1>1, <1>2, PTL DEF Spec

-----------------------------------------------------------------------------
(* The invariants. *)

(* The state of the file tree has its declared type. *)
THEOREM TypeCorrect == Spec => []TypeOK
<1>1. TreeInv => TypeOK
  BY DEF TreeInv
<1>2. QED
  BY <1>1, TreeInvHolds, PTL

(* xfs_alloc_block and xfs_create_file keep the bitmap, the counts and the *)
(* records of each group in step.                                          *)
THEOREM BlocksAreAccounted == Spec => []BlocksAccounted
<1>1. TreeInv => BlocksAccounted
  BY DEF TreeInv
<1>2. QED
  BY <1>1, TreeInvHolds, PTL

LEMMA FullMeansFull ==
  ASSUME TypeOK, BlocksAccounted
  PROVE  NoSpaceMeansFull
<1>1. ASSUME NEW g \in AGs, Picked(g), inode_count[g] >= MaxFilesAg, NEW h \in AGs
      PROVE  inode_count[h] >= MaxFilesAg
  <2>1. MaxFilesAg \in Nat /\ BlocksAg \in Nat
    BY NamespaceAssumption, Zenon
  <2>2. /\ inode_count[g] \in 0 .. MaxFilesAg /\ inode_count[h] \in 0 .. MaxFilesAg
        /\ free_blocks[g] \in Nat /\ free_blocks[h] \in Nat
    BY <2>1 DEF TypeOK
  <2>3. free_blocks[g] = BlocksAg - inode_count[g] /\ free_blocks[h] = BlocksAg - inode_count[h]
    BY DEF BlocksAccounted
  <2>4. free_blocks[h] <= free_blocks[g]
    BY <1>1, <2>2 DEF Picked
  <2>5. QED BY <1>1, <2>1, <2>2, <2>3, <2>4
<1>2. QED BY <1>1 DEF NoSpaceMeansFull

(* xfs_pick_ag answers with a full group only when all groups are full. *)
THEOREM OneGroupIsEnough == Spec => []NoSpaceMeansFull
<1>1. ASSUME TreeInv PROVE NoSpaceMeansFull
  BY <1>1, FullMeansFull DEF TreeInv
<1>2. QED
  BY <1>1, TreeInvHolds, PTL

(* The inodes form a tree below the root. *)
THEOREM TreeHasNoLoop == Spec => []Hierarchy
<1>1. TreeInv => Hierarchy
  BY DEF TreeInv, Numbered
<1>2. QED
  BY <1>1, TreeInvHolds, PTL

(* What RecordOf gives for a number that is in use. *)
LEMMA RecordOfNumber ==
  ASSUME TypeOK, Numbered, NEW r \in Records
  PROVE  RecordOf(r.num) = r
<1>1. \A q \in Records : q.num = r.num => q = r
  BY NumbersAreUnique
<1>2. QED
  BY <1>1 DEF RecordOf

LEMMA EntriesFinite ==
  ASSUME TypeOK, Numbered, NEW dir, NEW name
  PROVE  IsFiniteSet(Entries(dir, name))
<1> DEFINE S == Entries(dir, name)
           T == FirstInode .. counter - 1
           f == [e \in S |-> inodes[e[1]][e[2]].num]
<1>1. \A e \in S : /\ e[1] \in AGs /\ e[2] \in DOMAIN inodes[e[1]] /\ e = <<e[1], e[2]>>
                   /\ inodes[e[1]][e[2]] \in Records
  BY EntryIsRecord
<1>2. \A e \in S : f[e] \in T
  BY <1>1 DEF Numbered
<1>3. \A d, e \in S : f[d] = f[e] => d = e
  <2>1. ASSUME NEW d \in S, NEW e \in S, f[d] = f[e] PROVE d = e
    <3>1. inodes[d[1]][d[2]].num = inodes[e[1]][e[2]].num
      BY <2>1
    <3>2. d[1] = e[1] /\ d[2] = e[2]
      BY <1>1, <3>1 DEF Numbered, Hierarchy
    <3>3. QED BY <1>1, <3>2
  <2>2. QED BY <2>1
<1>4. f \in Injection(S, T)
  <2>1. f \in [S -> T]
    BY <1>2
  <2> HIDE DEF f, S, T
  <2>2. QED BY <1>3, <2>1 DEF Injection, IsInjective
<1>5. IsFiniteSet(T)
  <2>1. FirstInode \in Int /\ counter - 1 \in Int
    BY DEF FirstInode, TypeOK
  <2>2. QED BY <2>1, FS_Interval
<1>6. IsFiniteSet(S)
  <2> HIDE DEF f, S, T
  <2> QED BY <1>4, <1>5, FS_Injection
<1>7. QED
  BY <1>6

(* One step along the printed path of the current directory. *)
LEMMA CwdStep ==
  ASSUME TypeOK, Numbered, TrueNode(Records, vfs_current),
         NEW i \in DOMAIN vfs_current, NEW pg \in Nat, pg # 0,
         Cardinality(Entries(InodeOf(SubSeq(vfs_current, 1, i - 1)), Cwd[i])) = 1
  PROVE  /\ Cwd[i] \in Name
         /\ Walk([node |-> SubSeq(vfs_current, 1, i - 1), pages |-> pg], Cwd[i])
             = [node |-> SubSeq(vfs_current, 1, i), pages |-> pg - 1]
<1> DEFINE v == vfs_current
           m == SubSeq(v, 1, i - 1)
           S == Entries(InodeOf(m), Cwd[i])
           e == FirstEntry(S)
<1>1. v \in Seq(Nat) /\ i \in 1 .. Len(v) /\ Len(v) \in Nat
  BY DEF TypeOK
<1>2. PICK r \in Records : r.num = v[i] /\ r.parent = InodeOf(m) /\ r.name \notin {Dot, DotDot}
  BY DEF TrueNode
<1>3. Cwd[i] = r.name
  BY <1>2, RecordOfNumber DEF Cwd
<1>4. Cwd[i] \in Name
  BY <1>2, <1>3, RecordsType DEF InodeType
<1>5. PICK g \in AGs : \E j \in DOMAIN inodes[g] : r = inodes[g][j]
  BY RecordsType
<1>6. PICK j \in DOMAIN inodes[g] : r = inodes[g][j]
  BY <1>5
<1>7. <<g, j>> \in S
  BY <1>2, <1>3, <1>6 DEF Entries
<1>8. e = <<g, j>>
  <2>1. \E x : S = {x}
    <3>1. IsFiniteSet(S)
      BY EntriesFinite
    <3> HIDE DEF S
    <3>2. Cardinality(S) = 1
      BY DEF S
    <3>3. QED BY <3>1, <3>2, FS_Singleton
  <2>2. e \in S
    BY <1>7, FirstEntryIsEntry
  <2>3. QED
    <3> HIDE DEF S, e
    <3> QED BY <1>7, <2>1, <2>2
<1>9. m \in Seq(Nat) /\ Append(m, v[i]) = SubSeq(v, 1, i)
  BY <1>1
<1>10. m # NoNode
  BY <1>9, NamespaceAssumption
<1>11. Walk([node |-> m, pages |-> pg], Cwd[i]) = Finddir([node |-> m, pages |-> pg], Cwd[i])
  <2> HIDE DEF m
  <2> QED BY <1>2, <1>3, <1>10 DEF Walk
<1>12. Finddir([node |-> m, pages |-> pg], Cwd[i]) = [node |-> Append(m, v[i]), pages |-> pg - 1]
  <2>1. S # {}
    BY <1>7
  <2>2. inodes[e[1]][e[2]].num = v[i]
    BY <1>2, <1>6, <1>8
  <2>3. Finddir([node |-> m, pages |-> pg], Cwd[i])
          = [node |-> Append(m, inodes[e[1]][e[2]].num), pages |-> pg - 1]
    <3> HIDE DEF m
    <3> QED BY <2>1 DEF Finddir
  <2>4. QED BY <2>2, <2>3
<1>13. QED
  BY <1>4, <1>9, <1>11, <1>12

LEMMA CwdIsPath ==
  ASSUME TypeOK, Numbered, TrueNode(Records, vfs_current)
  PROVE  Abs(Cwd) \in Path /\ Len(Cwd) = Len(vfs_current) /\ Len(Cwd) \in Nat
<1>1. vfs_current \in Seq(Nat) /\ DOMAIN vfs_current = 1 .. Len(vfs_current) /\ Len(vfs_current) \in Nat
  BY DEF TypeOK
<1>2. ASSUME NEW i \in DOMAIN vfs_current PROVE RecordOf(vfs_current[i]).name \in Name
  <2>1. PICK r \in Records : r.num = vfs_current[i]
    BY DEF TrueNode
  <2>2. QED BY <2>1, RecordOfNumber, RecordsType DEF InodeType
<1> HIDE DEF Name
<1>3. Cwd \in [1 .. Len(vfs_current) -> Name]
  BY <1>1, <1>2 DEF Cwd
<1>4. Cwd \in Seq(Name) /\ Len(Cwd) = Len(vfs_current)
  BY <1>1, <1>3
<1>5. QED
  BY <1>1, <1>4 DEF Abs, Path

LEMMA CwdLeads ==
  ASSUME TypeOK, Numbered, HeldTrue
  PROVE  CwdLeadsBack
<1> DEFINE v == vfs_current
           n == Len(v)
           path == Abs(Cwd)
<1>1. SUFFICES
        ASSUME \A i \in DOMAIN v :
                 Cardinality(Entries(InodeOf(SubSeq(v, 1, i - 1)), Cwd[i])) = 1
        PROVE  Lookup(path, Len(Cwd)).node = v
  BY DEF CwdLeadsBack
<1>2. TrueNode(Records, v) /\ v \in Seq(Nat) /\ DOMAIN v = 1 .. n /\ n \in Nat
  BY DEF HeldTrue, TypeOK
<1>3. path \in Path /\ Len(Cwd) = n /\ path.parts = Cwd /\ path.abs = TRUE
  BY <1>2, CwdIsPath DEF Abs
<1>4. From(path, n) = [node |-> SubSeq(v, 1, 0), pages |-> n]
  <2>1. SubSeq(v, 1, 0) = Root
    BY <1>2 DEF Root
  <2>2. QED BY <1>3, <2>1 DEF From
<1>5. PICK f \in [0 .. Len(path.parts) -> Reached(n)] : Leads(f, path, n)
  <2>1. From(path, n) \in Reached(n)
    BY <1>2, <1>3, FromIsTrue
  <2>2. \A s \in Reached(n) : \A part \in Name : Walk(s, part) \in Reached(n)
    BY <1>2, WalkIsTrue
  <2> HIDE DEF n, path
  <2>3. QED BY <1>3, <2>1, <2>2, LookupSteps, Zenon
<1> DEFINE At(i) == [node |-> SubSeq(v, 1, i), pages |-> n - i]
           S == {i \in 0 .. n : f[i] = At(i)}
<1>6. 0 \in S
  <2>1. At(0) = From(path, n)
    BY <1>2, <1>4
  <2>2. QED BY <1>2, <1>5, <2>1 DEF Leads
<1>7. ASSUME NEW i \in 1 .. n, i - 1 \in S PROVE i \in S
  <2>1. f[i - 1] = [node |-> SubSeq(v, 1, i - 1), pages |-> n - (i - 1)]
    BY <1>7
  <2>2. n - (i - 1) \in Nat /\ n - (i - 1) # 0 /\ n - (i - 1) - 1 = n - i
    BY <1>2
  <2>3. f[i] = Walk(f[i - 1], Cwd[i])
    BY <1>3, <1>5 DEF Leads
  <2>4. Walk(f[i - 1], Cwd[i]) = [node |-> SubSeq(v, 1, i), pages |-> n - (i - 1) - 1]
    <3>1. i \in DOMAIN v
      BY <1>2
    <3> HIDE DEF n
    <3>2. QED BY <1>1, <1>2, <2>1, <2>2, <3>1, CwdStep
  <2>5. QED BY <2>2, <2>3, <2>4
<1>8. n \in S
  <2> HIDE DEF S, n
  <2>1. \A i \in 0 .. n : i \in S
    BY <1>2, <1>6, <1>7, SetInduction
  <2>2. QED BY <1>2, <2>1
<1>9. QED
  <2>1. SubSeq(v, 1, n) = v
    BY <1>2
  <2>2. Lookup(path, n) = f[n]
    BY <1>3, <1>5 DEF Leads
  <2>3. QED BY <1>3, <1>8, <2>1, <2>2

(* The current directory and the open files are where the inode table says, *)
(* whatever was created since they were looked up.                          *)
THEOREM HeldNodesStayTrue == Spec => []HeldNodesAreTrue
<1>1. ASSUME TreeInv PROVE HeldNodesAreTrue
  <2>1. TypeOK /\ Numbered /\ HeldTrue /\ CurrentIsDir
    BY <1>1 DEF TreeInv
  <2>2. ASSUME NEW n \in ({vfs_current} \union {fd_table[d] : d \in Fds}) \ {NoNode},
               NEW i \in DOMAIN n
        PROVE  \E r \in Records : r.num = n[i] /\ r.parent = InodeOf(SubSeq(n, 1, i - 1))
    <3>1. TrueNode(Records, n)
      BY <2>1 DEF HeldTrue
    <3>2. QED BY <3>1 DEF TrueNode
  <2>3. TypeOfNode(vfs_current) = "DIR"
    <3>1. CASE vfs_current = Root
      BY <3>1 DEF TypeOfNode
    <3>2. CASE vfs_current # Root
      <4>1. PICK r \in Records : r.num = InodeOf(vfs_current) /\ r.type = "DIR"
        BY <2>1, <3>2 DEF CurrentIsDir
      <4>2. RecordOf(InodeOf(vfs_current)) = r
        BY <2>1, <4>1, RecordOfNumber
      <4>3. QED BY <3>2, <4>1, <4>2 DEF TypeOfNode
    <3>3. QED BY <3>1, <3>2
  <2>4. CwdLeadsBack
    BY <2>1, CwdLeads
  <2>5. QED BY <2>2, <2>3, <2>4 DEF HeldNodesAreTrue
<1>2. QED
  BY <1>1, TreeInvHolds, PTL

-----------------------------------------------------------------------------
(* mkdir. *)

(* A look-up that succeeds with fewer pages takes the same way with more. *)
LEMMA WalkWithMorePages ==
  ASSUME TypeOK, NEW pg \in Nat, NEW s \in Reached(pg), NEW d \in Nat, NEW part,
         Walk(s, part).node # NoNode
  PROVE  /\ s.node # NoNode
         /\ Walk([node |-> s.node, pages |-> s.pages + d], part)
             = [node |-> Walk(s, part).node, pages |-> Walk(s, part).pages + d]
<1> DEFINE t == [node |-> s.node, pages |-> s.pages + d]
<1>1. s = [node |-> s.node, pages |-> s.pages] /\ s.pages \in Nat
  BY DEF Reached
<1>2. s.node # NoNode
  BY DEF Walk
<1>3. t.node = s.node /\ t.pages = s.pages + d
  OBVIOUS
<1>4. CASE part = Dot
  BY <1>2, <1>4 DEF Walk
<1>5. CASE part # Dot /\ part = DotDot
  <2> DEFINE m == IF s.node = Root THEN Root ELSE Front(s.node)
  <2>1. Walk(s, part) = [s EXCEPT !.node = m] /\ Walk(t, part) = [t EXCEPT !.node = m]
    BY <1>2, <1>3, <1>5 DEF Walk
  <2> HIDE DEF m
  <2>2. Walk(s, part) = [node |-> m, pages |-> s.pages] /\ Walk(t, part) = [node |-> m, pages |-> s.pages + d]
    BY <1>1, <1>3, <2>1
  <2>3. QED BY <1>2, <2>2
<1>6. CASE part # Dot /\ part # DotDot
  <2> DEFINE S == Entries(InodeOf(s.node), part)
             e == FirstEntry(S)
             m == Append(s.node, inodes[e[1]][e[2]].num)
  <2>1. /\ Walk(s, part) = IF S = {} \/ s.pages = 0 THEN [s EXCEPT !.node = NoNode]
                           ELSE [node |-> m, pages |-> s.pages - 1]
        /\ Walk(t, part) = IF S = {} \/ t.pages = 0 THEN [t EXCEPT !.node = NoNode]
                           ELSE [node |-> m, pages |-> t.pages - 1]
    BY <1>2, <1>3, <1>6 DEF Walk, Finddir
  <2>2. ~(S = {} \/ s.pages = 0)
    <3>1. [s EXCEPT !.node = NoNode].node = NoNode
      BY <1>1
    <3>2. QED BY <2>1, <3>1
  <2> HIDE DEF S, m
  <2>3. Walk(s, part) = [node |-> m, pages |-> s.pages - 1]
    BY <2>1, <2>2
  <2>4. t.pages # 0 /\ t.pages - 1 = (s.pages - 1) + d
    BY <1>1, <1>3, <2>2
  <2>5. Walk(t, part) = [node |-> m, pages |-> (s.pages - 1) + d]
    BY <2>1, <2>2, <2>4
  <2>6. QED BY <1>2, <2>3, <2>5
<1>7. QED
  BY <1>4, <1>5, <1>6

LEMMA LookupHasSteps ==
  ASSUME TypeOK, HeldTrue, NEW pg \in Nat, NEW path \in Path
  PROVE  \E f \in [0 .. Len(path.parts) -> Reached(pg)] : Leads(f, path, pg)
<1>1. From(path, pg) \in Reached(pg)
  BY FromIsTrue
<1>2. \A s \in Reached(pg) : \A part \in Name : Walk(s, part) \in Reached(pg)
  BY WalkIsTrue
<1>3. QED
  BY <1>1, <1>2, LookupSteps, Zenon

LEMMA LookupWithMorePages ==
  ASSUME TypeOK, HeldTrue, NEW pg \in Nat, NEW d \in Nat, NEW path \in Path,
         Lookup(path, pg).node # NoNode
  PROVE  /\ Lookup(path, pg + d).node = Lookup(path, pg).node
         /\ Lookup(path, pg + d).pages = Lookup(path, pg).pages + d
<1> DEFINE n == Len(path.parts)
<1>1. n \in Nat /\ pg + d \in Nat
  BY DEF Path
<1>2. PICK f \in [0 .. n -> Reached(pg)] : Leads(f, path, pg)
  BY LookupHasSteps
<1>3. PICK h \in [0 .. n -> Reached(pg + d)] : Leads(h, path, pg + d)
  BY <1>1, LookupHasSteps
<1> DEFINE S == {i \in 0 .. n : f[i].node # NoNode =>
                   h[i] = [node |-> f[i].node, pages |-> f[i].pages + d]}
<1>4. 0 \in S
  <2>1. f[0] = From(path, pg) /\ h[0] = From(path, pg + d)
    BY <1>2, <1>3 DEF Leads
  <2>2. QED BY <1>1, <2>1 DEF From
<1>5. ASSUME NEW i \in 1 .. n, i - 1 \in S PROVE i \in S
  <2>1. f[i] = Walk(f[i - 1], path.parts[i]) /\ h[i] = Walk(h[i - 1], path.parts[i])
    BY <1>2, <1>3 DEF Leads
  <2>2. f[i - 1] \in Reached(pg) /\ i \in 0 .. n
    BY <1>1
  <2>3. CASE f[i].node # NoNode
    <3>1. /\ f[i - 1].node # NoNode
          /\ Walk([node |-> f[i - 1].node, pages |-> f[i - 1].pages + d], path.parts[i])
              = [node |-> f[i].node, pages |-> f[i].pages + d]
      BY <2>1, <2>2, <2>3, WalkWithMorePages
    <3>2. h[i - 1] = [node |-> f[i - 1].node, pages |-> f[i - 1].pages + d]
      BY <1>5, <3>1
    <3>3. QED BY <2>1, <2>2, <3>1, <3>2
  <2>4. QED BY <2>2, <2>3
<1>6. n \in S
  <2> HIDE DEF S, n
  <2>1. \A i \in 0 .. n : i \in S
    BY <1>1, <1>4, <1>5, SetInduction
  <2>2. QED BY <1>1, <2>1
<1>7. QED
  BY <1>2, <1>3, <1>6 DEF Leads

LEMMA FrontOf ==
  ASSUME NEW T, NEW s \in Seq(T), s # <<>>
  PROVE  /\ Front(s) \in Seq(T) /\ Len(Front(s)) = Len(s) - 1
         /\ \A i \in 1 .. Len(s) - 1 : Front(s)[i] = s[i]
<1>1. Len(s) \in Nat \ {0}
  OBVIOUS
<1>2. SubSeq(s, 1, Len(s) - 1) \in Seq(T)
  BY <1>1
<1>3. Len(SubSeq(s, 1, Len(s) - 1)) = Len(s) - 1
  <2>1. \A m \in 0 .. Len(s) : Len(SubSeq(s, 1, m)) = m
    <3>1. ASSUME NEW m \in 1 .. Len(s) PROVE Len(SubSeq(s, 1, m)) = m
      OBVIOUS
    <3>2. Len(SubSeq(s, 1, 0)) = 0
      OBVIOUS
    <3>3. QED BY <1>1, <3>1, <3>2
  <2>2. Len(s) - 1 \in 0 .. Len(s)
    BY <1>1
  <2>3. QED BY <2>1, <2>2, Zenon
<1>4. \A i \in 1 .. Len(s) - 1 : SubSeq(s, 1, Len(s) - 1)[i] = s[i]
  BY <1>1
<1>5. QED
  BY <1>2, <1>3, <1>4 DEF Front

(* A look-up goes to the parent of the path first, then one step. *)
LEMMA LookupByParent ==
  ASSUME TypeOK, HeldTrue, NEW pg \in Nat, NEW path \in Path, path.parts # <<>>
  PROVE  Lookup(path, pg) = Walk(ParentFor(path, pg), Last(path.parts))
<1> DEFINE n == Len(path.parts)
           front == [path EXCEPT !.parts = Front(@)]
<1>1. /\ n \in Nat \ {0} /\ path.parts \in Seq(Name) /\ Last(path.parts) = path.parts[n]
      /\ path = [abs |-> path.abs, parts |-> path.parts] /\ path.abs \in BOOLEAN
  BY DEF Path, Last
<1>2. PICK f \in [0 .. n -> Reached(pg)] : Leads(f, path, pg)
  BY LookupHasSteps
<1>3. Lookup(path, pg) = Walk(f[n - 1], Last(path.parts))
  BY <1>1, <1>2 DEF Leads
<1>4. CASE n = 1
  <2>1. ParentFor(path, pg) = From(path, pg)
    BY <1>4 DEF ParentFor, From
  <2>2. f[0] = From(path, pg)
    BY <1>2 DEF Leads
  <2>3. QED BY <1>3, <1>4, <2>1, <2>2
<1>5. CASE n # 1
  <2> HIDE DEF Name
  <2>1. /\ Front(path.parts) \in Seq(Name) /\ Len(Front(path.parts)) = n - 1
        /\ \A i \in 1 .. n - 1 : Front(path.parts)[i] = path.parts[i]
    BY <1>1, FrontOf
  <2>2. front \in Path /\ front.parts = Front(path.parts) /\ front.abs = path.abs
    BY <1>1, <2>1 DEF Path
  <2>3. ParentFor(path, pg) = Lookup(front, pg)
    <3>1. ~(Len(path.parts) <= 1)
      BY <1>1, <1>5
    <3>2. QED BY <3>1 DEF ParentFor
  <2> HIDE DEF front
  <2>4. PICK h \in [0 .. n - 1 -> Reached(pg)] : Leads(h, front, pg)
    BY <2>1, <2>2, LookupHasSteps
  <2> DEFINE S == {i \in 0 .. n - 1 : h[i] = f[i]}
  <2>5. 0 \in S
    BY <1>1, <1>2, <2>2, <2>4 DEF Leads, From
  <2>6. ASSUME NEW i \in 1 .. n - 1, i - 1 \in S PROVE i \in S
    <3>1. i \in 1 .. n
      BY <1>1
    <3>2. f[i] = Walk(f[i - 1], path.parts[i])
      BY <1>2, <3>1 DEF Leads
    <3>3. h[i] = Walk(h[i - 1], path.parts[i])
      BY <2>1, <2>2, <2>4 DEF Leads
    <3>4. QED BY <1>1, <2>6, <3>2, <3>3
  <2>7. n - 1 \in S
    <3> HIDE DEF S, n
    <3>1. \A i \in 0 .. n - 1 : i \in S
      <4>1. n - 1 \in Nat
        BY <1>1
      <4>2. QED BY <2>5, <2>6, <4>1, SetInduction
    <3>2. QED BY <1>1, <3>1
  <2>8. Lookup(front, pg) = h[n - 1]
    BY <2>1, <2>2, <2>4 DEF Leads
  <2>9. QED BY <1>3, <2>3, <2>7, <2>8
<1>6. QED
  BY <1>4, <1>5

LEMMA ParentWithMorePages ==
  ASSUME TypeOK, HeldTrue, NEW pg \in Nat, NEW d \in Nat, NEW path \in Path,
         ParentFor(path, pg).node # NoNode
  PROVE  /\ ParentFor(path, pg + d).node = ParentFor(path, pg).node
         /\ ParentFor(path, pg + d).pages = ParentFor(path, pg).pages + d
<1>1. CASE Len(path.parts) <= 1
  BY <1>1 DEF ParentFor
<1>2. CASE ~(Len(path.parts) <= 1)
  <2> DEFINE front == [path EXCEPT !.parts = Front(@)]
  <2>1. /\ path = [abs |-> path.abs, parts |-> path.parts]
        /\ path.parts \in Seq(Name) /\ path.abs \in BOOLEAN
    BY DEF Path
  <2> HIDE DEF Name
  <2>2. Front(path.parts) \in Seq(Name)
    BY <1>2, <2>1 DEF Front
  <2>3. front \in Path
    BY <2>1, <2>2 DEF Path
  <2>4. \A p : ParentFor(path, p) = Lookup(front, p)
    BY <1>2 DEF ParentFor
  <2> HIDE DEF front
  <2>5. ParentFor(path, pg) = Lookup(front, pg) /\ ParentFor(path, pg + d) = Lookup(front, pg + d)
    BY <2>4
  <2>6. Lookup(front, pg).node # NoNode
    BY <2>5
  <2>7. /\ Lookup(front, pg + d).node = Lookup(front, pg).node
        /\ Lookup(front, pg + d).pages = Lookup(front, pg).pages + d
    BY <2>3, <2>6, LookupWithMorePages
  <2>8. QED BY <2>5, <2>7
<1>3. QED
  BY <1>1, <1>2

(* vfs_mkdir looks before it creates, and the look-up of the parent that   *)
(* follows goes the same way.                                              *)
LEMMA MkdirNoTwin ==
  ASSUME TreeInv, TypeOK', NEW path \in Path, VfsMkdir(path), pages' > 0,
         \A i \in DOMAIN path.parts : Len(path.parts[i]) = 1,
         NEW r \in Records' \ Records, NEW q \in Records, q.parent = r.parent, q.name = r.name
  PROVE  FALSE
<1> DEFINE there == Lookup(path, pages)
           parent == ParentFor(path, there.pages)
           name == Last(path.parts)
<1>1. TypeOK /\ HeldTrue /\ BlocksAccounted /\ pages \in 0 .. Pages /\ pages \in Nat /\ Pages \in Nat
  BY PagesNow DEF TreeInv, TypeOK
<1>2. there \in Reached(pages) /\ there.pages \in 0 .. Pages /\ there.pages \in Nat /\ there.pages <= pages
  <2>1. there \in Reached(pages)
    BY <1>1, LookupIsTrue
  <2>2. QED BY <1>1, <2>1 DEF Reached
<1>3. ~UNCHANGED tables
  BY DEF tables, Records
<1>4. /\ there.node = NoNode /\ parent.node # NoNode /\ pages' = parent.pages
      /\ XfsCreateFile(NameIn(path), "DIR", InodeOf(parent.node))
  BY <1>3 DEF VfsMkdir
<1>5. path.parts # <<>>
  <2>1. CASE path.parts = <<>>
    <3>1. PICK f \in [0 .. Len(path.parts) -> Reached(pages)] : Leads(f, path, pages)
      BY <1>1, LookupHasSteps
    <3>2. there = From(path, pages)
      BY <2>1, <3>1 DEF Leads
    <3>3. Root \in Seq(Nat) /\ vfs_current \in Seq(Nat)
      BY <1>1 DEF Root, TypeOK
    <3>4. there.node \in Seq(Nat)
      <4>1. there.node = IF path.abs THEN Root ELSE vfs_current
        BY <3>2 DEF From
      <4>2. QED BY <3>3, <4>1, Zenon
    <3>5. QED BY <1>4, <3>4, NamespaceAssumption
  <2>2. QED BY <2>1
<1>6. parent \in Reached(there.pages) /\ NameIn(path) \in Name
  BY <1>1, <1>2, ParentForIsTrue
<1>7. TrueNode(Records, parent.node) /\ parent.pages \in Nat /\ parent.pages > 0
  BY <1>2, <1>4, <1>6 DEF Reached
<1> HIDE DEF there, parent, name
<1>8. PICK g \in AGs, b \in Blocks : Created(g, b, Inode(NameIn(path), "DIR", InodeOf(parent.node), b))
  BY <1>1, <1>3, <1>4, <1>6, <1>7, CreateFileStep
<1>9. r = Inode(NameIn(path), "DIR", InodeOf(parent.node), b)
  <2> DEFINE new == Inode(NameIn(path), "DIR", InodeOf(parent.node), b)
  <2>1. new \in InodeType
    BY <1>1, <1>6, <1>7, InodeIsTyped, TrueNodeInode
  <2> HIDE DEF new
  <2>2. Records' = Records \union {new}
    BY <1>1, <1>8, <2>1, CreatedRecords DEF new
  <2>3. QED BY <2>2 DEF new
<1>10. NameIn(path) = name /\ name \in Name /\ Clean(name) = name
  <2>1. path.parts \in Seq(Name) /\ Len(path.parts) \in DOMAIN path.parts
    BY <1>5 DEF Path
  <2>2. NameIn(path) = name /\ name = path.parts[Len(path.parts)]
    BY <1>5 DEF NameIn, name, Last
  <2>3. name \in Seq(Words) /\ Len(name) = 1
    BY <2>1, <2>2 DEF Name
  <2>4. <<name[1]>> = name /\ Head(name) = name[1]
    BY <2>3
  <2>5. QED BY <1>6, <2>2, <2>4 DEF Clean
<1>11. r.parent = InodeOf(parent.node) /\ r.name = name
  BY <1>9, <1>10 DEF Inode
<1> DEFINE pre == ParentFor(path, pages)
<1>12. pre.node = parent.node /\ pre.pages # 0
  <2> DEFINE d == pages - there.pages
  <2>1. d \in Nat /\ there.pages + d = pages
    BY <1>1, <1>2
  <2> HIDE DEF d
  <2>2. /\ ParentFor(path, there.pages + d).node = parent.node
        /\ ParentFor(path, there.pages + d).pages = parent.pages + d
    BY <1>1, <1>2, <1>4, <2>1, ParentWithMorePages DEF parent
  <2>3. QED BY <1>7, <2>1, <2>2
<1>13. there = Walk(pre, name)
  BY <1>1, <1>5, LookupByParent DEF there, name
<1>14. pre \in Reached(pages)
  BY <1>1, ParentForIsTrue
<1> HIDE DEF pre
<1>15. pre = [node |-> pre.node, pages |-> pre.pages] /\ pre.node \in Seq(Nat) /\ pre.node # NoNode
  BY <1>4, <1>7, <1>12, <1>14 DEF Reached, TrueNode
<1>16. name # Dot
  BY <1>4, <1>13, <1>15 DEF Walk
<1>17. name # DotDot
  <2>1. ASSUME name = DotDot PROVE FALSE
    <3> DEFINE m == IF pre.node = Root THEN Root ELSE Front(pre.node)
    <3>1. Walk(pre, name) = [pre EXCEPT !.node = m]
      BY <1>15, <1>16, <2>1 DEF Walk
    <3>2. TrueNode(Records, m)
      BY <1>7, <1>12, RootIsTrue, ParentIsTrue
    <3>3. m # NoNode
      <4> HIDE DEF m
      <4>1. m \in Seq(Nat)
        BY <3>2 DEF TrueNode
      <4>2. QED BY <4>1, NamespaceAssumption
    <3> HIDE DEF m
    <3>4. [pre EXCEPT !.node = m].node = m
      BY <1>15
    <3>5. QED BY <1>4, <1>13, <3>1, <3>3, <3>4
  <2>2. QED BY <2>1
<1> DEFINE S == Entries(InodeOf(pre.node), name)
<1>18. S = {}
  <2>1. CASE S # {}
    <3> DEFINE e == FirstEntry(S)
               rec == inodes[e[1]][e[2]]
               m == Append(pre.node, rec.num)
    <3>1. Walk(pre, name) = [node |-> m, pages |-> pre.pages - 1]
      BY <1>12, <1>15, <1>16, <1>17, <2>1 DEF Walk, Finddir
    <3>2. m # NoNode
      <4>1. e \in S
        BY <1>1, <2>1, FirstEntryIsEntry
      <4>2. rec \in Records
        BY <1>1, <4>1, EntryIsRecord
      <4> HIDE DEF rec
      <4>3. rec.num \in Nat
        BY <1>1, <4>2, RecordsType DEF InodeType
      <4>4. m \in Seq(Nat)
        BY <1>15, <4>3
      <4> HIDE DEF m
      <4>5. QED BY <4>4, NamespaceAssumption
    <3> HIDE DEF m
    <3>3. QED BY <1>4, <1>13, <3>1, <3>2
  <2>2. QED BY <2>1
<1>19. \E e : e \in S
  <2>1. PICK h \in AGs : \E j \in DOMAIN inodes[h] : q = inodes[h][j]
    BY <1>1, RecordsType
  <2>2. PICK j \in DOMAIN inodes[h] : q = inodes[h][j]
    BY <2>1
  <2>3. <<h, j>> \in S
    BY <1>11, <1>12, <2>2 DEF Entries
  <2>4. QED BY <2>3
<1>20. QED
  BY <1>18, <1>19

(* mkdir makes no second entry of a name in a directory. *)
THEOREM NoTwins == Spec => MkdirMakesNoTwin
<1>1. ASSUME TreeInv, [Next]_vars PROVE \A path \in Paths : NoTwin(path)
  <2>1. TypeOK'
    BY <1>1, TreeInvKept DEF TreeInv
  <2>2. ASSUME NEW path \in Paths PROVE NoTwin(path)
    <3>1. path \in Path
      BY NamespaceAssumption, Zenon
    <3>2. QED BY <1>1, <2>1, <3>1, MkdirNoTwin DEF NoTwin, Mkdir
  <2>3. QED BY <2>2
<1>2. QED
  BY <1>1, TreeInvHolds, PTL DEF Spec, MkdirMakesNoTwin

-----------------------------------------------------------------------------
(* The archive. *)

(* No path of the archive has a part that a look-up treats specially. *)
PlainArchive ==
  \A k \in DOMAIN Archive : \A i \in DOMAIN Archive[k].parts :
    Archive[k].parts[i] \notin {Dot, DotDot}

(* Node n goes, among the records R, along the first of the names parts. *)
Named(R, n, parts) ==
  /\ TrueNode(R, n) /\ Len(n) <= Len(parts)
  /\ \A i \in DOMAIN n : \E q \in R : q.num = n[i] /\ q.name = parts[i]

LEMMA WalkNamed ==
  ASSUME TypeOK, Numbered, NEW pg \in Nat, NEW s \in Reached(pg), NEW parts \in Seq(Name),
         NEW i \in 1 .. Len(parts), parts[i] \notin {Dot, DotDot},
         Walk(s, parts[i]).node # NoNode, Named(Records, s.node, parts), Len(s.node) = i - 1
  PROVE  /\ Named(Records, Walk(s, parts[i]).node, parts)
         /\ Len(Walk(s, parts[i]).node) = i
<1> DEFINE S == Entries(InodeOf(s.node), parts[i])
           e == FirstEntry(S)
           r == inodes[e[1]][e[2]]
           m == Append(s.node, r.num)
<1>1. s = [node |-> s.node, pages |-> s.pages]
  BY DEF Reached
<1>2. s.node # NoNode /\ s.node \in Seq(Nat) /\ DOMAIN s.node = 1 .. i - 1
  BY DEF Walk, Named, TrueNode
<1>3. Walk(s, parts[i]) = IF S = {} \/ s.pages = 0 THEN [s EXCEPT !.node = NoNode]
                          ELSE [node |-> m, pages |-> s.pages - 1]
  BY <1>2 DEF Walk, Finddir
<1>4. S # {} /\ Walk(s, parts[i]).node = m
  <2> HIDE DEF S, m
  <2>1. [s EXCEPT !.node = NoNode].node = NoNode
    BY <1>1
  <2>2. QED BY <1>3, <2>1
<1>5. r \in Records /\ r.parent = InodeOf(s.node) /\ r.name = parts[i]
  <2>1. e \in S
    BY <1>4, FirstEntryIsEntry
  <2>2. QED BY <2>1, EntryIsRecord
<1> HIDE DEF r
<1>6. r.num \in Nat
  BY <1>5, RecordsType DEF InodeType
<1>7. TrueNode(Records, m)
  BY <1>5, <1>6, ChildIsTrue DEF Named
<1>8. Len(m) = i /\ DOMAIN m = 1 .. i /\ m[i] = r.num /\ \A j \in 1 .. i - 1 : m[j] = s.node[j]
  BY <1>2, <1>6
<1>9. Len(parts) \in Nat /\ i <= Len(parts)
  OBVIOUS
<1> HIDE DEF m
<1>10. ASSUME NEW j \in DOMAIN m PROVE \E q \in Records : q.num = m[j] /\ q.name = parts[j]
  <2>1. CASE j = i
    BY <1>5, <1>8, <2>1
  <2>2. CASE j # i
    <3>1. j \in 1 .. i - 1
      BY <1>8, <2>2
    <3>2. \E q \in Records : q.num = s.node[j] /\ q.name = parts[j]
      BY <1>2, <3>1 DEF Named
    <3>3. QED BY <1>8, <3>1, <3>2
  <2>3. QED BY <2>1, <2>2
<1>11. QED
  BY <1>4, <1>7, <1>8, <1>9, <1>10 DEF Named

(* An absolute plain path leads to a node along its names. *)
LEMMA LookupNamed ==
  ASSUME TypeOK, Numbered, HeldTrue, NEW pg \in Nat, NEW parts \in Seq(Name),
         \A i \in DOMAIN parts : parts[i] \notin {Dot, DotDot},
         Lookup(Abs(parts), pg).node # NoNode
  PROVE  /\ Named(Records, Lookup(Abs(parts), pg).node, parts)
         /\ Len(Lookup(Abs(parts), pg).node) = Len(parts)
<1> DEFINE n == Len(parts)
<1>1. /\ Abs(parts) \in Path /\ Abs(parts).parts = parts /\ Abs(parts).abs = TRUE
      /\ n \in Nat /\ DOMAIN parts = 1 .. n
  BY DEF Abs, Path
<1>2. PICK f \in [0 .. n -> Reached(pg)] : Leads(f, Abs(parts), pg)
  BY <1>1, LookupHasSteps
<1> DEFINE Good(i) == Named(Records, f[i].node, parts) /\ Len(f[i].node) = i
           S == {i \in 0 .. n : f[i].node # NoNode => Good(i)}
<1>3. 0 \in S
  <2>1. f[0].node = Root
    BY <1>1, <1>2 DEF Leads, From
  <2>2. Len(Root) = 0 /\ DOMAIN Root = {}
    BY DEF Root
  <2>3. Named(Records, Root, parts)
    BY <1>1, <2>2, RootIsTrue DEF Named
  <2>4. QED BY <1>1, <2>1, <2>2, <2>3
<1>4. ASSUME NEW i \in 1 .. n, i - 1 \in S PROVE i \in S
  <2>1. f[i] = Walk(f[i - 1], parts[i])
    BY <1>1, <1>2 DEF Leads
  <2>2. f[i - 1] \in Reached(pg) /\ i \in 0 .. n
    BY <1>1
  <2>3. CASE f[i].node # NoNode
    <3>1. f[i - 1].node # NoNode
      BY <2>1, <2>3 DEF Walk
    <3>2. Good(i - 1)
      BY <1>4, <3>1
    <3>3. parts[i] \notin {Dot, DotDot}
      BY <1>1
    <3> HIDE DEF Name
    <3>4. Good(i)
      BY <2>1, <2>2, <2>3, <3>2, <3>3, WalkNamed
    <3>5. QED BY <2>2, <3>4
  <2>4. QED BY <2>2, <2>3
<1>5. n \in S
  <2> HIDE DEF S, n
  <2>1. \A i \in 0 .. n : i \in S
    BY <1>1, <1>3, <1>4, SetInduction
  <2>2. QED BY <1>1, <2>1
<1>6. QED
  BY <1>1, <1>2, <1>5 DEF Leads

(* The data of an entry is bound to the inode at the end of its names. *)
ArchiveInv ==
  \A r \in Records :
    r.data # 0 =>
      /\ r.data \in DOMAIN Archive
      /\ \E n : /\ Named(Records, n, Archive[r.data].parts)
               /\ Len(n) = Len(Archive[r.data].parts)
               /\ n # Root /\ InodeOf(n) = r.num

LEMMA NamedStays ==
  ASSUME NEW R, NEW S, \A q \in R : \E r \in S : SameFile(q, r), NEW n, NEW parts, Named(R, n, parts)
  PROVE  Named(S, n, parts)
<1>1. TrueNode(S, n)
  BY NodesStayTrue DEF Named
<1>2. ASSUME NEW i \in DOMAIN n PROVE \E r \in S : r.num = n[i] /\ r.name = parts[i]
  <2>1. PICK q \in R : q.num = n[i] /\ q.name = parts[i]
    BY DEF Named
  <2>2. QED BY <2>1 DEF SameFile
<1>3. QED
  BY <1>1, <1>2 DEF Named

LEMMA ArchiveInvKept ==
  ASSUME PlainArchive, TreeInv, ArchiveInv, [Next]_vars
  PROVE  ArchiveInv'
<1>1. TypeOK /\ Numbered /\ HeldTrue /\ BootCounts
  BY DEF TreeInv
<1>2. TypeOK'
  BY TreeInvKept DEF TreeInv
<1>3. TableStep
  BY EveryStepHasShape DEF StepShape, FileStep
<1> DEFINE S == Records'
<1>4. \A q \in Records : \E r \in S : SameFile(q, r)
  BY <1>1, <1>2, <1>3, FilesKept
<1> DEFINE Ends(R, num, k) ==
             /\ k \in DOMAIN Archive
             /\ \E n : /\ Named(R, n, Archive[k].parts)
                      /\ Len(n) = Len(Archive[k].parts) /\ n # Root /\ InodeOf(n) = num
<1>5. \A r \in Records : r.data # 0 => Ends(Records, r.num, r.data)
  BY DEF ArchiveInv
<1>6. \A num, k : Ends(Records, num, k) => Ends(S, num, k)
  <2> HIDE DEF S
  <2> QED BY <1>4, NamedStays
<1> HIDE DEF Ends
<1>7. SUFFICES ASSUME NEW r \in S, r.data # 0 PROVE Ends(S, r.num, r.data)
  BY DEF ArchiveInv, Ends
<1>8. CASE r \in Records
  BY <1>5, <1>6, <1>7, <1>8
<1>9. CASE UNCHANGED tables
  <2>1. S = Records
    BY <1>9 DEF tables, Records
  <2>2. QED BY <1>8, <2>1
<1>10. ASSUME NEW g \in AGs, NEW b \in Blocks, NEW new \in InodeType, Created(g, b, new)
       PROVE  Ends(S, r.num, r.data)
  <2>1. S = Records \union {new}
    BY <1>1, <1>2, <1>10, CreatedRecords
  <2>2. new.data = 0
    BY <1>10 DEF Created
  <2>3. QED BY <1>7, <1>8, <2>1, <2>2
<1>11. ASSUME NEW num \in Nat, NEW k \in Nat, BindsEntry(num, k)
       PROVE  Ends(S, r.num, r.data)
  <2> DEFINE n == Lookup(Abs(Parts), pages).node
  <2>1. /\ k = boot.at /\ k \in DOMAIN Archive /\ n # NoNode /\ num = InodeOf(n) /\ Bound(num, k)
    BY <1>11 DEF BindsEntry
  <2>2. PICK q \in Records : SameFile(q, r) /\ r.data = IF q.num = num THEN k ELSE q.data
    BY <1>1, <1>2, <2>1, BoundRecords
  <2>3. CASE q.num # num
    <3>1. q.data # 0 /\ r.data = q.data /\ r.num = q.num
      BY <1>7, <2>2, <2>3 DEF SameFile
    <3>2. QED BY <1>5, <1>6, <3>1
  <2>4. CASE q.num = num
    <3>1. r.num = num /\ r.data = k
      BY <2>2, <2>4 DEF SameFile
    <3>2. Parts \in Seq(Name) /\ Parts = Archive[k].parts
      <4> DEFINE E == [type : {"DIR", "FILE"}, parts : Seq(Name)]
      <4>1. Archive \in Seq(E)
        BY NamespaceAssumption
      <4>2. Archive[k] \in E
        <5> HIDE DEF E
        <5> QED BY <2>1, <4>1
      <4>3. QED BY <2>1, <4>2 DEF Parts
    <3>3. \A i \in DOMAIN Parts : Parts[i] \notin {Dot, DotDot}
      BY <2>1, <3>2 DEF PlainArchive
    <3>4. pages \in Nat
      BY <1>1, PagesNow
    <3>5. Named(Records, n, Parts) /\ Len(n) = Len(Parts)
      <4> HIDE DEF Parts, Name
      <4> QED BY <1>1, <2>1, <3>2, <3>3, <3>4, LookupNamed
    <3>6. n # Root
      <4>1. q.num \in FirstInode .. counter - 1
        BY <1>1 DEF Numbered
      <4>2. q.num # 0
        BY <4>1 DEF FirstInode
      <4>3. QED BY <2>1, <2>4, <4>2 DEF InodeOf
    <3> HIDE DEF n
    <3>7. Ends(Records, num, k)
      BY <2>1, <3>2, <3>5, <3>6 DEF Ends
    <3>8. QED BY <1>6, <3>1, <3>7
  <2>5. QED BY <2>3, <2>4
<1>12. QED
  BY <1>3, <1>9, <1>10, <1>11 DEF TableStep

(* The data of the archive is in the files that have its paths.  For an    *)
(* archive whose paths have no "." or "..", which name no file.            *)
THEOREM ArchiveStaysIntact ==
  ASSUME PlainArchive
  PROVE  Spec => []ArchiveIntact
<1>1. Init => ArchiveInv
  <2>1. ASSUME Init PROVE ArchiveInv
    <3>1. TypeOK
      BY <2>1, TreeInvInitially DEF TreeInv
    <3>2. \A g \in AGs : DOMAIN inodes[g] = {}
      BY <2>1 DEF Init
    <3>3. Records = {}
      BY <3>1, <3>2, RecordsType
    <3>4. QED BY <3>3 DEF ArchiveInv
  <2>2. QED BY <2>1
<1>2. TreeInv /\ ArchiveInv /\ [Next]_vars => ArchiveInv'
  BY ArchiveInvKept
<1>3. ASSUME TreeInv, ArchiveInv PROVE ArchiveIntact
  <2>1. TypeOK /\ Numbered
    BY <1>3 DEF TreeInv
  <2>2. ASSUME NEW r \in Records, r.data # 0
        PROVE  LET parts == Archive[r.data].parts
               IN \E n \in [1 .. Len(parts) -> Records] :
                    /\ n[Len(parts)] = r
                    /\ \A i \in DOMAIN n : /\ n[i].name = parts[i]
                                           /\ n[i].parent = IF i = 1 THEN 0 ELSE n[i - 1].num
    <3> DEFINE parts == Archive[r.data].parts
    <3>1. PICK c : /\ Named(Records, c, parts) /\ Len(c) = Len(parts)
                   /\ c # Root /\ InodeOf(c) = r.num
      BY <1>3, <2>2 DEF ArchiveInv
    <3> HIDE DEF parts
    <3>2. c \in Seq(Nat) /\ DOMAIN c = 1 .. Len(parts) /\ Len(parts) \in Nat \ {0}
      BY <3>1 DEF Named, TrueNode, Root
    <3> DEFINE n == [i \in 1 .. Len(parts) |-> RecordOf(c[i])]
    <3>3. ASSUME NEW i \in 1 .. Len(parts)
          PROVE  /\ n[i] \in Records /\ n[i].num = c[i] /\ n[i].name = parts[i]
                 /\ n[i].parent = InodeOf(SubSeq(c, 1, i - 1))
      <4>1. PICK q \in Records : q.num = c[i] /\ q.name = parts[i]
        BY <3>1, <3>2 DEF Named
      <4>2. PICK p \in Records : p.num = c[i] /\ p.parent = InodeOf(SubSeq(c, 1, i - 1))
        BY <3>1, <3>2 DEF Named, TrueNode
      <4>3. RecordOf(c[i]) = q /\ RecordOf(c[i]) = p
        BY <2>1, <4>1, <4>2, RecordOfNumber
      <4>4. QED BY <4>1, <4>2, <4>3
    <3>4. n \in [1 .. Len(parts) -> Records] /\ DOMAIN n = 1 .. Len(parts)
      BY <3>3
    <3>5. n[Len(parts)] = r
      <4>1. Len(parts) \in 1 .. Len(parts)
        BY <3>2
      <4>2. n[Len(parts)].num = r.num
        BY <3>1, <3>2, <3>3, <4>1 DEF InodeOf, Last
      <4>3. n[Len(parts)] \in Records
        BY <3>3, <4>1
      <4> HIDE DEF n
      <4>4. QED BY <2>1, <4>2, <4>3, NumbersAreUnique
    <3>6. ASSUME NEW i \in 1 .. Len(parts)
          PROVE  n[i].parent = IF i = 1 THEN 0 ELSE n[i - 1].num
      <4>1. CASE i = 1
        <5>1. SubSeq(c, 1, i - 1) = Root
          BY <3>2, <4>1 DEF Root
        <5>2. n[i].parent = 0
          BY <3>3, <5>1 DEF InodeOf
        <5>3. QED BY <4>1, <5>2
      <4>2. CASE i # 1
        <5>1. /\ SubSeq(c, 1, i - 1) # Root /\ Last(SubSeq(c, 1, i - 1)) = c[i - 1]
              /\ i - 1 \in 1 .. Len(parts)
          BY <3>1, <3>2, <4>2 DEF Root, Last
        <5>2. n[i].parent = c[i - 1]
          BY <3>3, <5>1 DEF InodeOf
        <5>3. n[i - 1].num = c[i - 1]
          BY <3>3, <5>1
        <5>4. QED BY <4>2, <5>2, <5>3
      <4>3. QED BY <4>1, <4>2
    <3> HIDE DEF n
    <3>7. \E h \in [1 .. Len(parts) -> Records] :
            /\ h[Len(parts)] = r
            /\ \A i \in DOMAIN h : /\ h[i].name = parts[i]
                                   /\ h[i].parent = IF i = 1 THEN 0 ELSE h[i - 1].num
      BY <3>3, <3>4, <3>5, <3>6
    <3>8. QED BY <3>7 DEF parts
  <2>3. QED BY <2>2 DEF ArchiveIntact
<1>4. QED
  BY <1>1, <1>2, <1>3, TreeInvHolds, PTL DEF Spec

-----------------------------------------------------------------------------
(* The unpacking of the archive: while boot goes through it, the path of   *)
(* each file is free but for directories until its entry is unpacked       *)
(* (RecordFits), what of the current path has been made is found           *)
(* (Progress), and the entries before it have their data (LoadedUpTo).     *)

PathOf(k) == Archive[k].parts

(* An entry that unpacks: its path has no blank. *)
Unpacks(k) == Archive[k].type = "FILE" /\ \A i \in DOMAIN PathOf(k) : Len(PathOf(k)[i]) = 1

(* xfs_create_file stores the path of entry e in the directory of path f, or *)
(* under the same name.                                                      *)
Under(f, e) ==
  /\ Len(PathOf(f)) <= Len(PathOf(e))
  /\ \A i \in 1 .. Len(PathOf(f)) : Clean(PathOf(f)[i]) = Clean(PathOf(e)[i])

(* The archive is a tree: a file comes once and has nothing below it. *)
TreeArchive ==
  /\ \A k \in DOMAIN Archive : Unpacks(k) =>
       PathOf(k) # <<>> /\ \A i \in DOMAIN PathOf(k) : Head(PathOf(k)[i]) # ""
  /\ \A f, e \in DOMAIN Archive : Archive[f].type = "FILE" /\ f # e => ~Under(f, e)

Full == \A g \in AGs : inode_count[g] = MaxFilesAg

(* Entry k has not been created yet. *)
Pending(k) == k > boot.at \/ (k = boot.at /\ boot.part <= Len(PathOf(k)))

(* Along the path of a file there are directories only, and the file itself *)
(* only after its entry was unpacked.                                       *)
RecordFits(r) ==
  /\ Len(r.name) = 1
  /\ \A k \in DOMAIN Archive : Unpacks(k) =>
       \A n : Named(Records, n, PathOf(k)) /\ n # Root /\ InodeOf(n) = r.num =>
         \/ Len(n) < Len(PathOf(k)) /\ r.type = "DIR"
         \/ Len(n) = Len(PathOf(k)) /\ ~Pending(k)

(* A look-up of the path succeeds if there are pages enough. *)
Found(parts) == \E pg \in Nat : Lookup(Abs(parts), pg).node # NoNode

(* The part of the path of the current entry that is there. *)
Progress ==
  boot.at \in DOMAIN Archive /\ Unpacks(boot.at) =>
    /\ boot.part <= Len(Parts) + 1
    /\ Found(SubSeq(Parts, 1, boot.part - 1))

LoadedUpTo(m) ==
  \A k \in DOMAIN Archive : Unpacks(k) /\ k < m => \E r \in Records : r.data = k

Loading == (\A r \in Records : RecordFits(r)) /\ Progress /\ LoadedUpTo(boot.at)

LoadInv ==
  \/ boot.stage = "tree" /\ Records = {}
  \/ boot.stage = "tar" /\ (pages = 0 \/ Full \/ Loading)
  \/ boot.stage \in {"fb", "modules", "idle"} /\ (pages = 0 \/ Full \/ LoadedUpTo(Len(Archive) + 1))

LEMMA EntryTyped ==
  ASSUME NEW k \in DOMAIN Archive
  PROVE  /\ PathOf(k) \in Seq(Name) /\ Len(PathOf(k)) \in Nat
         /\ Archive[k].type \in {"DIR", "FILE"}
         /\ k \in 1 .. Len(Archive) /\ k \in Nat /\ Len(Archive) \in Nat
<1> DEFINE E == [type : {"DIR", "FILE"}, parts : Seq(Name)]
<1>1. Archive \in Seq(E)
  BY NamespaceAssumption
<1>2. Archive[k] \in E /\ k \in 1 .. Len(Archive) /\ k \in Nat /\ Len(Archive) \in Nat
  <2> HIDE DEF E
  <2> QED BY <1>1
<1>3. QED
  BY <1>2 DEF PathOf

-----------------------------------------------------------------------------
(* Nodes. *)

LEMMA NodeEnds ==
  ASSUME NEW R, NEW n, TrueNode(R, n), n # Root
  PROVE  /\ n \in Seq(Nat) /\ Len(n) \in Nat \ {0} /\ Front(n) \in Seq(Nat)
         /\ Len(Front(n)) = Len(n) - 1 /\ \A i \in 1 .. Len(n) - 1 : Front(n)[i] = n[i]
         /\ InodeOf(n) = n[Len(n)] /\ Front(n) = SubSeq(n, 1, Len(n) - 1)
         /\ \E r \in R : /\ r.num = InodeOf(n) /\ r.parent = InodeOf(Front(n))
                        /\ r.name \notin {Dot, DotDot}
<1>1. n \in Seq(Nat) /\ Len(n) \in Nat \ {0} /\ n # <<>>
  BY DEF TrueNode, Root
<1>2. /\ Front(n) \in Seq(Nat) /\ Len(Front(n)) = Len(n) - 1
      /\ \A i \in 1 .. Len(n) - 1 : Front(n)[i] = n[i]
  BY <1>1, FrontOf
<1>3. InodeOf(n) = n[Len(n)] /\ Front(n) = SubSeq(n, 1, Len(n) - 1)
  BY DEF InodeOf, Last, Front
<1>4. Len(n) \in DOMAIN n
  BY <1>1
<1>5. QED
  BY <1>1, <1>2, <1>3, <1>4 DEF TrueNode

(* Different nodes are different inodes: the parent of an inode is older. *)
LEMMA OneNodePerInode ==
  ASSUME TypeOK, Numbered, NEW m, TrueNode(Records, m), NEW n, TrueNode(Records, n),
         InodeOf(m) = InodeOf(n)
  PROVE  m = n
<1> DEFINE Two(i) == \E a, b : /\ TrueNode(Records, a) /\ TrueNode(Records, b)
                              /\ InodeOf(a) = i /\ InodeOf(b) = i /\ a # b
           T == {i \in Nat : Two(i)}
<1>1. SUFFICES ASSUME T # {} PROVE FALSE
  <2>1. InodeOf(m) \in Nat
    BY TrueNodeInode
  <2>2. m # n => InodeOf(m) \in T
    BY <2>1
  <2>3. QED BY <2>2
<1>2. PICK i \in T : \A k \in T : i <= k
  BY <1>1, LeastElement
<1>3. PICK a, b : /\ TrueNode(Records, a) /\ TrueNode(Records, b)
                  /\ InodeOf(a) = i /\ InodeOf(b) = i /\ a # b
  BY <1>2
<1>4. \A c : TrueNode(Records, c) /\ c # Root => InodeOf(c) >= FirstInode /\ InodeOf(c) \in Nat
  <2>1. ASSUME NEW c, TrueNode(Records, c), c # Root
        PROVE  InodeOf(c) >= FirstInode /\ InodeOf(c) \in Nat
    <3>1. PICK q \in Records : q.num = InodeOf(c)
      BY <2>1, TrueNodeInode
    <3>2. q.num \in FirstInode .. counter - 1 /\ counter \in Nat /\ FirstInode \in Nat
      BY DEF Numbered, TypeOK, FirstInode
    <3>3. QED BY <3>1, <3>2
  <2>2. QED BY <2>1
<1>5. a # Root /\ b # Root
  <2>1. InodeOf(Root) = 0
    BY DEF InodeOf
  <2>2. ~(0 >= FirstInode)
    BY DEF FirstInode
  <2>3. QED BY <1>3, <1>4, <2>1, <2>2
<1>6. ASSUME NEW c, TrueNode(Records, c), c # Root
      PROVE  /\ c \in Seq(Nat) /\ Len(c) \in Nat \ {0}
             /\ Len(Front(c)) = Len(c) - 1 /\ (\A j \in 1 .. Len(c) - 1 : Front(c)[j] = c[j])
             /\ InodeOf(c) = c[Len(c)]
             /\ \E r \in Records : r.num = InodeOf(c) /\ r.parent = InodeOf(Front(c))
  <2>1. /\ c \in Seq(Nat) /\ Len(c) \in Nat \ {0}
        /\ Len(Front(c)) = Len(c) - 1 /\ (\A j \in 1 .. Len(c) - 1 : Front(c)[j] = c[j])
        /\ InodeOf(c) = c[Len(c)]
    BY <1>6, NodeEnds
  <2>2. \E r \in Records : /\ r.num = InodeOf(c) /\ r.parent = InodeOf(Front(c))
                           /\ r.name \notin {Dot, DotDot}
    BY <1>6, NodeEnds, Zenon
  <2>3. QED BY <2>1, <2>2
<1>7. InodeOf(a) = i /\ InodeOf(b) = i
  BY <1>3
<1>8. PICK r \in Records : r.num = i /\ r.parent = InodeOf(Front(a))
  BY <1>3, <1>5, <1>6
<1>9. r.parent = InodeOf(Front(b))
  <2>1. PICK q \in Records : q.num = i /\ q.parent = InodeOf(Front(b))
    BY <1>3, <1>5, <1>6
  <2>2. q = r
    BY <1>8, <2>1, NumbersAreUnique
  <2>3. QED BY <2>1, <2>2
<1>10. TrueNode(Records, Front(a)) /\ TrueNode(Records, Front(b)) /\ r.parent \in Nat
  BY <1>3, <1>5, <1>8, ParentIsTrue, TrueNodeInode
<1>11. r.parent < i
  <2>1. r.parent = 0 \/ \E q \in Records : q.num = r.parent /\ q.num < r.num
    BY DEF Numbered, Hierarchy
  <2>2. i > 0
    <3>1. i >= FirstInode
      BY <1>3, <1>4, <1>5
    <3>2. QED BY <1>2, <3>1 DEF FirstInode
  <2>3. QED BY <1>8, <2>1, <2>2
<1>12. Front(a) = Front(b)
  <2>1. r.parent \notin T
    <3> HIDE DEF T
    <3>1. i \in Nat
      BY <1>2 DEF T
    <3>2. r.parent \in T => i <= r.parent
      BY <1>2
    <3>3. QED BY <1>10, <1>11, <3>1, <3>2
  <2>2. QED BY <1>8, <1>9, <1>10, <2>1
<1>13. /\ a \in Seq(Nat) /\ Len(a) \in Nat \ {0} /\ Len(Front(a)) = Len(a) - 1
       /\ (\A j \in 1 .. Len(a) - 1 : Front(a)[j] = a[j]) /\ a[Len(a)] = i
  BY <1>3, <1>5, <1>6
<1>14. /\ b \in Seq(Nat) /\ Len(b) \in Nat \ {0} /\ Len(Front(b)) = Len(b) - 1
       /\ (\A j \in 1 .. Len(b) - 1 : Front(b)[j] = b[j]) /\ b[Len(b)] = i
  BY <1>3, <1>5, <1>6
<1>15. Len(a) = Len(b)
  BY <1>12, <1>13, <1>14
<1>16. \A j \in 1 .. Len(a) : a[j] = b[j]
  <2>1. ASSUME NEW j \in 1 .. Len(a) PROVE a[j] = b[j]
    <3>1. CASE j = Len(a)
      BY <1>13, <1>14, <1>15, <3>1
    <3>2. CASE j # Len(a)
      <4>1. j \in 1 .. Len(a) - 1
        BY <1>13, <3>2
      <4>2. QED BY <1>12, <1>13, <1>14, <1>15, <4>1
    <3>3. QED BY <3>1, <3>2
  <2>2. QED BY <2>1
<1>17. QED
  BY <1>3, <1>13, <1>14, <1>15, <1>16

(* vfs_lookup of a path goes by the path of its directory. *)
LEMMA LookupRoot ==
  ASSUME TypeOK, HeldTrue, NEW pg \in Nat
  PROVE  Lookup(Abs(<<>>), pg) = [node |-> Root, pages |-> pg]
<1>1. Abs(<<>>) \in Path /\ Abs(<<>>).parts = <<>> /\ Abs(<<>>).abs
  BY DEF Abs, Path
<1>2. PICK f \in [0 .. Len(Abs(<<>>).parts) -> Reached(pg)] : Leads(f, Abs(<<>>), pg)
  BY <1>1, LookupHasSteps
<1>3. Len(Abs(<<>>).parts) = 0
  BY <1>1
<1>4. QED
  BY <1>1, <1>2, <1>3 DEF Leads, From

LEMMA ParentByFront ==
  ASSUME TypeOK, HeldTrue, NEW pg \in Nat, NEW parts \in Seq(Name), parts # <<>>
  PROVE  /\ Front(parts) \in Seq(Name) /\ Abs(parts) \in Path /\ Abs(Front(parts)) \in Path
         /\ ParentFor(Abs(parts), pg) = Lookup(Abs(Front(parts)), pg)
         /\ Lookup(Abs(parts), pg) = Walk(Lookup(Abs(Front(parts)), pg), Last(parts))
         /\ NameIn(Abs(parts)) = Last(parts) /\ Last(parts) \in Name
<1> HIDE DEF Name
<1>1. Front(parts) \in Seq(Name) /\ Len(Front(parts)) = Len(parts) - 1 /\ Len(parts) \in Nat \ {0}
  BY FrontOf
<1>2. /\ Abs(parts) \in Path /\ Abs(parts).parts = parts /\ Abs(parts).abs = TRUE
      /\ Abs(Front(parts)) \in Path
  BY <1>1 DEF Abs, Path
<1>3. ParentFor(Abs(parts), pg) = Lookup(Abs(Front(parts)), pg)
  <2>1. CASE Len(parts) <= 1
    <3>1. Front(parts) = <<>>
      BY <1>1, <2>1
    <3>2. ParentFor(Abs(parts), pg) = [node |-> Root, pages |-> pg]
      BY <1>2, <2>1 DEF ParentFor
    <3>3. QED BY <3>1, <3>2, LookupRoot
  <2>2. CASE ~(Len(parts) <= 1)
    <3>1. ParentFor(Abs(parts), pg) = Lookup([Abs(parts) EXCEPT !.parts = Front(Abs(parts).parts)], pg)
      BY <1>2, <2>2 DEF ParentFor
    <3>2. [Abs(parts) EXCEPT !.parts = Front(Abs(parts).parts)] = Abs(Front(parts))
      <4> DEFINE path == Abs(parts)
                 front == Front(parts)
                 changed == [path EXCEPT !.parts = front]
      <4>1. path \in Path /\ path.abs = TRUE /\ front \in Seq(Name)
        BY <1>1, <1>2
      <4> HIDE DEF path, front
      <4>2. changed \in Path /\ changed.abs = TRUE /\ changed.parts = front
        BY <4>1 DEF Path
      <4>3. changed = [abs |-> changed.abs, parts |-> changed.parts]
        <5> HIDE DEF changed
        <5> QED BY <4>2 DEF Path
      <4>4. QED BY <1>2, <4>2, <4>3 DEF Abs, path, front
    <3>3. QED BY <3>1, <3>2
  <2>3. QED BY <2>1, <2>2
<1>4. Lookup(Abs(parts), pg) = Walk(ParentFor(Abs(parts), pg), Last(parts))
  BY <1>2, LookupByParent
<1>5. NameIn(Abs(parts)) = Last(parts) /\ Last(parts) \in Name
  BY <1>1, <1>2 DEF NameIn, Last
<1>6. QED
  BY <1>1, <1>2, <1>3, <1>4, <1>5

(* t is where s is, or has missed a name for want of a page. *)
Behind(t, s) == t.node = s.node \/ (t.node = NoNode /\ t.pages = 0)

LEMMA WalkBehind ==
  ASSUME TypeOK, NEW pg \in Nat, NEW q \in Nat, NEW s \in Reached(q), NEW t \in Reached(pg),
         NEW part, Behind(t, s), Walk(s, part).node # NoNode
  PROVE  s.node # NoNode /\ Behind(Walk(t, part), Walk(s, part))
<1>1. /\ s = [node |-> s.node, pages |-> s.pages] /\ t = [node |-> t.node, pages |-> t.pages]
      /\ s.pages \in Nat /\ t.pages \in Nat
  BY DEF Reached
<1>2. s.node # NoNode
  BY DEF Walk
<1>3. CASE t.node = NoNode
  <2>1. Walk(t, part) = t
    BY <1>3 DEF Walk
  <2>2. t.pages = 0
    BY <1>2, <1>3 DEF Behind
  <2>3. QED BY <1>2, <1>3, <2>1, <2>2 DEF Behind
<1>4. CASE t.node # NoNode
  <2>1. t.node = s.node
    BY <1>4 DEF Behind
  <2>2. CASE part = Dot
    BY <1>2, <2>1, <2>2 DEF Walk, Behind
  <2>3. CASE part # Dot /\ part = DotDot
    <3> DEFINE m == IF s.node = Root THEN Root ELSE Front(s.node)
    <3>1. Walk(s, part) = [s EXCEPT !.node = m] /\ Walk(t, part) = [t EXCEPT !.node = m]
      BY <1>2, <2>1, <2>3 DEF Walk
    <3> HIDE DEF m
    <3>2. [s EXCEPT !.node = m].node = m /\ [t EXCEPT !.node = m].node = m
      BY <1>1
    <3>3. QED BY <1>2, <3>1, <3>2 DEF Behind
  <2>4. CASE part # Dot /\ part # DotDot
    <3> DEFINE E == Entries(InodeOf(s.node), part)
               m == Append(s.node, inodes[FirstEntry(E)[1]][FirstEntry(E)[2]].num)
    <3>1. /\ Walk(s, part) = IF E = {} \/ s.pages = 0 THEN [s EXCEPT !.node = NoNode]
                             ELSE [node |-> m, pages |-> s.pages - 1]
          /\ Walk(t, part) = IF E = {} \/ t.pages = 0 THEN [t EXCEPT !.node = NoNode]
                             ELSE [node |-> m, pages |-> t.pages - 1]
      BY <1>2, <2>1, <2>4 DEF Walk, Finddir
    <3> HIDE DEF E, m
    <3>2. [s EXCEPT !.node = NoNode].node = NoNode
      BY <1>1
    <3>3. [t EXCEPT !.node = NoNode].node = NoNode /\ [t EXCEPT !.node = NoNode].pages = t.pages
      BY <1>1
    <3>4. E # {} /\ Walk(s, part).node = m
      BY <3>1, <3>2
    <3>5. CASE t.pages = 0
      BY <1>2, <3>1, <3>3, <3>5 DEF Behind
    <3>6. CASE t.pages # 0
      BY <1>2, <3>1, <3>4, <3>6 DEF Behind
    <3>7. QED BY <3>5, <3>6
  <2>5. QED BY <2>2, <2>3, <2>4
<1>5. QED
  BY <1>3, <1>4

(* If a path leads somewhere, another look-up of it goes to the same node or *)
(* runs out of pages.                                                        *)
LEMMA LookupsAgree ==
  ASSUME TypeOK, HeldTrue, NEW pg \in Nat, NEW q \in Nat, NEW path \in Path,
         Lookup(path, q).node # NoNode
  PROVE  Behind(Lookup(path, pg), Lookup(path, q))
<1> DEFINE n == Len(path.parts)
<1>1. n \in Nat
  BY DEF Path
<1>2. PICK f \in [0 .. n -> Reached(q)] : Leads(f, path, q)
  BY LookupHasSteps
<1>3. PICK h \in [0 .. n -> Reached(pg)] : Leads(h, path, pg)
  BY LookupHasSteps
<1> DEFINE S == {i \in 0 .. n : f[i].node # NoNode => Behind(h[i], f[i])}
<1>4. 0 \in S
  <2>1. f[0] = From(path, q) /\ h[0] = From(path, pg)
    BY <1>2, <1>3 DEF Leads
  <2>2. QED BY <1>1, <2>1 DEF From, Behind
<1>5. ASSUME NEW i \in 1 .. n, i - 1 \in S PROVE i \in S
  <2>1. f[i] = Walk(f[i - 1], path.parts[i]) /\ h[i] = Walk(h[i - 1], path.parts[i])
    BY <1>2, <1>3 DEF Leads
  <2>2. f[i - 1] \in Reached(q) /\ h[i - 1] \in Reached(pg) /\ i \in 0 .. n
    BY <1>1
  <2>3. CASE f[i].node # NoNode
    <3>1. f[i - 1].node # NoNode
      BY <2>1, <2>3 DEF Walk
    <3>2. Behind(h[i - 1], f[i - 1])
      BY <1>5, <3>1
    <3>3. Behind(Walk(h[i - 1], path.parts[i]), Walk(f[i - 1], path.parts[i]))
      <4> DEFINE s == f[i - 1]
                 t == h[i - 1]
                 part == path.parts[i]
      <4>1. s \in Reached(q) /\ t \in Reached(pg) /\ Behind(t, s) /\ Walk(s, part).node # NoNode
        BY <2>1, <2>2, <2>3, <3>2
      <4> HIDE DEF s, t, part
      <4>2. Behind(Walk(t, part), Walk(s, part))
        BY <4>1, WalkBehind
      <4>3. QED BY <4>2 DEF s, t, part
    <3>4. QED BY <2>1, <2>2, <3>3
  <2>4. QED BY <2>2, <2>3
<1>6. n \in S
  <2> HIDE DEF S, n
  <2>1. \A i \in 0 .. n : i \in S
    BY <1>1, <1>4, <1>5, SetInduction
  <2>2. QED BY <1>1, <2>1
<1>7. QED
  BY <1>2, <1>3, <1>6 DEF Leads

(* The inodes along a plain path get younger. *)
LEMMA InodesAscend ==
  ASSUME TypeOK, Numbered, NEW pg \in Nat, NEW parts \in Seq(Name),
         \A i \in DOMAIN parts : parts[i] \notin {Dot, DotDot},
         NEW f \in [0 .. Len(parts) -> Reached(pg)], Leads(f, Abs(parts), pg),
         f[Len(parts)].node # NoNode, NEW i \in 0 .. Len(parts) - 1
  PROVE  f[i].node # NoNode /\ InodeOf(f[i].node) < InodeOf(f[Len(parts)].node)
<1> DEFINE n == Len(parts)
           Ino(j) == InodeOf(f[j].node)
           S == {j \in 0 .. n : f[j].node # NoNode =>
                   \A l \in 0 .. j - 1 : f[l].node # NoNode /\ Ino(l) < Ino(j)}
<1>1. n \in Nat /\ DOMAIN parts = 1 .. n
  OBVIOUS
<1>2. 0 \in S
  BY <1>1
<1>3. ASSUME NEW j \in 1 .. n, j - 1 \in S PROVE j \in S
  <2>1. f[j] = Walk(f[j - 1], parts[j])
    BY DEF Leads, Abs
  <2>2. SUFFICES ASSUME f[j].node # NoNode
                 PROVE  \A l \in 0 .. j - 1 : f[l].node # NoNode /\ Ino(l) < Ino(j)
    BY <1>1
  <2> DEFINE s == f[j - 1]
             part == parts[j]
             E == Entries(InodeOf(s.node), part)
             e == FirstEntry(E)
             r == inodes[e[1]][e[2]]
  <2>3. s.node # NoNode
    BY <2>1, <2>2 DEF Walk
  <2>4. s \in Reached(pg) /\ part \notin {Dot, DotDot}
    BY <1>1
  <2>5. s.node \in Seq(Nat) /\ s = [node |-> s.node, pages |-> s.pages]
    BY <2>3, <2>4 DEF Reached
  <2>6. /\ f[j] = IF E = {} \/ s.pages = 0 THEN [s EXCEPT !.node = NoNode]
                  ELSE [node |-> Append(s.node, r.num), pages |-> s.pages - 1]
    BY <2>1, <2>3, <2>4 DEF Walk, Finddir
  <2>7. E # {} /\ f[j].node = Append(s.node, r.num)
    <3> DEFINE m == Append(s.node, r.num)
    <3> HIDE DEF E, m, s
    <3>1. [s EXCEPT !.node = NoNode].node = NoNode
      BY <2>5
    <3>2. QED BY <2>2, <2>6, <3>1 DEF m
  <2>8. r \in Records /\ r.parent = InodeOf(s.node)
    <3>1. e \in E
      BY <2>7, FirstEntryIsEntry
    <3>2. QED BY <3>1, EntryIsRecord
  <2> HIDE DEF r, e, E
  <2>9. r.num \in Nat /\ r.num > InodeOf(s.node)
    <3>1. r.num \in FirstInode .. counter - 1 /\ counter \in Nat /\ FirstInode \in Nat /\ FirstInode > 0
      BY <2>8 DEF Numbered, TypeOK, FirstInode
    <3>2. r.parent = 0 \/ \E q \in Records : q.num = r.parent /\ q.num < r.num
      BY <2>8 DEF Numbered, Hierarchy
    <3>3. QED BY <2>8, <3>1, <3>2
  <2>10. Ino(j) = r.num
    <3>1. Append(s.node, r.num) # Root /\ Last(Append(s.node, r.num)) = r.num
      BY <2>5, <2>9 DEF Root, Last
    <3>2. QED BY <2>7, <3>1 DEF InodeOf
  <2>11. \A l \in 0 .. j - 2 : f[l].node # NoNode /\ Ino(l) < Ino(j - 1) /\ Ino(l) \in Nat
    <3>1. ASSUME NEW l \in 0 .. j - 2
          PROVE  f[l].node # NoNode /\ Ino(l) < Ino(j - 1) /\ Ino(l) \in Nat
      <4>1. l \in 0 .. (j - 1) - 1 /\ l \in 0 .. n
        BY <1>1
      <4>2. f[l].node # NoNode /\ Ino(l) < Ino(j - 1)
        BY <1>3, <2>3, <4>1
      <4>3. f[l].node \in Seq(Nat)
        BY <4>1, <4>2 DEF Reached
      <4>4. QED BY <4>2, <4>3, NodeInode
    <3>2. QED BY <3>1
  <2>12. Ino(j - 1) = InodeOf(s.node) /\ Ino(j - 1) \in Nat
    BY <2>5, NodeInode
  <2> HIDE DEF Ino
  <2>13. ASSUME NEW l \in 0 .. j - 1 PROVE f[l].node # NoNode /\ Ino(l) < Ino(j)
    <3>1. CASE l = j - 1
      BY <2>3, <2>9, <2>10, <2>12, <3>1
    <3>2. CASE l # j - 1
      <4>1. l \in 0 .. j - 2
        BY <3>2
      <4>2. QED BY <2>9, <2>10, <2>11, <2>12, <4>1
    <3>3. QED BY <3>1, <3>2
  <2>14. QED BY <2>13
<1>4. n \in S
  <2> HIDE DEF S, n
  <2>1. \A j \in 0 .. n : j \in S
    BY <1>1, <1>2, <1>3, SetInduction
  <2>2. QED BY <1>1, <2>1
<1>5. QED
  BY <1>1, <1>4

-----------------------------------------------------------------------------
(* Look-ups after xfs_create_file. *)

HasSteps ==
  \A pg \in Nat, path \in Path :
    \E f \in [0 .. Len(path.parts) -> Reached(pg)] : Leads(f, path, pg)

GoesByFront ==
  \A pg \in Nat, parts \in Seq(Name) :
    parts # <<>> => Lookup(Abs(parts), pg) = Walk(Lookup(Abs(Front(parts)), pg), Last(parts))

FindsInode ==
  \A dir, name :
    LET e == FirstEntry(Entries(dir, name))
    IN Entries(dir, name) # {} => inodes[e[1]][e[2]].num \in Nat

LEMMA LookupsLater == TypeOK' /\ HeldTrue' => HasSteps' /\ GoesByFront' /\ FindsInode'
<1>1. TypeOK /\ HeldTrue => HasSteps /\ GoesByFront /\ FindsInode
  <2>1. ASSUME TypeOK, HeldTrue PROVE HasSteps
    BY <2>1, LookupHasSteps DEF HasSteps
  <2>2. ASSUME TypeOK, HeldTrue PROVE GoesByFront
    BY <2>2, ParentByFront DEF GoesByFront
  <2>3. ASSUME TypeOK PROVE FindsInode
    <3>1. ASSUME NEW dir, NEW name, Entries(dir, name) # {}
          PROVE  inodes[FirstEntry(Entries(dir, name))[1]][FirstEntry(Entries(dir, name))[2]].num \in Nat
      <4> DEFINE e == FirstEntry(Entries(dir, name))
      <4>1. e \in Entries(dir, name)
        BY <2>3, <3>1, FirstEntryIsEntry
      <4> HIDE DEF e
      <4>2. inodes[e[1]][e[2]] \in Records
        BY <2>3, <4>1, EntryIsRecord
      <4>3. inodes[e[1]][e[2]].num \in Nat
        BY <2>3, <4>2, RecordsType DEF InodeType
      <4>4. QED BY <4>3 DEF e
    <3>2. QED BY <3>1 DEF FindsInode
  <2>4. QED BY <2>1, <2>2, <2>3
<1>2. QED
  BY <1>1, PTL

(* Where no look-up asks for the new record, it finds what it found. *)
LEMMA EntriesStay ==
  ASSUME TypeOK, TypeOK', NEW g \in AGs, NEW b \in Blocks, NEW r \in InodeType, Created(g, b, r),
         NEW dir, NEW name, r.parent # dir \/ r.name # name
  PROVE  /\ Entries(dir, name)' = Entries(dir, name)
         /\ \A e \in Entries(dir, name) : inodes'[e[1]][e[2]] = inodes[e[1]][e[2]]
<1> DEFINE n == Len(inodes[g])
<1>1. /\ \A h \in AGs \ {g} : inodes'[h] = inodes[h]
      /\ DOMAIN inodes'[g] = 1 .. n + 1
      /\ DOMAIN inodes[g] = 1 .. n /\ n \in Nat
      /\ \A j \in DOMAIN inodes[g] : inodes'[g][j] = inodes[g][j]
      /\ inodes'[g][n + 1] = r
  BY CreatedSlots
<1> HIDE DEF n, AGs
<1>2. ASSUME NEW h \in AGs, NEW j \in DOMAIN inodes[h]
      PROVE  j \in DOMAIN inodes'[h] /\ inodes'[h][j] = inodes[h][j]
  BY <1>1
<1>3. ASSUME NEW h \in AGs, NEW j \in DOMAIN inodes'[h],
             inodes'[h][j].parent = dir, inodes'[h][j].name = name
      PROVE  j \in DOMAIN inodes[h] /\ inodes'[h][j] = inodes[h][j]
  <2>1. CASE h # g
    BY <1>1, <2>1
  <2>2. CASE h = g
    <3>1. j # n + 1
      BY <1>1, <1>3, <2>2
    <3>2. j \in 1 .. n
      BY <1>1, <2>2, <3>1
    <3>3. QED BY <1>1, <2>2, <3>2
  <2>3. QED BY <2>1, <2>2
<1>4. \A e : e \in Entries(dir, name) <=>
        \E h \in AGs : \E j \in DOMAIN inodes[h] :
          e = <<h, j>> /\ inodes[h][j].parent = dir /\ inodes[h][j].name = name
  BY DEF Entries
<1>5. \A e : e \in Entries(dir, name)' <=>
        \E h \in AGs : \E j \in DOMAIN inodes'[h] :
          e = <<h, j>> /\ inodes'[h][j].parent = dir /\ inodes'[h][j].name = name
  BY DEF Entries
<1>6. ASSUME NEW e \in Entries(dir, name)
      PROVE  e \in Entries(dir, name)' /\ inodes'[e[1]][e[2]] = inodes[e[1]][e[2]]
  <2>1. PICK h \in AGs : \E j \in DOMAIN inodes[h] :
          e = <<h, j>> /\ inodes[h][j].parent = dir /\ inodes[h][j].name = name
    BY <1>4
  <2>2. PICK j \in DOMAIN inodes[h] :
          e = <<h, j>> /\ inodes[h][j].parent = dir /\ inodes[h][j].name = name
    BY <2>1
  <2>3. j \in DOMAIN inodes'[h] /\ inodes'[h][j] = inodes[h][j]
    BY <1>2
  <2>4. e[1] = h /\ e[2] = j
    BY <2>2
  <2>5. e \in Entries(dir, name)'
    BY <1>5, <2>2, <2>3
  <2>6. QED BY <2>3, <2>4, <2>5
<1>7. ASSUME NEW e, e \in Entries(dir, name)' PROVE e \in Entries(dir, name)
  <2>1. PICK h \in AGs : \E j \in DOMAIN inodes'[h] :
          e = <<h, j>> /\ inodes'[h][j].parent = dir /\ inodes'[h][j].name = name
    BY <1>5, <1>7
  <2>2. PICK j \in DOMAIN inodes'[h] :
          e = <<h, j>> /\ inodes'[h][j].parent = dir /\ inodes'[h][j].name = name
    BY <2>1
  <2>3. j \in DOMAIN inodes[h] /\ inodes'[h][j] = inodes[h][j]
    BY <1>3, <2>2
  <2>4. QED BY <1>4, <2>2, <2>3
<1>8. \A e : e \in Entries(dir, name)' <=> e \in Entries(dir, name)
  BY <1>6, <1>7
<1>9. Entries(dir, name)' = Entries(dir, name)
  <2> DEFINE old == Entries(dir, name)
             new == Entries(dir, name)'
  <2>1. \A e : e \in new <=> e \in old
    BY <1>8
  <2>2. \E X, Y : old = {e \in X : TRUE} /\ new = {e \in Y : TRUE}
    OBVIOUS
  <2> HIDE DEF old, new
  <2>3. new = old
    BY <2>1, SetExtensionality, Zenon
  <2>4. QED BY <2>3 DEF old, new
<1>10. QED
  BY <1>6, <1>9

LEMMA WalkStays ==
  ASSUME TypeOK, TypeOK', NEW g \in AGs, NEW b \in Blocks, NEW r \in InodeType, Created(g, b, r),
         NEW s, s.node # NoNode, NEW part, part \notin {Dot, DotDot},
         r.parent # InodeOf(s.node) \/ r.name # part
  PROVE  Walk(s, part)' = Walk(s, part)
<1> DEFINE E == Entries(InodeOf(s.node), part)
<1>1. E' = E /\ \A e \in E : inodes'[e[1]][e[2]] = inodes[e[1]][e[2]]
  BY EntriesStay
<1>2. Walk(s, part) = IF E = {} \/ s.pages = 0 THEN [s EXCEPT !.node = NoNode]
        ELSE [node |-> Append(s.node, inodes[FirstEntry(E)[1]][FirstEntry(E)[2]].num),
              pages |-> s.pages - 1]
  BY DEF Walk, Finddir
<1>3. Walk(s, part)' = IF E' = {} \/ s.pages = 0 THEN [s EXCEPT !.node = NoNode]
        ELSE [node |-> Append(s.node, inodes'[FirstEntry(E')[1]][FirstEntry(E')[2]].num),
              pages |-> s.pages - 1]
  BY DEF Walk, Finddir
<1>4. E # {} => FirstEntry(E) \in E
  BY FirstEntryIsEntry
<1>5. CASE E = {} \/ s.pages = 0
  <2> DEFINE miss == [s EXCEPT !.node = NoNode]
  <2> HIDE DEF E, miss
  <2>1. Walk(s, part) = miss
    BY <1>2, <1>5 DEF miss
  <2>2. Walk(s, part)' = miss
    BY <1>1, <1>3, <1>5 DEF miss
  <2>3. QED BY <2>1, <2>2
<1>6. CASE ~(E = {} \/ s.pages = 0)
  <2> DEFINE e == FirstEntry(E)
  <2>1. Walk(s, part) = [node |-> Append(s.node, inodes[e[1]][e[2]].num), pages |-> s.pages - 1]
    BY <1>2, <1>6
  <2>2. FirstEntry(E') = e /\ e \in E
    BY <1>1, <1>4, <1>6
  <2>3. Walk(s, part)' = [node |-> Append(s.node, inodes'[e[1]][e[2]].num), pages |-> s.pages - 1]
    <3> HIDE DEF E, e
    <3> QED BY <1>1, <1>3, <1>6, <2>2
  <2>4. inodes'[e[1]][e[2]] = inodes[e[1]][e[2]]
    <3> HIDE DEF E, e
    <3> QED BY <1>1, <2>2
  <2> HIDE DEF e
  <2>5. QED BY <2>1, <2>3, <2>4
<1>7. QED
  BY <1>5, <1>6

LEMMA LookupStays ==
  ASSUME TypeOK, TypeOK', Numbered, HeldTrue, HeldTrue',
         NEW g \in AGs, NEW b \in Blocks, NEW r \in InodeType, Created(g, b, r),
         NEW pg \in Nat, NEW parts \in Seq(Name),
         \A i \in DOMAIN parts : parts[i] \notin {Dot, DotDot},
         Lookup(Abs(parts), pg).node # NoNode, r.parent = InodeOf(Lookup(Abs(parts), pg).node)
  PROVE  Lookup(Abs(parts), pg)' = Lookup(Abs(parts), pg)
<1> DEFINE n == Len(parts)
           path == Abs(parts)
<1>1. /\ path \in Path /\ path.parts = parts /\ path.abs = TRUE
      /\ n \in Nat /\ DOMAIN parts = 1 .. n
  BY DEF Abs, Path
<1>2. PICK f \in [0 .. n -> Reached(pg)] : Leads(f, path, pg)
  BY <1>1, LookupHasSteps
<1>3. PICK h : Leads(h, path, pg)'
  <2>1. HasSteps'
    BY LookupsLater
  <2>2. QED BY <1>1, <2>1, Zenon DEF HasSteps
<1>4. /\ f[0] = From(path, pg) /\ Lookup(path, pg) = f[n]
      /\ \A i \in 1 .. n : f[i] = Walk(f[i - 1], parts[i])
  BY <1>1, <1>2 DEF Leads
<1>5. /\ h[0] = From(path, pg)' /\ Lookup(path, pg)' = h[n]
      /\ \A i \in 1 .. n : h[i] = Walk(h[i - 1], parts[i])'
  BY <1>1, <1>3 DEF Leads
<1> DEFINE S == {i \in 0 .. n : h[i] = f[i]}
<1>6. 0 \in S
  <2>1. From(path, pg)' = From(path, pg)
    BY <1>1 DEF From
  <2>2. QED BY <1>1, <1>4, <1>5, <2>1
<1>7. ASSUME NEW i \in 1 .. n, i - 1 \in S PROVE i \in S
  <2> DEFINE s == f[i - 1]
             part == parts[i]
  <2>1. s.node # NoNode /\ InodeOf(s.node) < InodeOf(f[n].node)
    <3>1. i - 1 \in 0 .. n - 1
      BY <1>1
    <3>2. f[n].node # NoNode
      BY <1>4
    <3>3. QED BY <1>2, <3>1, <3>2, InodesAscend
  <2>2. r.parent # InodeOf(s.node)
    <3>1. r.parent = InodeOf(f[n].node) /\ r.parent \in Nat
      BY <1>4 DEF InodeType
    <3>2. s.node \in Seq(Nat)
      <4>1. i - 1 \in 0 .. n
        BY <1>1
      <4>2. QED BY <1>2, <2>1, <4>1 DEF Reached
    <3>3. InodeOf(s.node) \in Nat
      BY <3>2, NodeInode
    <3>4. QED BY <2>1, <3>1, <3>3
  <2>3. part \notin {Dot, DotDot}
    BY <1>1
  <2>4. f[i] = Walk(s, part)
    BY <1>4
  <2>5. h[i] = Walk(s, part)'
    <3>1. h[i - 1] = s
      BY <1>7
    <3>2. QED BY <1>5, <3>1
  <2> HIDE DEF s, part
  <2>6. Walk(s, part)' = Walk(s, part)
    BY <2>1, <2>2, <2>3, WalkStays
  <2>7. QED BY <1>1, <2>4, <2>5, <2>6
<1>8. n \in S
  <2> HIDE DEF S, n
  <2>1. \A i \in 0 .. n : i \in S
    BY <1>1, <1>6, <1>7, SetInduction
  <2>2. QED BY <1>1, <2>1
<1>9. QED
  BY <1>4, <1>5, <1>8

(* The file just created is found by its path. *)
LEMMA CreatedIsFound ==
  ASSUME TypeOK, TypeOK', Numbered, HeldTrue, HeldTrue',
         NEW g \in AGs, NEW b \in Blocks, NEW r \in InodeType, Created(g, b, r),
         NEW pg \in Nat, NEW parts \in Seq(Name), parts # <<>>,
         \A i \in DOMAIN parts : parts[i] \notin {Dot, DotDot},
         Lookup(Abs(Front(parts)), pg).node # NoNode,
         r.parent = InodeOf(Lookup(Abs(Front(parts)), pg).node), r.name = Last(parts)
  PROVE  Found(parts)'
<1> DEFINE front == Front(parts)
           last == Last(parts)
<1>0. PICK s : s = Lookup(Abs(front), pg + 1)
  OBVIOUS
<1>1. /\ front \in Seq(Name) /\ Abs(front) \in Path
      /\ \A i \in DOMAIN front : front[i] \notin {Dot, DotDot}
      /\ last \notin {Dot, DotDot}
  <2> HIDE DEF Name
  <2>1. /\ front \in Seq(Name) /\ Len(front) = Len(parts) - 1 /\ Len(parts) \in Nat \ {0}
        /\ \A i \in 1 .. Len(parts) - 1 : front[i] = parts[i]
    BY FrontOf
  <2>2. Abs(front) \in Path
    BY ParentByFront
  <2> HIDE DEF front
  <2>3. DOMAIN front = 1 .. Len(parts) - 1 /\ DOMAIN parts = 1 .. Len(parts)
    BY <2>1
  <2>4. \A i \in DOMAIN front : front[i] \notin {Dot, DotDot}
    BY <2>1, <2>3
  <2>5. last = parts[Len(parts)] /\ Len(parts) \in DOMAIN parts
    BY <2>1, <2>3 DEF Last
  <2>6. QED BY <2>1, <2>2, <2>4, <2>5
<1>2. /\ s.node = Lookup(Abs(front), pg).node /\ s.pages = Lookup(Abs(front), pg).pages + 1
  <2> HIDE DEF front
  <2>1. Lookup(Abs(front), pg).node # NoNode
    BY DEF front
  <2>2. QED BY <1>0, <1>1, <2>1, LookupWithMorePages
<1>3. s.node # NoNode /\ s.node \in Seq(Nat) /\ s.pages # 0
  <2>1. Lookup(Abs(front), pg) \in Reached(pg)
    BY <1>1, LookupIsTrue
  <2> HIDE DEF front
  <2>2. Lookup(Abs(front), pg).pages \in Nat /\ Lookup(Abs(front), pg).node \in Seq(Nat)
    BY <2>1 DEF Reached, front
  <2>3. QED BY <1>2, <2>2 DEF front
<1>4. pg + 1 \in Nat
  OBVIOUS
<1>5. Lookup(Abs(front), pg + 1)' = s
  <2> HIDE DEF front
  <2>1. r.parent = InodeOf(Lookup(Abs(front), pg + 1).node)
    BY <1>0, <1>2 DEF front
  <2>2. Lookup(Abs(front), pg + 1).node # NoNode
    BY <1>0, <1>3
  <2>3. QED BY <1>0, <1>1, <2>2, <1>4, <2>1, LookupStays
<1>6. Lookup(Abs(parts), pg + 1)' = Walk(s, last)'
  <2>1. GoesByFront'
    BY LookupsLater
  <2>2. Lookup(Abs(parts), pg + 1)' = Walk(Lookup(Abs(front), pg + 1), last)'
    BY <1>4, <2>1 DEF GoesByFront
  <2>3. QED BY <1>5, <2>2
<1>7. r.parent = InodeOf(s.node) /\ r.name = last
  BY <1>2
<1> HIDE DEF last, front
<1> DEFINE E == Entries(InodeOf(s.node), last)
           e == FirstEntry(E)
<1>8. E' # {}
  <2>1. inodes'[g][Len(inodes[g]) + 1] = r /\ Len(inodes[g]) + 1 \in DOMAIN inodes'[g]
    BY CreatedSlots
  <2>2. \A x : x \in E' <=>
          \E h \in AGs : \E j \in DOMAIN inodes'[h] :
            x = <<h, j>> /\ inodes'[h][j].parent = InodeOf(s.node) /\ inodes'[h][j].name = last
    BY DEF Entries
  <2> DEFINE j == Len(inodes[g]) + 1
  <2>3. inodes'[g][j].parent = InodeOf(s.node) /\ inodes'[g][j].name = last /\ j \in DOMAIN inodes'[g]
    BY <1>7, <2>1
  <2> HIDE DEF E, j
  <2>4. <<g, j>> \in E'
    BY <2>2, <2>3
  <2>5. QED BY <2>4
<1>9. inodes'[FirstEntry(E')[1]][FirstEntry(E')[2]].num \in Nat
  BY <1>8, LookupsLater DEF FindsInode
<1>10. Walk(s, last)' = [node |-> Append(s.node, inodes'[FirstEntry(E')[1]][FirstEntry(E')[2]].num),
                         pages |-> s.pages - 1]
  <2>1. Walk(s, last)' = IF E' = {} \/ s.pages = 0 THEN [s EXCEPT !.node = NoNode]
          ELSE [node |-> Append(s.node, inodes'[FirstEntry(E')[1]][FirstEntry(E')[2]].num),
                pages |-> s.pages - 1]
    BY <1>1, <1>3 DEF Walk, Finddir
  <2> HIDE DEF E
  <2>2. QED BY <1>3, <1>8, <2>1
<1>11. Walk(s, last)'.node # NoNode
  <2> DEFINE num == inodes'[FirstEntry(E')[1]][FirstEntry(E')[2]].num
  <2>1. num \in Nat
    BY <1>9
  <2> HIDE DEF num, E
  <2>2. Append(s.node, num) \in Seq(Nat)
    BY <1>3, <2>1
  <2>3. Walk(s, last)'.node = Append(s.node, num)
    BY <1>10 DEF num
  <2>4. QED BY <2>2, <2>3, NamespaceAssumption
<1>12. QED
  BY <1>4, <1>6, <1>11 DEF Found

(* The laws of a table that the proof needs before and after a step. *)
OneNode ==
  /\ \A m, n : TrueNode(Records, m) /\ TrueNode(Records, n) /\ InodeOf(m) = InodeOf(n) => m = n
  /\ \A q, r \in Records : q.num = r.num => q = r

RootFound == Found(<<>>)

LEMMA LawsLater ==
  /\ TypeOK' /\ Numbered' => OneNode'
  /\ TypeOK' /\ HeldTrue' => RootFound'
<1>1. ASSUME TypeOK, Numbered PROVE OneNode
  BY <1>1, OneNodePerInode, NumbersAreUnique DEF OneNode
<1>2. ASSUME TypeOK, HeldTrue PROVE RootFound
  <2>1. 0 \in Nat
    OBVIOUS
  <2>2. Lookup(Abs(<<>>), 0) = [node |-> Root, pages |-> 0]
    BY <1>2, <2>1, LookupRoot
  <2>3. Lookup(Abs(<<>>), 0).node # NoNode
    BY <2>2, RootIsTrue
  <2>4. QED BY <2>1, <2>3 DEF RootFound, Found
<1>3. QED
  BY <1>1, <1>2, PTL

(* A node of the table after xfs_create_file whose inode is an old one is a *)
(* node of the table before.                                               *)
LEMMA OldNodes ==
  ASSUME TypeOK, TypeOK', Numbered, Numbered', NEW g \in AGs, NEW b \in Blocks, NEW r \in InodeType,
         Created(g, b, r), NEW n, TrueNode(Records', n), n # Root, InodeOf(n) # r.num
  PROVE  /\ TrueNode(Records, n)
         /\ \A i \in DOMAIN n : n[i] # r.num
<1>1. Records' = Records \union {r} /\ r.num = counter /\ counter \in Nat
  BY CreatedRecords DEF Created, TypeOK
<1>2. /\ n \in Seq(Nat) /\ Len(n) \in Nat \ {0} /\ DOMAIN n = 1 .. Len(n)
      /\ InodeOf(n) = n[Len(n)]
  BY DEF TrueNode, Root, InodeOf, Last
<1>3. \A q \in Records' : q.num <= counter /\ q.num \in Nat
  <2>1. ASSUME NEW q \in Records' PROVE q.num <= counter /\ q.num \in Nat
    <3>1. CASE q \in Records
      <4>1. q.num \in FirstInode .. counter - 1
        BY <3>1 DEF Numbered
      <4>2. QED BY <1>1, <4>1 DEF FirstInode
    <3>2. CASE q = r
      BY <1>1, <3>2
    <3>3. QED BY <1>1, <3>1, <3>2
  <2>2. QED BY <2>1
<1>4. ASSUME NEW i \in DOMAIN n PROVE n[i] # r.num
  <2>1. CASE i = Len(n)
    BY <1>2, <2>1
  <2>2. CASE i # Len(n)
    <3>1. i + 1 \in DOMAIN n /\ i \in Nat \ {0}
      BY <1>2, <2>2
    <3> DEFINE j == i + 1
    <3>2. PICK q \in Records' : q.num = n[j] /\ q.parent = InodeOf(SubSeq(n, 1, j - 1))
      BY <3>1 DEF TrueNode
    <3>3. InodeOf(SubSeq(n, 1, j - 1)) = n[i]
      <4> DEFINE p == SubSeq(n, 1, i)
      <4>1. Len(p) = i /\ p[i] = n[i] /\ p # <<>>
        BY <1>2, <3>1
      <4>2. j - 1 = i
        BY <3>1
      <4> HIDE DEF p
      <4>3. InodeOf(p) = n[i]
        BY <4>1 DEF InodeOf, Last, Root
      <4>4. QED BY <4>2, <4>3 DEF p
    <3>4. q.parent = 0 \/ \E a \in Records' : a.num = q.parent /\ a.num < q.num
      BY <3>2 DEF Numbered, Hierarchy
    <3>5. q.num \in Nat /\ q.num <= counter
      BY <1>3
    <3>6. counter # 0
      BY <1>1 DEF Numbered, FirstInode
    <3>7. QED BY <1>1, <3>2, <3>3, <3>4, <3>5, <3>6
  <2>3. QED BY <2>1, <2>2
<1>5. ASSUME NEW i \in DOMAIN n
      PROVE  \E q \in Records : /\ q.num = n[i] /\ q.parent = InodeOf(SubSeq(n, 1, i - 1))
                                /\ q.name \notin {Dot, DotDot}
  <2>1. PICK q \in Records' : /\ q.num = n[i] /\ q.parent = InodeOf(SubSeq(n, 1, i - 1))
                              /\ q.name \notin {Dot, DotDot}
    BY DEF TrueNode
  <2>2. QED BY <1>1, <1>4, <2>1
<1>6. QED
  BY <1>2, <1>4, <1>5 DEF TrueNode

(* The names along the node of the file just created. *)
LEMMA NewNode ==
  ASSUME TypeOK, TypeOK', Numbered, Numbered', NEW g \in AGs, NEW b \in Blocks, NEW r \in InodeType,
         Created(g, b, r), NEW p \in Seq(Name), p # <<>>,
         NEW c, Named(Records, c, Front(p)), Len(c) = Len(p) - 1, r.parent = InodeOf(c),
         NEW parts, NEW n, Named(Records', n, parts), n # Root, InodeOf(n) = r.num
  PROVE  /\ Len(n) = Len(p) /\ Len(p) <= Len(parts) /\ Len(p) \in Nat \ {0}
         /\ \A i \in 1 .. Len(p) - 1 : parts[i] = p[i]
         /\ parts[Len(p)] = r.name
<1>1. Records' = Records \union {r} /\ OneNode'
  BY CreatedRecords, LawsLater
<1>2. TrueNode(Records', n) /\ TrueNode(Records', Front(n)) /\ Len(n) <= Len(parts)
  BY ParentIsTrue DEF Named
<1>3. /\ n \in Seq(Nat) /\ Len(n) \in Nat \ {0} /\ DOMAIN n = 1 .. Len(n)
      /\ Len(Front(n)) = Len(n) - 1 /\ (\A i \in 1 .. Len(n) - 1 : Front(n)[i] = n[i])
      /\ InodeOf(n) = n[Len(n)]
      /\ \E q \in Records' : q.num = InodeOf(n) /\ q.parent = InodeOf(Front(n))
  <2> DEFINE R == Records'
  <2>1. TrueNode(R, n)
    BY <1>2
  <2> HIDE DEF R
  <2>2. /\ n \in Seq(Nat) /\ Len(n) \in Nat \ {0} /\ Len(Front(n)) = Len(n) - 1
        /\ (\A i \in 1 .. Len(n) - 1 : Front(n)[i] = n[i]) /\ InodeOf(n) = n[Len(n)]
    BY <2>1, NodeEnds
  <2>3. \E q \in R : q.num = InodeOf(n) /\ q.parent = InodeOf(Front(n))
    BY <2>1, NodeEnds
  <2>4. DOMAIN n = 1 .. Len(n)
    BY <2>2
  <2>5. QED BY <2>2, <2>3, <2>4 DEF R
<1>4. InodeOf(Front(n)) = InodeOf(c)
  <2>1. PICK q \in Records' : q.num = InodeOf(n) /\ q.parent = InodeOf(Front(n))
    BY <1>3
  <2>2. q = r
    BY <1>1, <2>1 DEF OneNode
  <2>3. QED BY <2>1, <2>2
<1>5. TrueNode(Records', c)
  <2> DEFINE S == Records'
  <2>1. \A q \in Records : \E s \in S : SameFile(q, s)
    BY <1>1 DEF SameFile
  <2> HIDE DEF S
  <2>2. TrueNode(S, c)
    BY <2>1, NodesStayTrue DEF Named
  <2>3. QED BY <2>2 DEF S
<1>6. Front(n) = c
  BY <1>1, <1>2, <1>4, <1>5 DEF OneNode
<1>7. Len(n) = Len(p) /\ Len(p) \in Nat \ {0} /\ Len(p) - 1 \in Nat
  <2>1. Len(p) \in Nat
    OBVIOUS
  <2>2. Len(c) = Len(n) - 1 /\ Len(c) = Len(p) - 1 /\ Len(n) \in Nat \ {0}
    BY <1>3, <1>6, Zenon
  <2> DEFINE a == Len(n)
             d == Len(p)
             e == Len(c)
  <2>3. a \in Nat \ {0} /\ d \in Nat /\ e = a - 1 /\ e = d - 1
    BY <2>1, <2>2, Zenon
  <2> HIDE DEF a, d, e
  <2>4. a = d /\ d \in Nat \ {0} /\ d - 1 \in Nat
    BY <2>3
  <2>5. QED BY <2>4 DEF a, d
<1>8. ASSUME NEW i \in 1 .. Len(p) - 1 PROVE parts[i] = p[i]
  <2>1. i \in DOMAIN n /\ n[i] = c[i]
    BY <1>3, <1>6, <1>7
  <2>2. i \in DOMAIN c
    <3>1. c \in Seq(Nat)
      BY DEF Named, TrueNode
    <3>2. QED BY <1>7, <3>1
  <2>3. PICK q \in Records' : q.num = n[i] /\ q.name = parts[i]
    BY <2>1 DEF Named
  <2>4. PICK a \in Records : a.num = c[i] /\ a.name = Front(p)[i]
    BY <2>2 DEF Named
  <2>5. a = q
    BY <1>1, <2>1, <2>3, <2>4 DEF OneNode
  <2>6. Front(p)[i] = p[i]
    <3> HIDE DEF Name
    <3> QED BY FrontOf
  <2>7. QED BY <2>3, <2>4, <2>5, <2>6
<1>9. parts[Len(p)] = r.name
  <2>1. Len(n) \in DOMAIN n
    BY <1>3
  <2>2. PICK q \in Records' : q.num = n[Len(n)] /\ q.name = parts[Len(n)]
    BY <2>1 DEF Named
  <2>3. q = r
    BY <1>1, <1>3, <2>2 DEF OneNode
  <2>4. QED BY <1>7, <2>2, <2>3
<1>10. QED
  BY <1>2, <1>7, <1>8, <1>9

LEMMA CleanTwice == \A x : Clean(Clean(x)) = Clean(x) /\ Len(Clean(x)) = 1
<1>1. ASSUME NEW h PROVE Head(<<h>>) = h /\ Len(<<h>>) = 1
  OBVIOUS
<1>2. QED
  BY <1>1, Zenon DEF Clean

(* Creating the directories and the file of entry e keeps the paths of the *)
(* other files free.                                                       *)
LEMMA CreatedFits ==
  ASSUME TypeOK, TypeOK', Numbered, Numbered', TreeArchive, \A q \in Records : RecordFits(q),
         NEW g \in AGs, NEW b \in Blocks, NEW r \in InodeType, Created(g, b, r),
         NEW e \in DOMAIN Archive, NEW p \in Seq(Name), p # <<>>, Len(p) <= Len(PathOf(e)),
         \A i \in 1 .. Len(p) : p[i] = PathOf(e)[i],
         NEW c, Named(Records, c, Front(p)), Len(c) = Len(p) - 1,
         r.parent = InodeOf(c), r.name = Clean(Last(p)),
         \/ r.type = "DIR" /\ (Archive[e].type = "DIR" \/ Len(p) < Len(PathOf(e)))
         \/ Archive[e].type = "FILE" /\ Len(p) = Len(PathOf(e)) /\ ~Pending(e)',
         \A k \in DOMAIN Archive : Pending(k)' => Pending(k)
  PROVE  \A q \in Records' : RecordFits(q)'
<1>1. Records' = Records \union {r} /\ r.num = counter /\ counter \in Nat
  BY CreatedRecords DEF Created, TypeOK
<1>2. ASSUME NEW q \in Records PROVE RecordFits(q)'
  <2>1. Len(q.name) = 1
    BY DEF RecordFits
  <2>2. q.num # r.num
    <3>1. q.num \in FirstInode .. counter - 1
      BY DEF Numbered
    <3>2. QED BY <1>1, <3>1 DEF FirstInode
  <2>3. ASSUME NEW k \in DOMAIN Archive, Unpacks(k), NEW n,
               Named(Records', n, PathOf(k)), n # Root, InodeOf(n) = q.num
        PROVE  \/ Len(n) < Len(PathOf(k)) /\ q.type = "DIR"
               \/ Len(n) = Len(PathOf(k)) /\ ~Pending(k)'
    <3>1. TrueNode(Records, n) /\ \A i \in DOMAIN n : n[i] # r.num
      BY <2>2, <2>3, OldNodes DEF Named
    <3>2. ASSUME NEW i \in DOMAIN n
          PROVE  \E a \in Records : a.num = n[i] /\ a.name = PathOf(k)[i]
      <4>1. PICK a \in Records' : a.num = n[i] /\ a.name = PathOf(k)[i]
        BY <2>3 DEF Named
      <4>2. QED BY <1>1, <3>1, <4>1
    <3>3. Named(Records, n, PathOf(k))
      BY <2>3, <3>1, <3>2 DEF Named
    <3>4. QED BY <2>3, <3>3 DEF RecordFits
  <2>4. QED BY <2>1, <2>3 DEF RecordFits, Unpacks, PathOf
<1>3. RecordFits(r)'
  <2>1. Len(r.name) = 1
    BY CleanTwice
  <2>2. ASSUME NEW k \in DOMAIN Archive, Unpacks(k), NEW n,
               Named(Records', n, PathOf(k)), n # Root, InodeOf(n) = r.num
        PROVE  \/ Len(n) < Len(PathOf(k)) /\ r.type = "DIR"
               \/ Len(n) = Len(PathOf(k)) /\ ~Pending(k)'
    <3>1. /\ Len(n) = Len(p) /\ Len(p) <= Len(PathOf(k)) /\ Len(p) \in Nat \ {0}
          /\ \A i \in 1 .. Len(p) - 1 : PathOf(k)[i] = p[i]
          /\ PathOf(k)[Len(p)] = r.name
      <4> HIDE DEF PathOf
      <4> QED BY <2>2, NewNode
    <3>2. \A i \in 1 .. Len(p) : Clean(PathOf(k)[i]) = Clean(PathOf(e)[i])
      <4>1. ASSUME NEW i \in 1 .. Len(p) PROVE Clean(PathOf(k)[i]) = Clean(PathOf(e)[i])
        <5>1. p[i] = PathOf(e)[i]
          OBVIOUS
        <5>2. CASE i = Len(p)
          <6>1. PathOf(k)[i] = Clean(PathOf(e)[i])
            BY <3>1, <5>1, <5>2 DEF Last
          <6>2. QED BY <6>1, CleanTwice
        <5>3. CASE i # Len(p)
          <6>1. i \in 1 .. Len(p) - 1
            BY <3>1, <5>3
          <6>2. PathOf(k)[i] = PathOf(e)[i]
            BY <3>1, <5>1, <6>1
          <6>3. QED BY <6>2
        <5>4. QED BY <5>2, <5>3
      <4>2. QED BY <4>1
    <3>3. Archive[k].type = "FILE"
      BY <2>2 DEF Unpacks
    <3> DEFINE d == Len(p)
               x == Len(PathOf(k))
               y == Len(PathOf(e))
    <3>4. d <= x /\ d <= y /\ d \in Nat /\ Len(n) = d
      BY <3>1
    <3>5. x \in Nat /\ y \in Nat
      BY EntryTyped
    <3>6. x = d => k = e
      <4>1. x = d => Under(k, e)
        <5>1. ASSUME x = d PROVE x <= y /\ \A i \in 1 .. x : Clean(PathOf(k)[i]) = Clean(PathOf(e)[i])
          <6> HIDE DEF x, y, d
          <6>1. \A i \in 1 .. d : Clean(PathOf(k)[i]) = Clean(PathOf(e)[i])
            BY <3>2 DEF d
          <6>2. QED BY <3>4, <5>1, <6>1
        <5>2. QED BY <5>1 DEF Under
      <4>2. QED BY <3>3, <4>1 DEF TreeArchive
    <3>7. y = d /\ Archive[e].type = "FILE" => k = e
      <4>1. y = d => Under(e, k)
        <5>1. ASSUME y = d PROVE y <= x /\ \A i \in 1 .. y : Clean(PathOf(e)[i]) = Clean(PathOf(k)[i])
          <6> HIDE DEF x, y, d
          <6>1. \A i \in 1 .. d : Clean(PathOf(e)[i]) = Clean(PathOf(k)[i])
            BY <3>2 DEF d
          <6>2. QED BY <3>4, <5>1, <6>1
        <5>2. QED BY <5>1 DEF Under
      <4>2. QED BY <4>1 DEF TreeArchive
    <3>8. \/ r.type = "DIR" /\ (Archive[e].type = "DIR" \/ d < y)
          \/ Archive[e].type = "FILE" /\ d = y /\ ~Pending(e)'
      OBVIOUS
    <3>9. k = e => x = y
      OBVIOUS
    <3> HIDE DEF x, y, d
    <3>10. CASE Archive[e].type = "FILE" /\ d = y /\ ~Pending(e)'
      <4>1. k = e
        BY <3>7, <3>10
      <4>2. Len(n) = x /\ ~Pending(k)'
        BY <3>4, <3>9, <3>10, <4>1
      <4>3. QED BY <4>2 DEF x
    <3>11. CASE r.type = "DIR" /\ (Archive[e].type = "DIR" \/ d < y)
      <4>1. d # x
        <5>1. ASSUME d = x PROVE FALSE
          <6>1. k = e /\ x = y
            BY <3>6, <3>9, <5>1
          <6>2. Archive[e].type # "DIR"
            BY <3>3, <6>1
          <6>3. QED BY <3>4, <3>5, <3>11, <5>1, <6>1, <6>2
        <5>2. QED BY <5>1
      <4>2. Len(n) < x
        BY <3>4, <3>5, <4>1
      <4>3. QED BY <3>11, <4>2 DEF x
    <3>12. QED BY <3>8, <3>10, <3>11
  <2>3. QED BY <2>1, <2>2 DEF RecordFits, Unpacks, PathOf
<1>4. QED
  BY <1>1, <1>2, <1>3

LEMMA BoundFits ==
  ASSUME TypeOK, TypeOK', \A q \in Records : RecordFits(q),
         NEW num \in Nat, NEW k \in Nat, Bound(num, k),
         \A e \in DOMAIN Archive : Pending(e)' => Pending(e)
  PROVE  \A r \in Records' : RecordFits(r)'
<1>1. SUFFICES ASSUME NEW r \in Records' PROVE RecordFits(r)'
  OBVIOUS
<1>2. PICK q \in Records : SameFile(q, r)
  BY BoundRecords
<1>3. \A a \in Records' : \E s \in Records : SameFile(a, s)
  <2>1. \A a \in Records' : \E s \in Records : SameFile(s, a)
    BY BoundRecords
  <2>2. QED BY <2>1 DEF SameFile
<1>4. Len(r.name) = 1
  BY <1>2 DEF RecordFits, SameFile
<1>5. ASSUME NEW e \in DOMAIN Archive, Unpacks(e), NEW n,
             Named(Records', n, PathOf(e)), n # Root, InodeOf(n) = r.num
      PROVE  \/ Len(n) < Len(PathOf(e)) /\ r.type = "DIR"
             \/ Len(n) = Len(PathOf(e)) /\ ~Pending(e)'
  <2>1. Named(Records, n, PathOf(e))
    <3> DEFINE R == Records'
               S == Records
               parts == PathOf(e)
    <3>1. Named(R, n, parts) /\ \A a \in R : \E s \in S : SameFile(a, s)
      BY <1>3, <1>5
    <3> HIDE DEF R, S, parts
    <3>2. Named(S, n, parts)
      BY <3>1, NamedStays
    <3>3. QED BY <3>2 DEF S, parts
  <2>2. InodeOf(n) = q.num /\ r.type = q.type
    BY <1>2, <1>5 DEF SameFile
  <2>3. QED BY <1>5, <2>1, <2>2 DEF RecordFits
<1>6. QED
  BY <1>4, <1>5 DEF RecordFits, Unpacks, PathOf

(* A name with a first word. *)
Proper(name) == Head(name) # ""

(* xfs_create_file of a proper name makes the file unless all groups are full. *)
LEMMA CreateSucceeds ==
  ASSUME TypeOK, BlocksAccounted, ~Full, NEW name \in Name, Proper(name),
         NEW type \in {"DIR", "FILE"}, NEW n, TrueNode(Records, n),
         XfsCreateFile(name, type, InodeOf(n))
  PROVE  \E g \in AGs, b \in Blocks : Created(g, b, Inode(name, type, InodeOf(n), b))
<1>1. SUFFICES ASSUME NEW g \in AGs, Picked(g), Refuses(g, name) PROVE FALSE
  BY CreateFileStep
<1>2. /\ MaxFilesAg \in Nat /\ BlocksAg \in Nat /\ MaxFilesAg <= BlocksAg
  BY NamespaceAssumption, Zenon
<1>3. /\ inode_count[g] \in 0 .. MaxFilesAg /\ inode_count[g] = Len(inodes[g])
      /\ free_blocks[g] = BlocksAg - inode_count[g]
      /\ block_bitmap[g] = {inodes[g][j].block : j \in DOMAIN inodes[g]}
      /\ inodes[g] \in Seq(InodeType)
  <2> HIDE DEF InodeType
  <2> QED BY <1>2 DEF TypeOK, BlocksAccounted
<1>4. inode_count[g] >= MaxFilesAg
  <2>1. CASE free_blocks[g] = 0
    BY <1>2, <1>3, <2>1
  <2>2. CASE block_bitmap[g] = Blocks
    <3> DEFINE D == DOMAIN inodes[g]
               f == [j \in D |-> inodes[g][j].block]
    <3>1. D = 1 .. inode_count[g]
      <4> HIDE DEF InodeType
      <4> QED BY <1>3
    <3>2. f \in Surjection(D, Blocks)
      <4>1. \A j \in D : f[j] \in Blocks
        BY <1>3, <2>2
      <4>2. \A a \in Blocks : \E j \in D : f[j] = a
        BY <1>3, <2>2
      <4>3. QED BY <4>1, <4>2 DEF Surjection
    <3>3. IsFiniteSet(D) /\ Cardinality(D) = inode_count[g]
      <4> HIDE DEF D
      <4>1. inode_count[g] \in Nat
        BY <1>2, <1>3
      <4>2. 1 \in Int /\ inode_count[g] \in Int
        BY <4>1
      <4>3. IsFiniteSet(1 .. inode_count[g])
        BY <4>2, FS_Interval
      <4>4. Cardinality(1 .. inode_count[g]) = inode_count[g]
        BY <4>1, <4>2, FS_Interval
      <4>5. QED BY <3>1, <4>3, <4>4
    <3>4. Cardinality(Blocks) = BlocksAg
      <4>1. 0 \in Int /\ BlocksAg - 1 \in Int
        BY <1>2
      <4>2. Cardinality(0 .. BlocksAg - 1) = IF 0 > BlocksAg - 1 THEN 0 ELSE (BlocksAg - 1) - 0 + 1
        BY <4>1, FS_Interval
      <4>3. QED BY <1>2, <4>2 DEF Blocks
    <3> HIDE DEF D, f
    <3>5. Cardinality(Blocks) <= Cardinality(D)
      BY <3>2, <3>3, FS_Surjection
    <3>6. QED BY <1>2, <1>3, <3>3, <3>4, <3>5
  <2>3. QED BY <1>1, <2>1, <2>2, Zenon DEF Refuses, Proper
<1>5. \A h \in AGs : inode_count[h] >= MaxFilesAg
  BY <1>1, <1>4, FullMeansFull DEF NoSpaceMeansFull
<1>6. \A h \in AGs : inode_count[h] \in 0 .. MaxFilesAg
  BY DEF TypeOK
<1>7. \A h \in AGs : inode_count[h] = MaxFilesAg
  BY <1>2, <1>5, <1>6
<1>8. QED
  BY <1>7 DEF Full

LEMMA WalkSame ==
  ASSUME inodes' = inodes, NEW s, NEW part
  PROVE  Walk(s, part)' = Walk(s, part)
<1> DEFINE E == Entries(InodeOf(s.node), part)
<1>1. E' = E
  BY DEF Entries
<1>2. Walk(s, part) =
        IF s.node = NoNode \/ part = Dot THEN s
        ELSE IF part = DotDot THEN [s EXCEPT !.node = IF @ = Root THEN Root ELSE Front(@)]
        ELSE IF E = {} \/ s.pages = 0 THEN [s EXCEPT !.node = NoNode]
        ELSE [node |-> Append(s.node, inodes[FirstEntry(E)[1]][FirstEntry(E)[2]].num),
              pages |-> s.pages - 1]
  BY DEF Walk, Finddir
<1>3. Walk(s, part)' =
        IF s.node = NoNode \/ part = Dot THEN s
        ELSE IF part = DotDot THEN [s EXCEPT !.node = IF @ = Root THEN Root ELSE Front(@)]
        ELSE IF E' = {} \/ s.pages = 0 THEN [s EXCEPT !.node = NoNode]
        ELSE [node |-> Append(s.node, inodes'[FirstEntry(E')[1]][FirstEntry(E')[2]].num),
              pages |-> s.pages - 1]
  BY DEF Walk, Finddir
<1> HIDE DEF E
<1>4. QED
  BY <1>1, <1>2, <1>3

LEMMA LookupSame ==
  ASSUME TypeOK, HeldTrue, TypeOK', HeldTrue', inodes' = inodes, NEW pg \in Nat, NEW parts \in Seq(Name)
  PROVE  Lookup(Abs(parts), pg)' = Lookup(Abs(parts), pg)
<1> DEFINE n == Len(parts)
           path == Abs(parts)
<1>1. /\ path \in Path /\ path.parts = parts /\ path.abs = TRUE /\ n \in Nat
  BY DEF Abs, Path
<1>2. PICK f \in [0 .. n -> Reached(pg)] : Leads(f, path, pg)
  BY <1>1, LookupHasSteps
<1>3. PICK h : Leads(h, path, pg)'
  <2>1. HasSteps'
    BY LookupsLater
  <2>2. QED BY <1>1, <2>1, Zenon DEF HasSteps
<1>4. /\ f[0] = From(path, pg) /\ Lookup(path, pg) = f[n]
      /\ \A i \in 1 .. n : f[i] = Walk(f[i - 1], parts[i])
  BY <1>1, <1>2 DEF Leads
<1>5. /\ h[0] = From(path, pg)' /\ Lookup(path, pg)' = h[n]
      /\ \A i \in 1 .. n : h[i] = Walk(h[i - 1], parts[i])'
  BY <1>1, <1>3 DEF Leads
<1> DEFINE S == {i \in 0 .. n : h[i] = f[i]}
<1>6. 0 \in S
  <2>1. From(path, pg)' = From(path, pg)
    BY <1>1 DEF From
  <2>2. QED BY <1>1, <1>4, <1>5, <2>1
<1>7. ASSUME NEW i \in 1 .. n, i - 1 \in S PROVE i \in S
  <2> DEFINE s == f[i - 1]
             part == parts[i]
  <2>1. f[i] = Walk(s, part)
    BY <1>4
  <2>2. h[i] = Walk(s, part)'
    <3>1. h[i - 1] = s
      BY <1>7
    <3>2. QED BY <1>5, <3>1
  <2> HIDE DEF s, part
  <2>3. Walk(s, part)' = Walk(s, part)
    BY WalkSame
  <2>4. QED BY <1>1, <2>1, <2>2, <2>3
<1>8. n \in S
  <2> HIDE DEF S, n
  <2>1. \A i \in 0 .. n : i \in S
    BY <1>1, <1>6, <1>7, SetInduction
  <2>2. QED BY <1>1, <2>1
<1>9. QED
  BY <1>4, <1>5, <1>8

LEMMA FoundStays ==
  ASSUME TypeOK, HeldTrue, TypeOK', HeldTrue', inodes' = inodes, NEW parts \in Seq(Name), Found(parts)
  PROVE  Found(parts)'
<1>1. PICK pg \in Nat : Lookup(Abs(parts), pg).node # NoNode
  BY DEF Found
<1>2. Lookup(Abs(parts), pg)'.node # NoNode
  <2>1. Lookup(Abs(parts), pg)' = Lookup(Abs(parts), pg)
    BY LookupSame
  <2>2. QED BY <1>1, <2>1
<1>3. QED
  BY <1>2 DEF Found

(* The first parts of a path of the archive. *)
LEMMA EntryPath ==
  ASSUME NEW k \in DOMAIN Archive, NEW m \in 0 .. Len(PathOf(k))
  PROVE  /\ PathOf(k) \in Seq(Name) /\ Len(PathOf(k)) \in Nat
         /\ Archive[k].type \in {"DIR", "FILE"}
         /\ SubSeq(PathOf(k), 1, m) \in Seq(Name) /\ Len(SubSeq(PathOf(k), 1, m)) = m
         /\ \A i \in 1 .. m : SubSeq(PathOf(k), 1, m)[i] = PathOf(k)[i]
         /\ m = Len(PathOf(k)) => SubSeq(PathOf(k), 1, m) = PathOf(k)
         /\ m > 0 => Front(SubSeq(PathOf(k), 1, m)) = SubSeq(PathOf(k), 1, m - 1)
<1> DEFINE p == PathOf(k)
<1>3. p \in Seq(Name) /\ Archive[k].type \in {"DIR", "FILE"} /\ m \in 0 .. Len(p)
  BY EntryTyped
<1> HIDE DEF p, Name
<1>4. Len(p) \in Nat /\ m \in Nat /\ m <= Len(p)
  BY <1>3
<1>5. SubSeq(p, 1, m) \in Seq(Name) /\ Len(SubSeq(p, 1, m)) = m
  BY <1>3, <1>4
<1>6. \A i \in 1 .. m : SubSeq(p, 1, m)[i] = p[i]
  BY <1>3, <1>4
<1>7. m = Len(p) => SubSeq(p, 1, m) = p
  BY <1>3, <1>4
<1>8. m > 0 => Front(SubSeq(p, 1, m)) = SubSeq(p, 1, m - 1)
  BY <1>3, <1>4, <1>5 DEF Front
<1>9. QED
  BY <1>3, <1>4, <1>5, <1>6, <1>7, <1>8 DEF p

(* What is made of path p: its last name, below the node of the others. *)
Made(p, type) ==
  \E g \in AGs, b \in Blocks, r \in InodeType : \E c :
    /\ Created(g, b, r)
    /\ r.type = type /\ r.name = Clean(Last(p)) /\ r.parent = InodeOf(c)
    /\ Named(Records, c, Front(p)) /\ Len(c) = Len(p) - 1

Plain(p) == \A i \in DOMAIN p : p[i] \notin {Dot, DotDot}

LEMMA PlainFront ==
  ASSUME NEW p \in Seq(Name), p # <<>>, Plain(p)
  PROVE  /\ Front(p) \in Seq(Name) /\ Len(Front(p)) = Len(p) - 1 /\ Plain(Front(p))
         /\ Abs(Front(p)) \in Path
<1> DEFINE front == Front(p)
<1> HIDE DEF Name
<1>1. /\ front \in Seq(Name) /\ Len(front) = Len(p) - 1 /\ Len(p) \in Nat \ {0}
      /\ \A i \in 1 .. Len(p) - 1 : front[i] = p[i]
  BY FrontOf
<1> HIDE DEF front
<1>2. DOMAIN front = 1 .. Len(p) - 1 /\ DOMAIN p = 1 .. Len(p)
  BY <1>1
<1>3. Plain(front)
  BY <1>1, <1>2 DEF Plain
<1>4. Abs(front) \in Path
  BY <1>1 DEF Abs, Path
<1>5. QED
  BY <1>1, <1>3, <1>4 DEF front

LEMMA PathCreated ==
  ASSUME TypeOK, TypeOK', Numbered, HeldTrue, HeldTrue', BlocksAccounted,
         NEW p \in Seq(Name), p # <<>>, Plain(p),
         NEW pg \in Nat, NEW type \in {"DIR", "FILE"}, ParentFor(Abs(p), pg).node # NoNode,
         XfsCreateFile(NameIn(Abs(p)), type, InodeOf(ParentFor(Abs(p), pg).node))
  PROVE  /\ UNCHANGED tables \/ Made(p, type)
         /\ ~Full /\ Len(Last(p)) = 1 /\ Proper(Last(p)) => Found(p)'
<1> DEFINE front == Front(p)
           c == Lookup(Abs(front), pg).node
           name == Last(p)
<1>1. /\ front \in Seq(Name) /\ Len(front) = Len(p) - 1 /\ Plain(front) /\ Abs(front) \in Path
  BY PlainFront
<1>2. ParentFor(Abs(p), pg) = Lookup(Abs(front), pg) /\ NameIn(Abs(p)) = name /\ name \in Name
  BY ParentByFront
<1>3. c # NoNode /\ XfsCreateFile(name, type, InodeOf(c))
  BY <1>2
<1>4. Lookup(Abs(front), pg) \in Reached(pg)
  BY <1>1, LookupIsTrue
<1>5. TrueNode(Records, c)
  BY <1>3, <1>4 DEF Reached
<1>6. Named(Records, c, front) /\ Len(c) = Len(p) - 1
  <2> HIDE DEF front
  <2>1. Lookup(Abs(front), pg).node # NoNode
    BY <1>3
  <2>2. \A i \in DOMAIN front : front[i] \notin {Dot, DotDot}
    BY <1>1 DEF Plain
  <2>3. QED BY <1>1, <2>1, <2>2, LookupNamed
<1>7. PICK d : d = c
  OBVIOUS
<1>8. TrueNode(Records, d) /\ XfsCreateFile(name, type, InodeOf(d)) /\ Named(Records, d, front)
      /\ Len(d) = Len(p) - 1 /\ d = Lookup(Abs(front), pg).node /\ d # NoNode
  BY <1>3, <1>5, <1>6, <1>7
<1> HIDE DEF c, front, name
<1>9. ASSUME NEW g \in AGs, NEW b \in Blocks, Created(g, b, Inode(name, type, InodeOf(d), b))
      PROVE  /\ Made(p, type)
             /\ Len(name) = 1 => Found(p)'
  <2>0. PICK r : r = Inode(name, type, InodeOf(d), b)
    OBVIOUS
  <2>1. r \in InodeType
    BY <1>2, <1>8, <2>0, InodeIsTyped, TrueNodeInode
  <2>2. /\ r.type = type /\ r.name = Clean(name) /\ r.parent = InodeOf(d)
        /\ Created(g, b, r)
    BY <1>9, <2>0 DEF Inode
  <2>3. Made(p, type)
    BY <1>8, <2>1, <2>2 DEF Made, front, name
  <2>4. ASSUME Len(name) = 1 PROVE Found(p)'
    <3>1. Clean(name) = name
      <4>1. name \in Seq(Words)
        BY <1>2 DEF Name
      <4>2. name = <<Head(name)>>
        BY <2>4, <4>1
      <4>3. QED BY <4>2 DEF Clean
    <3>2. \A i \in DOMAIN p : p[i] \notin {Dot, DotDot}
      BY DEF Plain
    <3>3. /\ Lookup(Abs(Front(p)), pg).node # NoNode
          /\ r.parent = InodeOf(Lookup(Abs(Front(p)), pg).node) /\ r.name = Last(p)
      BY <1>8, <2>2, <3>1 DEF front, name
    <3>4. QED BY <2>1, <2>2, <3>2, <3>3, CreatedIsFound
  <2>5. QED BY <2>3, <2>4
<1>10. UNCHANGED tables \/ Made(p, type)
  BY <1>2, <1>8, <1>9, CreateFileStep
<1>11. ASSUME ~Full, Len(name) = 1, Proper(name) PROVE Found(p)'
  BY <1>2, <1>8, <1>9, <1>11, CreateSucceeds
<1>12. QED
  BY <1>10, <1>11 DEF name

(* If the path but for its last name is found, and there are pages and     *)
(* inode records enough, then what a step makes of the path is found.      *)
Enough(p) == ~Full /\ pages' # 0 /\ Len(Last(p)) = 1 /\ Proper(Last(p)) /\ Found(Front(p))

(* The look-up of the directory of path p with which a step ends. *)
LEMMA ParentHere ==
  ASSUME TypeOK, HeldTrue, NEW p \in Seq(Name), p # <<>>, Plain(p), NEW pg \in Nat,
         Found(Front(p)), ParentFor(Abs(p), pg).pages # 0
  PROVE  ParentFor(Abs(p), pg).node # NoNode
<1> DEFINE front == Front(p)
<1>1. front \in Seq(Name) /\ Abs(front) \in Path
  BY PlainFront
<1>2. ParentFor(Abs(p), pg) = Lookup(Abs(front), pg)
  BY ParentByFront
<1> HIDE DEF front
<1>3. PICK q \in Nat : Lookup(Abs(front), q).node # NoNode
  BY DEF Found, front
<1>4. Behind(Lookup(Abs(front), pg), Lookup(Abs(front), q))
  BY <1>1, <1>3, LookupsAgree
<1>5. QED
  BY <1>2, <1>3, <1>4 DEF Behind

LEMMA MakeIfAbsentMakes ==
  ASSUME TypeOK, TypeOK', Numbered, HeldTrue, HeldTrue', BlocksAccounted,
         NEW p \in Seq(Name), Plain(p), MakeIfAbsent(Abs(p))
  PROVE  /\ UNCHANGED tables \/ (p # <<>> /\ Made(p, "DIR"))
         /\ p # <<>> /\ Enough(p) => Found(p)'
<1> DEFINE there == Lookup(Abs(p), pages)
           again == Lookup(Abs(p), there.pages)
           parent == ParentFor(Abs(p), again.pages)
<1>1. Abs(p) \in Path
  BY DEF Abs, Path
<1>2. pages \in 0 .. pages /\ pages \in Nat
  BY PagesNow
<1>3. there.pages \in 0 .. pages
  BY <1>1, <1>2, LookupPages
<1> HIDE DEF there
<1>4. again.pages \in 0 .. pages
  BY <1>1, <1>3, LookupPages
<1>5. there.pages \in Nat /\ again.pages \in Nat
  BY <1>2, <1>3, <1>4
<1>6. \/ there.node # NoNode /\ UNCHANGED tables
      \/ again.node # NoNode /\ UNCHANGED tables
      \/ /\ there.node = NoNode /\ pages' = parent.pages
         /\ IF parent.node = NoNode THEN UNCHANGED tables
              ELSE XfsCreateFile(NameIn(Abs(p)), "DIR", InodeOf(parent.node))
  BY DEF MakeIfAbsent, there
<1>7. ASSUME Found(p), UNCHANGED tables PROVE Found(p)'
  BY <1>7, FoundStays DEF tables
<1>8. CASE there.node # NoNode /\ UNCHANGED tables
  <2>1. Found(p)
    BY <1>2, <1>8 DEF Found, there
  <2>2. QED BY <1>7, <1>8, <2>1
<1>9. CASE again.node # NoNode /\ UNCHANGED tables
  <2>1. Found(p)
    BY <1>5, <1>9 DEF Found
  <2>2. QED BY <1>7, <1>9, <2>1
<1>10. CASE /\ there.node = NoNode /\ pages' = parent.pages
            /\ IF parent.node = NoNode THEN UNCHANGED tables
                 ELSE XfsCreateFile(NameIn(Abs(p)), "DIR", InodeOf(parent.node))
  <2>1. p # <<>>
    <3>1. ASSUME p = <<>> PROVE FALSE
      <4>1. there.node = Root
        BY <1>2, <3>1, LookupRoot DEF there
      <4>2. QED BY <1>10, <4>1, RootIsTrue
    <3>2. QED BY <3>1
  <2> HIDE DEF again
  <2>2. Enough(p) => parent.node # NoNode
    BY <1>5, <1>10, <2>1, ParentHere DEF Enough
  <2>3. CASE parent.node = NoNode
    BY <1>10, <2>2, <2>3
  <2>4. CASE parent.node # NoNode
    <3>1. /\ UNCHANGED tables \/ Made(p, "DIR")
          /\ ~Full /\ Len(Last(p)) = 1 /\ Proper(Last(p)) => Found(p)'
      BY <1>5, <1>10, <2>1, <2>4, PathCreated
    <3>2. QED BY <2>1, <3>1 DEF Enough
  <2>5. QED BY <2>3, <2>4
<1>11. QED
  BY <1>6, <1>8, <1>9, <1>10

LEMMA MadeFits ==
  ASSUME TypeOK, TypeOK', Numbered, Numbered', TreeArchive, \A q \in Records : RecordFits(q),
         NEW e \in DOMAIN Archive, NEW p \in Seq(Name), p # <<>>, Len(p) <= Len(PathOf(e)),
         \A i \in 1 .. Len(p) : p[i] = PathOf(e)[i], NEW type, UNCHANGED tables \/ Made(p, type),
         \/ type = "DIR" /\ (Archive[e].type = "DIR" \/ Len(p) < Len(PathOf(e)))
         \/ Archive[e].type = "FILE" /\ Len(p) = Len(PathOf(e)) /\ ~Pending(e)',
         \A k \in DOMAIN Archive : Pending(k)' => Pending(k)
  PROVE  /\ \A q \in Records' : RecordFits(q)'
         /\ Records \subseteq Records'
<1>1. CASE UNCHANGED tables
  <2>1. Records' = Records
    BY <1>1 DEF tables, Records
  <2>2. ASSUME NEW q \in Records PROVE RecordFits(q)'
    <3>1. RecordFits(q)
      OBVIOUS
    <3>2. QED BY <2>1, <3>1 DEF RecordFits, Unpacks, PathOf
  <2>3. QED BY <2>1, <2>2
<1>2. CASE Made(p, type)
  <2>1. PICK g \in AGs, b \in Blocks, r \in InodeType : \E c :
          /\ Created(g, b, r)
          /\ r.type = type /\ r.name = Clean(Last(p)) /\ r.parent = InodeOf(c)
          /\ Named(Records, c, Front(p)) /\ Len(c) = Len(p) - 1
    BY <1>2 DEF Made
  <2>2. PICK c :
          /\ Created(g, b, r)
          /\ r.type = type /\ r.name = Clean(Last(p)) /\ r.parent = InodeOf(c)
          /\ Named(Records, c, Front(p)) /\ Len(c) = Len(p) - 1
    BY <2>1
  <2>3. \/ r.type = "DIR" /\ (Archive[e].type = "DIR" \/ Len(p) < Len(PathOf(e)))
        \/ Archive[e].type = "FILE" /\ Len(p) = Len(PathOf(e)) /\ ~Pending(e)'
    BY <2>2
  <2>4. \A q \in Records' : RecordFits(q)'
    BY <2>2, <2>3, CreatedFits
  <2>5. Records' = Records \union {r}
    BY <2>2, CreatedRecords
  <2>6. QED BY <2>4, <2>5
<1>3. QED
  BY <1>1, <1>2

(* The counters of the boot thread. *)
LEMMA BootFields ==
  ASSUME TypeOK
  PROVE  /\ boot.at \in Nat /\ boot.part \in Nat
         /\ NextEntry => boot'.stage = boot.stage /\ boot'.at = boot.at + 1 /\ boot'.part = 1
         /\ NextPart => boot'.stage = boot.stage /\ boot'.at = boot.at /\ boot'.part = boot.part + 1
         /\ \A stage : Enter(stage) => boot'.stage = stage /\ boot'.at = 1 /\ boot'.part = 1
<1> DEFINE Stages == {"tree", "tar", "fb", "modules", "idle"}
<1>1. boot \in [stage : Stages, at : Nat, part : Nat]
  BY DEF TypeOK
<1> HIDE DEF Stages
<1>2. ASSUME NextEntry
      PROVE  boot'.stage = boot.stage /\ boot'.at = boot.at + 1 /\ boot'.part = 1
  BY <1>1, <1>2 DEF NextEntry
<1>3. ASSUME NextPart
      PROVE  boot'.stage = boot.stage /\ boot'.at = boot.at /\ boot'.part = boot.part + 1
  BY <1>1, <1>3 DEF NextPart
<1>4. QED
  BY <1>1, <1>2, <1>3 DEF Enter

LEMMA PendingFalls ==
  ASSUME TypeOK, BootCounts, NextEntry \/ NextPart
  PROVE  \A k \in DOMAIN Archive : Pending(k)' => Pending(k)
<1>1. SUFFICES ASSUME NEW k \in DOMAIN Archive, Pending(k)' PROVE Pending(k)
  OBVIOUS
<1>2. k \in Nat /\ Len(PathOf(k)) \in Nat
  BY EntryTyped
<1>3. k > boot'.at \/ (k = boot'.at /\ boot'.part <= Len(PathOf(k)))
  BY <1>1 DEF Pending, PathOf
<1>4. \/ boot'.at = boot.at + 1
      \/ boot'.at = boot.at /\ boot'.part = boot.part + 1
  BY BootFields
<1>5. boot.at \in Nat /\ boot.part \in Nat
  BY BootFields
<1> DEFINE n == Len(PathOf(k))
<1> HIDE DEF n
<1>6. k > boot.at \/ (k = boot.at /\ boot.part <= n)
  <2>1. n \in Nat /\ (k > boot'.at \/ (k = boot'.at /\ boot'.part <= n))
    BY <1>2, <1>3 DEF n
  <2>2. QED BY <1>2, <1>4, <1>5, <2>1
<1>7. QED
  BY <1>6 DEF Pending, n

LEMMA FullStays ==
  ASSUME TypeOK, TypeOK', TableStep, Full
  PROVE  Full'
<1>1. MaxFilesAg \in Nat
  BY NamespaceAssumption, Zenon
<1>2. \A g \in AGs : inode_count[g] = MaxFilesAg /\ inode_count'[g] \in 0 .. MaxFilesAg
  BY DEF Full, TypeOK
<1>3. inode_count' = inode_count
  <2>1. ASSUME NEW g \in AGs, NEW b \in Blocks, NEW r \in InodeType, Created(g, b, r) PROVE FALSE
    BY <1>1, <1>2, <2>1 DEF Created
  <2>2. QED BY <2>1 DEF TableStep, tables, BindsEntry, Bound
<1>4. QED
  BY <1>2, <1>3 DEF Full

(* The thread is at the beginning of an entry. *)
Fresh == boot.part = 1

(* Then the path made so far is the root, which is there. *)
LEMMA FreshProgress == TypeOK' /\ HeldTrue' /\ Fresh' => Progress'
<1>1. ASSUME TypeOK, HeldTrue, boot.part = 1 PROVE Progress
  <2>1. SUFFICES ASSUME boot.at \in DOMAIN Archive
                 PROVE  boot.part <= Len(Parts) + 1 /\ Found(SubSeq(Parts, 1, boot.part - 1))
    BY DEF Progress
  <2>2. Len(PathOf(boot.at)) \in Nat /\ PathOf(boot.at) \in Seq(Name)
    BY <2>1, EntryTyped
  <2>3. Parts = PathOf(boot.at)
    BY DEF Parts, PathOf
  <2>4. SubSeq(Parts, 1, boot.part - 1) = <<>>
    <3> DEFINE x == PathOf(boot.at)
    <3>1. x \in Seq(Name)
      BY <2>2
    <3> HIDE DEF x, Name
    <3>2. SubSeq(x, 1, 0) = <<>>
      BY <3>1
    <3>3. boot.part - 1 = 0
      BY <1>1
    <3>4. QED BY <2>3, <3>2, <3>3 DEF x
  <2>5. Found(<<>>)
    <3>1. Lookup(Abs(<<>>), 0) = [node |-> Root, pages |-> 0]
      BY <1>1, LookupRoot
    <3>2. Lookup(Abs(<<>>), 0).node # NoNode
      BY <3>1, RootIsTrue
    <3>3. QED BY <3>2 DEF Found
  <2>6. boot.part <= Len(Parts) + 1
    BY <1>1, <2>2, <2>3
  <2>7. QED BY <2>4, <2>5, <2>6
<1>2. TypeOK /\ HeldTrue /\ Fresh => Progress
  BY <1>1 DEF Fresh
<1>3. QED
  BY <1>2, PTL

LEMMA EntryNow ==
  ASSUME TypeOK, BootCounts, NEW type, InArchive(type)
  PROVE  /\ boot.at \in DOMAIN Archive /\ Archive[boot.at].type = type
         /\ DOMAIN Archive \subseteq Nat /\ Parts = PathOf(boot.at)
<1>1. Archive \in Seq([type : {"DIR", "FILE"}, parts : Seq(Name)])
  BY NamespaceAssumption
<1>2. DOMAIN Archive = 1 .. Len(Archive) /\ Len(Archive) \in Nat
  <2> DEFINE E == [type : {"DIR", "FILE"}, parts : Seq(Name)]
  <2>1. Archive \in Seq(E)
    BY <1>1
  <2> HIDE DEF E
  <2>2. QED BY <2>1
<1>3. boot.at \in Nat /\ boot.at >= 1 /\ boot.at <= Len(Archive)
  BY BootFields DEF BootCounts, InArchive
<1>4. QED
  BY <1>2, <1>3 DEF InArchive, Parts, PathOf

(* The step of a directory entry. *)
LEMMA LoadDirectory ==
  ASSUME PlainArchive, TreeArchive, TreeInv, TreeInv', Loading, UnpackDirectory
  PROVE  Loading'
<1>1. /\ TypeOK /\ TypeOK' /\ Numbered /\ Numbered' /\ HeldTrue /\ HeldTrue'
      /\ BlocksAccounted /\ BootCounts
  BY DEF TreeInv
<1>2. InArchive("DIR") /\ MakeIfAbsent(Abs(Parts)) /\ NextEntry
  BY DEF UnpackDirectory
<1>3. PICK e : e = boot.at
  OBVIOUS
<1>4. e \in DOMAIN Archive /\ Archive[e].type = "DIR" /\ DOMAIN Archive \subseteq Nat /\ Parts = PathOf(e)
  BY <1>1, <1>2, <1>3, EntryNow
<1> DEFINE p == PathOf(e)
<1>5. p \in Seq(Name) /\ Len(p) \in Nat
  BY <1>4, EntryTyped
<1>6. Plain(p)
  BY <1>4 DEF Plain, PlainArchive, PathOf
<1> HIDE DEF p
<1>7. UNCHANGED tables \/ (p # <<>> /\ Made(p, "DIR"))
  BY <1>1, <1>2, <1>4, <1>5, <1>6, MakeIfAbsentMakes DEF p
<1>8. \A k \in DOMAIN Archive : Pending(k)' => Pending(k)
  BY <1>1, <1>2, PendingFalls
<1>9. (\A q \in Records' : RecordFits(q)') /\ Records \subseteq Records'
  <2>1. \A q \in Records : RecordFits(q)
    BY DEF Loading
  <2>2. CASE UNCHANGED tables
    <3>1. Records' = Records
      BY <2>2 DEF tables, Records
    <3>2. ASSUME NEW q \in Records PROVE RecordFits(q)'
      BY <1>8, <2>1, <3>1 DEF RecordFits, Unpacks, PathOf
    <3>3. QED BY <3>1, <3>2
  <2>3. CASE p # <<>> /\ Made(p, "DIR")
    <3>1. Len(p) <= Len(PathOf(e)) /\ \A i \in 1 .. Len(p) : p[i] = PathOf(e)[i]
      BY <1>5 DEF p
    <3>2. QED BY <1>1, <1>4, <1>5, <1>8, <2>1, <2>3, <3>1, MadeFits
  <2>4. QED BY <1>7, <2>2, <2>3
<1>10. boot'.at = boot.at + 1 /\ Fresh' /\ boot.at \in Nat
  BY <1>1, <1>2, BootFields DEF Fresh
<1>11. Progress'
  BY <1>1, <1>10, FreshProgress
<1>12. LoadedUpTo(boot.at)'
  <2>1. ASSUME NEW k \in DOMAIN Archive, Unpacks(k), k < boot'.at
        PROVE  \E r \in Records' : r.data = k
    <3>1. k # e
      BY <1>4, <2>1 DEF Unpacks
    <3>2. k < boot.at
      BY <1>3, <1>4, <1>10, <2>1, <3>1
    <3>3. \E r \in Records : r.data = k
      BY <2>1, <3>2 DEF Loading, LoadedUpTo
    <3>4. QED BY <1>9, <3>3
  <2>2. QED BY <2>1 DEF LoadedUpTo, Unpacks, PathOf
<1>13. QED
  BY <1>9, <1>11, <1>12 DEF Loading

(* A step that stays at a file entry keeps the files that are loaded. *)
LEMMA LoadedStays ==
  ASSUME LoadedUpTo(boot.at), boot'.at = boot.at, Records \subseteq Records'
  PROVE  LoadedUpTo(boot.at)'
BY DEF LoadedUpTo, Unpacks, PathOf

(* A round of ensure_directory_exists. *)
LEMMA LoadParents ==
  ASSUME PlainArchive, TreeArchive, TreeInv, TreeInv', Loading, EnsureDirectory, ~Full, pages' # 0
  PROVE  Loading'
<1>1. /\ TypeOK /\ TypeOK' /\ Numbered /\ Numbered' /\ HeldTrue /\ HeldTrue'
      /\ BlocksAccounted /\ BootCounts
  BY DEF TreeInv
<1>2. /\ InArchive("FILE") /\ boot.part < Len(Parts)
      /\ MakeIfAbsent(Abs(SubSeq(Parts, 1, boot.part))) /\ NextPart
  BY DEF EnsureDirectory
<1>3. PICK e, m : e = boot.at /\ m = boot.part
  OBVIOUS
<1>4. e \in DOMAIN Archive /\ Archive[e].type = "FILE" /\ Parts = PathOf(e)
  BY <1>1, <1>2, <1>3, EntryNow
<1> DEFINE p == SubSeq(PathOf(e), 1, m)
           n == Len(PathOf(e))
<1>5. n \in Nat /\ m \in 1 .. n - 1 /\ m \in 0 .. n /\ m > 0
  <2>3. n \in Nat
    BY <1>4, EntryTyped
  <2> HIDE DEF n
  <2>4. m \in Nat /\ m >= 1 /\ m < n
    BY <1>1, <1>2, <1>3, <1>4, BootFields DEF BootCounts, n
  <2>5. QED BY <2>3, <2>4
<1>6. /\ p \in Seq(Name) /\ Len(p) = m /\ (\A i \in 1 .. m : p[i] = PathOf(e)[i])
      /\ Front(p) = SubSeq(PathOf(e), 1, m - 1) /\ PathOf(e) \in Seq(Name)
  BY <1>4, <1>5, EntryPath
<1>7. Plain(p)
  <2>1. DOMAIN p = 1 .. m
    <3> HIDE DEF p, n
    <3> QED BY <1>5, <1>6
  <2>2. \A i \in 1 .. m : i \in DOMAIN PathOf(e)
    <3> DEFINE x == PathOf(e)
    <3>1. x \in Seq(Name) /\ m \in 1 .. Len(x) - 1
      BY <1>5, <1>6
    <3> HIDE DEF x
    <3>2. \A i \in 1 .. m : i \in DOMAIN x
      BY <3>1
    <3>3. QED BY <3>2 DEF x
  <2> HIDE DEF p
  <2>3. ASSUME NEW i \in DOMAIN p PROVE p[i] \notin {Dot, DotDot}
    <3>1. i \in DOMAIN PathOf(e) /\ p[i] = PathOf(e)[i]
      BY <1>6, <2>1, <2>2, <2>3
    <3>2. QED BY <1>4, <3>1 DEF PlainArchive, PathOf
  <2>4. QED BY <2>3 DEF Plain
<1> HIDE DEF p
<1>8. p # <<>>
  BY <1>5, <1>6
<1>9. MakeIfAbsent(Abs(p))
  BY <1>2, <1>3, <1>4 DEF p
<1>10. /\ UNCHANGED tables \/ Made(p, "DIR")
       /\ Enough(p) => Found(p)'
  BY <1>1, <1>6, <1>7, <1>8, <1>9, MakeIfAbsentMakes
<1>11. \A k \in DOMAIN Archive : Pending(k)' => Pending(k)
  BY <1>1, <1>2, PendingFalls
<1>12. (\A q \in Records' : RecordFits(q)') /\ Records \subseteq Records'
  <2>1. \A q \in Records : RecordFits(q)
    BY DEF Loading
  <2>2. Len(p) <= Len(PathOf(e)) /\ Len(p) < Len(PathOf(e))
    BY <1>5, <1>6
  <2>3. \A i \in 1 .. Len(p) : p[i] = PathOf(e)[i]
    BY <1>6
  <2>4. QED BY <1>1, <1>4, <1>6, <1>8, <1>10, <1>11, <2>1, <2>2, <2>3, MadeFits
<1>13. boot'.at = e /\ boot'.part = m + 1
  BY <1>1, <1>2, <1>3, BootFields
<1>14. Progress'
  <2>1. ASSUME Unpacks(e) PROVE Found(p)'
    <3>1. Found(Front(p))
      <4>1. Found(SubSeq(PathOf(e), 1, m - 1))
        BY <1>3, <1>4, <2>1 DEF Loading, Progress
      <4>2. QED BY <1>6, <4>1
    <3>2. m \in DOMAIN PathOf(e) /\ Last(p) = PathOf(e)[m]
      <4> DEFINE x == PathOf(e)
      <4>1. x \in Seq(Name) /\ m \in 1 .. Len(x) - 1
        BY <1>5, <1>6
      <4> HIDE DEF x
      <4>2. m \in DOMAIN x
        BY <4>1
      <4>3. QED BY <1>5, <1>6, <4>2 DEF Last, x
    <3>3. Len(Last(p)) = 1 /\ Proper(Last(p))
      BY <1>4, <2>1, <3>2, Zenon DEF Unpacks, TreeArchive, Proper
    <3>4. QED BY <1>10, <3>1, <3>3 DEF Enough
  <2>2. SubSeq(PathOf(boot'.at), 1, boot'.part - 1) = p
    BY <1>5, <1>13 DEF p
  <2>3. boot'.part <= n + 1
    BY <1>5, <1>13
  <2>4. QED
    BY <1>13, <2>1, <2>2, <2>3 DEF Progress, Parts, PathOf, Unpacks, p
<1>15. LoadedUpTo(boot.at)'
  BY <1>3, <1>12, <1>13, LoadedStays DEF Loading
<1>16. QED
  BY <1>12, <1>14, <1>15 DEF Loading

(* Before its entry is unpacked a file is not there. *)
LEMMA NotThere ==
  ASSUME TypeOK, Numbered, HeldTrue, \A r \in Records : RecordFits(r),
         NEW e \in DOMAIN Archive, Unpacks(e), PathOf(e) # <<>>, Plain(PathOf(e)), Pending(e),
         NEW pg \in Nat
  PROVE  Lookup(Abs(PathOf(e)), pg).node = NoNode
<1> DEFINE p == PathOf(e)
           n == Lookup(Abs(p), pg).node
<1>1. SUFFICES ASSUME n # NoNode PROVE FALSE
  OBVIOUS
<1>2. p \in Seq(Name) /\ \A i \in DOMAIN p : p[i] \notin {Dot, DotDot}
  BY EntryTyped DEF Plain
<1>3. Named(Records, n, p) /\ Len(n) = Len(p)
  <2> HIDE DEF p, Name
  <2> QED BY <1>1, <1>2, LookupNamed
<1> HIDE DEF n
<1>4. TrueNode(Records, n) /\ Len(p) \in Nat \ {0}
  BY <1>2, <1>3 DEF Named
<1>5. n # Root
  BY <1>3, <1>4 DEF Root
<1>6. PICK r \in Records : r.num = InodeOf(n)
  BY <1>4, <1>5, TrueNodeInode
<1> HIDE DEF p
<1>7. Len(n) < Len(PathOf(e)) \/ ~Pending(e)
  BY <1>3, <1>5, <1>6 DEF RecordFits, p
<1>8. QED
  BY <1>3, <1>4, <1>7 DEF p

(* The parent of a file of the archive is a directory. *)
LEMMA ParentIsDir ==
  ASSUME TypeOK, Numbered, HeldTrue, \A r \in Records : RecordFits(r),
         NEW e \in DOMAIN Archive, Unpacks(e), PathOf(e) # <<>>, Plain(PathOf(e)),
         NEW pg \in Nat, Lookup(Abs(Front(PathOf(e))), pg).node # NoNode
  PROVE  TypeOfNode(Lookup(Abs(Front(PathOf(e))), pg).node) = "DIR"
<1> DEFINE p == PathOf(e)
           front == Front(p)
           n == Lookup(Abs(front), pg).node
<1>1. p \in Seq(Name) /\ Len(p) \in Nat \ {0}
  <2> HIDE DEF Name
  <2>1. p \in Seq(Name) /\ p # <<>>
    BY EntryTyped
  <2> HIDE DEF p
  <2>2. QED BY <2>1
<1>2. front \in Seq(Name) /\ Len(front) = Len(p) - 1 /\ Plain(front)
  BY <1>1, PlainFront
<1>3. \A i \in 1 .. Len(p) - 1 : front[i] = p[i]
  <2> HIDE DEF p, Name
  <2> QED BY <1>1, FrontOf
<1>4. Named(Records, n, front) /\ Len(n) = Len(front)
  <2> HIDE DEF front, Name
  <2>1. \A i \in DOMAIN front : front[i] \notin {Dot, DotDot}
    BY <1>2 DEF Plain
  <2>2. Lookup(Abs(front), pg).node # NoNode
    BY DEF front
  <2>3. QED BY <1>2, <2>1, <2>2, LookupNamed
<1> HIDE DEF n, front
<1>5. CASE n = Root
  BY <1>5 DEF TypeOfNode, n, front
<1>6. CASE n # Root
  <2>1. TrueNode(Records, n) /\ n \in Seq(Nat) /\ Len(n) = Len(p) - 1
    BY <1>2, <1>4 DEF Named, TrueNode
  <2>2. DOMAIN n = 1 .. Len(p) - 1
    BY <2>1
  <2>3. Named(Records, n, p)
    <3>1. \A i \in DOMAIN n : \E q \in Records : q.num = n[i] /\ q.name = p[i]
      BY <1>3, <1>4, <2>2 DEF Named
    <3>2. Len(n) <= Len(p)
      BY <1>1, <2>1
    <3>3. QED BY <2>1, <3>1, <3>2 DEF Named
  <2>4. PICK r \in Records : r.num = InodeOf(n)
    BY <1>6, <2>1, TrueNodeInode
  <2>5. r.type = "DIR"
    <3>1. Len(n) # Len(p)
      BY <1>1, <2>1
    <3>2. QED BY <1>6, <2>3, <2>4, <3>1 DEF RecordFits
  <2>6. TypeOfNode(n) = "DIR"
    <3>1. RecordOf(InodeOf(n)) = r
      BY <2>4, RecordOfNumber
    <3>2. QED BY <1>6, <2>5, <3>1 DEF TypeOfNode
  <2>7. QED BY <2>6 DEF n, front
<1>7. QED
  BY <1>5, <1>6

(* The step that creates the file. *)
LEMMA LoadFile ==
  ASSUME PlainArchive, TreeArchive, TreeInv, TreeInv', Loading, UnpackFile, ~Full, pages' # 0
  PROVE  Loading'
<1>1. /\ TypeOK /\ TypeOK' /\ Numbered /\ Numbered' /\ HeldTrue /\ HeldTrue'
      /\ BlocksAccounted /\ BootCounts
  BY DEF TreeInv
<1>2. PICK e : e = boot.at
  OBVIOUS
<1> DEFINE p == PathOf(e)
           n == Len(p)
           there == Lookup(Abs(p), pages)
<1>3. /\ InArchive("FILE") /\ boot.part = n
      /\ e \in DOMAIN Archive /\ Archive[e].type = "FILE" /\ Parts = p
  <2>1. InArchive("FILE") /\ boot.part = Len(Parts)
    BY DEF UnpackFile
  <2>2. QED BY <1>1, <1>2, <2>1, EntryNow
<1>4. p \in Seq(Name) /\ n \in Nat /\ DOMAIN Archive \subseteq Nat
  BY <1>3, EntryTyped
<1>5. IF there.node # NoNode
        THEN pages' = there.pages /\ UNCHANGED tables /\ NextEntry
        ELSE VfsCreate(Abs(p), there.pages) /\ NextPart
  BY <1>3, Zenon DEF UnpackFile
<1>6. Plain(p)
  BY <1>3 DEF Plain, PlainArchive, PathOf
<1> HIDE DEF p
<1>7. n >= 1 /\ p # <<>>
  BY <1>1, <1>3, <1>4 DEF BootCounts
<1>8. \A k \in DOMAIN Archive : Pending(k)' => Pending(k)
  BY <1>1, <1>5, PendingFalls
<1>9. pages \in Nat /\ pages \in 0 .. pages /\ Abs(p) \in Path
  BY <1>1, <1>4, PagesNow DEF Abs, Path
<1>10. there.pages \in Nat
  BY <1>1, <1>9, LookupPages
<1>11. \A q \in Records : RecordFits(q)
  BY DEF Loading
<1>12. boot.at \in Nat
  BY <1>1, BootFields
<1>13. CASE there.node # NoNode
  <2>1. ~Unpacks(e)
    <3>1. ASSUME Unpacks(e) PROVE FALSE
      <4>1. Pending(e)
        BY <1>2, <1>3, <1>4 DEF Pending, p
      <4>2. QED BY <1>1, <1>3, <1>6, <1>7, <1>9, <1>11, <1>13, <3>1, <4>1, NotThere DEF p
    <3>2. QED BY <3>1
  <2>2. Records' = Records
    BY <1>5, <1>13 DEF tables, Records
  <2>3. ASSUME NEW q \in Records PROVE RecordFits(q)'
    BY <1>8, <1>11, <2>2 DEF RecordFits, Unpacks, PathOf
  <2>4. boot'.at = boot.at + 1 /\ Fresh'
    BY <1>1, <1>5, <1>13, BootFields DEF Fresh
  <2>5. Progress'
    BY <1>1, <2>4, FreshProgress
  <2>6. LoadedUpTo(boot.at)'
    <3>1. ASSUME NEW k \in DOMAIN Archive, Unpacks(k), k < boot'.at
          PROVE  \E r \in Records' : r.data = k
      <4>1. k < boot.at
        BY <1>2, <1>4, <1>12, <2>1, <2>4, <3>1
      <4>2. QED BY <2>2, <3>1, <4>1 DEF Loading, LoadedUpTo
    <3>2. QED BY <3>1 DEF LoadedUpTo, Unpacks, PathOf
  <2>7. QED BY <2>2, <2>3, <2>5, <2>6 DEF Loading
<1>14. CASE there.node = NoNode
  <2> DEFINE parent == ParentFor(Abs(p), there.pages)
  <2>1. /\ pages' = parent.pages
        /\ IF parent.node = NoNode \/ TypeOfNode(parent.node) # "DIR" THEN UNCHANGED tables
             ELSE XfsCreateFile(NameIn(Abs(p)), "FILE", InodeOf(parent.node))
    BY <1>5, <1>14 DEF VfsCreate
  <2> HIDE DEF there
  <2>2. boot'.at = e /\ boot'.part = n + 1
    BY <1>1, <1>2, <1>3, <1>5, <1>14, BootFields
  <2>3. ~Pending(e)'
    <3>1. Pending(e)' <=> e > boot'.at \/ (e = boot'.at /\ boot'.part <= n)
      BY DEF Pending, PathOf, p
    <3>2. e \in Nat /\ n \in Nat
      BY <1>3, <1>4
    <3> HIDE DEF n
    <3>3. QED BY <2>2, <3>1, <3>2
  <2>4. /\ UNCHANGED tables \/ Made(p, "FILE")
        /\ Unpacks(e) => Found(p)'
    <3>1. CASE parent.node = NoNode \/ TypeOfNode(parent.node) # "DIR"
      <4>1. ~Unpacks(e)
        <5>1. ASSUME Unpacks(e) PROVE FALSE
          <6>1. Found(Front(p))
            <7>1. Found(SubSeq(p, 1, n - 1))
              BY <1>2, <1>3, <5>1 DEF Loading, Progress
            <7>2. QED BY <7>1 DEF Front
          <6>2. parent.node # NoNode
            BY <1>1, <1>4, <1>6, <1>7, <1>10, <2>1, <6>1, ParentHere
          <6>3. parent = Lookup(Abs(Front(p)), there.pages)
            BY <1>1, <1>4, <1>7, <1>10, ParentByFront
          <6>4. TypeOfNode(parent.node) = "DIR"
            BY <1>1, <1>3, <1>6, <1>7, <1>10, <1>11, <5>1, <6>2, <6>3, ParentIsDir DEF p
          <6>5. QED BY <3>1, <6>2, <6>4
        <5>2. QED BY <5>1
      <4>2. QED BY <2>1, <3>1, <4>1
    <3>2. CASE ~(parent.node = NoNode \/ TypeOfNode(parent.node) # "DIR")
      <4>1. XfsCreateFile(NameIn(Abs(p)), "FILE", InodeOf(parent.node)) /\ parent.node # NoNode
        BY <2>1, <3>2
      <4>2. /\ UNCHANGED tables \/ Made(p, "FILE")
            /\ ~Full /\ Len(Last(p)) = 1 /\ Proper(Last(p)) => Found(p)'
        BY <1>1, <1>4, <1>6, <1>7, <1>10, <4>1, PathCreated
      <4>3. ASSUME Unpacks(e) PROVE Len(Last(p)) = 1 /\ Proper(Last(p))
        <5>1. n \in DOMAIN PathOf(e) /\ Last(p) = PathOf(e)[n]
          <6>1. n \in DOMAIN p
            <7> HIDE DEF Name
            <7> QED BY <1>4, <1>7
          <6>2. QED BY <6>1 DEF Last, p
        <5> HIDE DEF n
        <5>2. QED BY <1>3, <4>3, <5>1, Zenon DEF Unpacks, TreeArchive, Proper
      <4>4. QED BY <4>2, <4>3
    <3>3. QED BY <3>1, <3>2
  <2>5. (\A q \in Records' : RecordFits(q)') /\ Records \subseteq Records'
    <3>1. Len(p) <= Len(PathOf(e)) /\ Len(p) = Len(PathOf(e))
      BY <1>4 DEF p
    <3>2. \A i \in 1 .. Len(p) : p[i] = PathOf(e)[i]
      BY DEF p
    <3>3. QED BY <1>1, <1>3, <1>4, <1>7, <1>8, <1>11, <2>3, <2>4, <3>1, <3>2, MadeFits
  <2>6. Progress'
    <3>1. SubSeq(PathOf(boot'.at), 1, boot'.part - 1) = p
      <4>1. boot'.part - 1 = n
        BY <1>4, <2>2
      <4>2. SubSeq(p, 1, n) = p
        <5> HIDE DEF Name
        <5> QED BY <1>4
      <4>3. QED BY <2>2, <4>1, <4>2 DEF p
    <3>2. boot'.part <= n + 1
      BY <1>4, <2>2
    <3>3. QED
      BY <2>2, <2>4, <3>1, <3>2 DEF Progress, Parts, PathOf, Unpacks, p
  <2>7. LoadedUpTo(boot.at)'
    BY <1>2, <2>2, <2>5, LoadedStays DEF Loading
  <2>8. QED BY <2>5, <2>6, <2>7 DEF Loading
<1>15. QED
  BY <1>13, <1>14

(* Two files of a tree archive are not one inode. *)
LEMMA OtherFile ==
  ASSUME TypeOK, Numbered, TreeArchive, NEW k \in DOMAIN Archive, NEW e \in DOMAIN Archive,
         Archive[k].type = "FILE", k # e,
         NEW m, Named(Records, m, PathOf(k)), Len(m) = Len(PathOf(k)),
         NEW n, Named(Records, n, PathOf(e)), Len(n) = Len(PathOf(e)), InodeOf(m) = InodeOf(n)
  PROVE  FALSE
<1>1. TrueNode(Records, m) /\ TrueNode(Records, n)
  BY DEF Named
<1>2. m = n
  BY <1>1, OneNodePerInode
<1>3. Len(PathOf(k)) \in Nat /\ Len(PathOf(k)) = Len(PathOf(e))
  BY <1>2, EntryTyped
<1>4. ASSUME NEW i \in 1 .. Len(PathOf(k)) PROVE PathOf(k)[i] = PathOf(e)[i]
  <2>1. i \in DOMAIN m
    <3>1. m \in Seq(Nat)
      BY <1>1 DEF TrueNode
    <3>2. QED BY <3>1
  <2>2. PICK q \in Records : q.num = m[i] /\ q.name = PathOf(k)[i]
    BY <2>1 DEF Named
  <2>3. PICK r \in Records : r.num = m[i] /\ r.name = PathOf(e)[i]
    BY <1>2, <2>1 DEF Named
  <2>4. q = r
    BY <2>2, <2>3, NumbersAreUnique
  <2>5. QED BY <2>2, <2>3, <2>4
<1>5. Under(k, e)
  BY <1>3, <1>4 DEF Under
<1>6. QED
  BY <1>5 DEF TreeArchive

(* The step that binds the data. *)
LEMMA LoadData ==
  ASSUME PlainArchive, TreeArchive, TreeInv, TreeInv', ArchiveInv, Loading, BindFile, pages' # 0
  PROVE  Loading'
<1>1. /\ TypeOK /\ TypeOK' /\ Numbered /\ Numbered' /\ HeldTrue /\ HeldTrue' /\ BootCounts
  BY DEF TreeInv
<1>2. PICK e : e = boot.at
  OBVIOUS
<1> DEFINE p == PathOf(e)
           n == Len(p)
           new == Lookup(Abs(p), pages)
<1>3. /\ InArchive("FILE") /\ boot.part > n
      /\ e \in DOMAIN Archive /\ Archive[e].type = "FILE" /\ Parts = p
  <2>1. InArchive("FILE") /\ boot.part > Len(Parts)
    BY DEF BindFile
  <2>2. QED BY <1>1, <1>2, <2>1, EntryNow
<1>4. p \in Seq(Name) /\ n \in Nat /\ DOMAIN Archive \subseteq Nat /\ e \in Nat /\ e \in 1 .. Len(Archive)
  BY <1>3, EntryTyped
<1>5. /\ pages' = new.pages /\ NextEntry
      /\ UNCHANGED <<inode_count, block_bitmap, free_blocks, counter>>
      /\ inodes' = IF new.node = NoNode THEN inodes
                   ELSE [g \in AGs |-> [j \in DOMAIN inodes[g] |->
                           IF inodes[g][j].num = InodeOf(new.node)
                             THEN [inodes[g][j] EXCEPT !.data = boot.at]
                             ELSE inodes[g][j]]]
  BY <1>3, Zenon DEF BindFile
<1>6. Plain(p)
  BY <1>3 DEF Plain, PlainArchive, PathOf
<1> HIDE DEF p
<1>7. \A k \in DOMAIN Archive : Pending(k)' => Pending(k)
  BY <1>1, <1>5, PendingFalls
<1>8. pages \in Nat /\ pages \in 0 .. pages /\ Abs(p) \in Path
  BY <1>1, <1>4, PagesNow DEF Abs, Path
<1>9. \A q \in Records : RecordFits(q)
  BY DEF Loading
<1>10. boot.at \in Nat /\ boot.part \in Nat /\ boot'.at = boot.at + 1 /\ Fresh'
  BY <1>1, <1>5, BootFields DEF Fresh
<1>11. Progress'
  BY <1>1, <1>10, FreshProgress
<1>12. Unpacks(e) => new.node # NoNode
  <2>1. ASSUME Unpacks(e), new.node = NoNode PROVE FALSE
    <3>1. boot.part <= n + 1 /\ Found(SubSeq(p, 1, boot.part - 1))
      BY <1>2, <1>3, <2>1 DEF Loading, Progress
    <3>2. boot.part - 1 = n
      <4> HIDE DEF n
      <4> QED BY <1>3, <1>4, <1>10, <3>1
    <3>3. SubSeq(p, 1, n) = p
      <4> HIDE DEF Name
      <4> QED BY <1>4
    <3>4. PICK q \in Nat : Lookup(Abs(p), q).node # NoNode
      BY <3>1, <3>2, <3>3 DEF Found
    <3>5. Behind(new, Lookup(Abs(p), q))
      BY <1>1, <1>8, <3>4, LookupsAgree
    <3>6. QED BY <1>5, <2>1, <3>4, <3>5 DEF Behind
  <2>2. QED BY <2>1
<1>13. CASE new.node = NoNode
  <2>1. Records' = Records
    BY <1>5, <1>13 DEF Records
  <2>2. ASSUME NEW q \in Records PROVE RecordFits(q)'
    BY <1>7, <1>9, <2>1 DEF RecordFits, Unpacks, PathOf
  <2>3. LoadedUpTo(boot.at)'
    <3>1. ASSUME NEW k \in DOMAIN Archive, Unpacks(k), k < boot'.at
          PROVE  \E r \in Records' : r.data = k
      <4>1. k < boot.at
        BY <1>2, <1>4, <1>10, <1>12, <1>13, <3>1
      <4>2. QED BY <2>1, <3>1, <4>1 DEF Loading, LoadedUpTo
    <3>2. QED BY <3>1 DEF LoadedUpTo, Unpacks, PathOf
  <2>4. QED BY <1>11, <2>1, <2>2, <2>3 DEF Loading
<1>14. CASE new.node # NoNode
  <2>1. PICK c, num : c = new.node /\ num = InodeOf(c)
    OBVIOUS
  <2>2. Named(Records, c, p) /\ Len(c) = Len(p)
    <3> HIDE DEF Name
    <3>1. \A i \in DOMAIN p : p[i] \notin {Dot, DotDot}
      BY <1>6 DEF Plain
    <3>2. QED BY <1>1, <1>4, <1>8, <1>14, <2>1, <3>1, LookupNamed
  <2>3. TrueNode(Records, c) /\ num \in Nat
    BY <2>1, <2>2, TrueNodeInode DEF Named
  <2>4. Bound(num, e)
    BY <1>2, <1>5, <1>14, <2>1 DEF Bound
  <2> HIDE DEF new
  <2>5. \A r \in Records' : RecordFits(r)'
    BY <1>1, <1>4, <1>7, <1>9, <2>3, <2>4, BoundFits
  <2>6. /\ \A q \in Records : \E r \in Records' : SameFile(q, r)
        /\ \A r \in Records' : \E q \in Records :
             SameFile(q, r) /\ r.data = IF q.num = num THEN e ELSE q.data
    BY <1>1, <1>4, <2>3, <2>4, BoundRecords
  <2>7. ASSUME Unpacks(e) PROVE \E r \in Records' : r.data = e
    <3>1. p # <<>>
      BY <1>3, <2>7 DEF TreeArchive, p
    <3>2. c # Root
      <4>1. Len(p) # 0
        <5> HIDE DEF Name
        <5> QED BY <1>4, <3>1
      <4>2. QED BY <2>2, <4>1 DEF Root
    <3>3. PICK q \in Records : q.num = num
      BY <2>1, <2>3, <3>2, TrueNodeInode
    <3>4. PICK r \in Records' : SameFile(q, r)
      BY <2>6
    <3>5. PICK a \in Records : SameFile(a, r) /\ r.data = IF a.num = num THEN e ELSE a.data
      BY <2>6
    <3>6. r.data = e
      BY <3>3, <3>4, <3>5 DEF SameFile
    <3>7. QED BY <3>6
  <2>8. ASSUME NEW k \in DOMAIN Archive, Unpacks(k), k < e
        PROVE  \E r \in Records' : r.data = k
    <3>1. PICK q \in Records : q.data = k
      BY <1>2, <2>8 DEF Loading, LoadedUpTo
    <3>2. PICK r \in Records' : SameFile(q, r)
      BY <2>6
    <3>3. PICK a \in Records : SameFile(a, r) /\ r.data = IF a.num = num THEN e ELSE a.data
      BY <2>6
    <3>4. a = q
      <4>1. a.num = q.num
        BY <3>2, <3>3 DEF SameFile
      <4>2. QED BY <1>1, <4>1, NumbersAreUnique
    <3>5. q.num # num
      <4>1. ASSUME q.num = num PROVE FALSE
        <5>1. k # 0 /\ k # e
          <6>1. k \in 1 .. Len(Archive) /\ k \in Nat
            BY EntryTyped
          <6>2. QED BY <1>4, <2>8, <6>1
        <5>2. PICK m : /\ Named(Records, m, PathOf(k)) /\ Len(m) = Len(PathOf(k))
                       /\ InodeOf(m) = q.num
          BY <3>1, <5>1 DEF ArchiveInv, PathOf
        <5>3. Archive[k].type = "FILE"
          BY <2>8 DEF Unpacks
        <5>4. Named(Records, c, PathOf(e)) /\ Len(c) = Len(PathOf(e))
          BY <2>2 DEF p
        <5>5. QED BY <1>1, <1>3, <2>1, <4>1, <5>1, <5>2, <5>3, <5>4, OtherFile
      <4>2. QED BY <4>1
    <3>6. QED BY <3>1, <3>3, <3>4, <3>5
  <2>9. LoadedUpTo(boot.at)'
    <3>1. ASSUME NEW k \in DOMAIN Archive, Unpacks(k), k < boot'.at
          PROVE  \E r \in Records' : r.data = k
      <4>1. k = e \/ k < e
        BY <1>2, <1>4, <1>10, <3>1
      <4>2. QED BY <2>7, <2>8, <3>1, <4>1
    <3>2. QED BY <3>1 DEF LoadedUpTo, Unpacks, PathOf
  <2>10. QED BY <1>11, <2>5, <2>9 DEF Loading
<1>15. QED
  BY <1>13, <1>14

-----------------------------------------------------------------------------
(* The steps before and after. *)

Stages == {"fb", "modules", "idle"}

(* A step outside the unpacking binds nothing. *)
LEMMA CreatesOnly ==
  ASSUME TypeOK, TypeOK', TableStep, boot.stage # "tar"
  PROVE  Records \subseteq Records'
<1>1. ASSUME UNCHANGED tables PROVE Records' = Records
  BY <1>1 DEF tables, Records
<1>2. ASSUME NEW g \in AGs, NEW b \in Blocks, NEW r \in InodeType, Created(g, b, r)
      PROVE  Records \subseteq Records'
  BY <1>2, CreatedRecords
<1>3. QED
  BY <1>1, <1>2 DEF TableStep, BindsEntry

LEMMA LaterStages ==
  ASSUME TypeOK, [Next]_vars, boot.stage \in Stages
  PROVE  boot'.stage \in Stages
<1>1. CASE Boot
  <2>1. RegisterFb0 \/ CreateBinary \/ BootDone
    BY <1>1 DEF Boot, SystemDir, MountXfs, UnpackDirectory, EnsureDirectory, UnpackFile, BindFile,
                InArchive, EnableInterrupts, Stages
  <2>2. NextEntry \/ Enter("modules") \/ Enter("idle")
    BY <2>1 DEF RegisterFb0, CreateBinary, BootDone
  <2>3. QED BY <2>2, BootFields DEF Stages
<1>2. ASSUME NEW path \in Paths, Call(path) PROVE boot'.stage \in Stages
  <2>1. boot' = boot
    BY <1>2 DEF Call, Mkdir, Touch, ShellCd, SysChdir, SysOpen, Cat, Ls, Tree, Rm
  <2>2. QED BY <2>1
<1>3. CASE UNCHANGED vars
  BY <1>3 DEF vars
<1>4. QED
  BY <1>1, <1>2, <1>3 DEF Next, Call

(* From the mount on: memory or inode records ran out, or all is well. *)
LEMMA LoadInvKept ==
  ASSUME PlainArchive, TreeArchive, TreeInv, TreeInv', ArchiveInv, LoadInv, [Next]_vars
  PROVE  LoadInv'
<1>1. /\ TypeOK /\ TypeOK' /\ HeldTrue /\ HeldTrue'
  BY DEF TreeInv
<1>2. TableStep /\ pages' \in 0 .. pages /\ pages \in Nat
  BY <1>1, EveryStepHasShape, PagesNow DEF StepShape, FileStep
<1>3. pages = 0 \/ Full => pages' = 0 \/ Full'
  <2>1. pages = 0 => pages' = 0
    BY <1>2
  <2>2. QED BY <1>1, <1>2, <2>1, FullStays
<1>4. CASE boot.stage = "tree"
  <2>1. Records = {}
    BY <1>4 DEF LoadInv
  <2>2. CASE SystemDir
    <3>1. UNCHANGED tables /\ NextEntry
      BY <2>2 DEF SystemDir
    <3>2. Records' = {}
      BY <2>1, <3>1 DEF tables, Records
    <3>3. boot'.stage = "tree"
      BY <1>1, <1>4, <3>1, BootFields
    <3>4. QED BY <3>2, <3>3 DEF LoadInv
  <2>3. CASE MountXfs
    <3>1. UNCHANGED tables /\ Enter("tar")
      BY <2>3 DEF MountXfs
    <3>2. Records' = {}
      BY <2>1, <3>1 DEF tables, Records
    <3>3. boot'.stage = "tar" /\ boot'.at = 1 /\ Fresh'
      BY <1>1, <3>1, BootFields DEF Fresh
    <3>4. Progress'
      BY <1>1, <3>3, FreshProgress
    <3>5. LoadedUpTo(boot.at)'
      <4>1. ASSUME NEW k \in DOMAIN Archive, k < boot'.at PROVE FALSE
        <5>1. k \in 1 .. Len(Archive) /\ k \in Nat
          BY EntryTyped
        <5>2. QED BY <3>3, <4>1, <5>1
      <4>2. QED BY <4>1 DEF LoadedUpTo
    <3>6. QED BY <3>2, <3>3, <3>4, <3>5 DEF LoadInv, Loading
  <2>4. CASE UNCHANGED vars
    BY <1>4, <2>1, <2>4 DEF LoadInv, vars, Records
  <2>5. QED
    BY <1>4, <2>2, <2>3, <2>4
    DEF Next, Boot, UnpackDirectory, EnsureDirectory, UnpackFile, BindFile, InArchive,
        EnableInterrupts, RegisterFb0, CreateBinary, BootDone, Up, Mkdir, Touch, ShellCd, SysChdir,
        SysOpen, Cat, Ls, Tree, Rm
<1>5. CASE boot.stage = "tar"
  <2>1. pages = 0 \/ Full \/ Loading
    BY <1>5 DEF LoadInv
  <2>2. ASSUME UnpackDirectory \/ EnsureDirectory \/ UnpackFile \/ BindFile
        PROVE  boot'.stage = "tar"
    <3>1. NextEntry \/ NextPart
      BY <2>2 DEF UnpackDirectory, EnsureDirectory, UnpackFile, BindFile
    <3>2. QED BY <1>1, <1>5, <3>1, BootFields
  <2>3. ASSUME UnpackDirectory \/ EnsureDirectory \/ UnpackFile \/ BindFile
        PROVE  pages' = 0 \/ Full' \/ Loading'
    <3>1. SUFFICES ASSUME pages' # 0, ~Full' PROVE Loading'
      OBVIOUS
    <3>2. Loading /\ ~Full
      BY <1>3, <2>1, <3>1
    <3>3. QED BY <2>3, <3>1, <3>2, LoadDirectory, LoadParents, LoadFile, LoadData
  <2>4. CASE UnpackDirectory \/ EnsureDirectory \/ UnpackFile \/ BindFile
    BY <2>2, <2>3, <2>4 DEF LoadInv
  <2>5. CASE EnableInterrupts
    <3>1. UNCHANGED tables /\ Enter("fb") /\ boot.at > Len(Archive)
      BY <2>5 DEF EnableInterrupts
    <3>2. Records' = Records
      BY <3>1 DEF tables, Records
    <3>3. boot'.stage = "fb"
      BY <1>1, <3>1, BootFields
    <3>4. Loading => LoadedUpTo(Len(Archive) + 1)'
      <4>1. ASSUME Loading, NEW k \in DOMAIN Archive, Unpacks(k)
            PROVE  \E r \in Records' : r.data = k
        <5>1. k \in 1 .. Len(Archive) /\ k \in Nat /\ Len(Archive) \in Nat
          BY EntryTyped
        <5>2. k < boot.at
          BY <1>1, <3>1, <5>1, BootFields
        <5>3. QED BY <3>2, <4>1, <5>2 DEF Loading, LoadedUpTo
      <4>2. QED BY <4>1 DEF LoadedUpTo, Unpacks, PathOf
    <3>5. QED BY <1>3, <2>1, <3>3, <3>4 DEF LoadInv
  <2>6. CASE UNCHANGED vars
    <3>1. inodes' = inodes /\ boot' = boot
      BY <2>6 DEF vars
    <3>2. Records' = Records
      BY <3>1 DEF Records
    <3>3. Loading => Loading'
      <4>1. ASSUME Loading PROVE Loading'
        <5>1. ASSUME NEW q \in Records PROVE RecordFits(q)'
          BY <3>1, <3>2, <4>1 DEF Loading, RecordFits, Pending, Unpacks, PathOf
        <5>2. Progress'
          <6>1. ASSUME boot.at \in DOMAIN Archive, Unpacks(boot.at)
                PROVE  boot.part <= Len(Parts) + 1 /\ Found(SubSeq(Parts, 1, boot.part - 1))
            BY <4>1, <6>1 DEF Loading, Progress
          <6>2. PICK x : x = SubSeq(Parts, 1, boot.part - 1)
            OBVIOUS
          <6>3. ASSUME Found(x) PROVE Found(x)'
            <7>1. PICK pg \in Nat : Lookup(Abs(x), pg).node # NoNode
              BY <6>3 DEF Found
            <7>2. UNCHANGED vars
              BY <2>6
            <7>3. Lookup(Abs(x), pg)' = Lookup(Abs(x), pg)
              BY <7>2 DEF vars, Lookup, Walk, Finddir, Entries, FirstEntry
            <7>4. QED BY <7>1, <7>3 DEF Found
          <6>4. QED BY <3>1, <6>1, <6>2, <6>3 DEF Progress, Parts, Unpacks, PathOf
        <5>3. LoadedUpTo(boot.at)'
          BY <3>1, <3>2, <4>1 DEF Loading, LoadedUpTo, Unpacks, PathOf
        <5>4. QED BY <3>2, <5>1, <5>2, <5>3 DEF Loading
      <4>2. QED BY <4>1
    <3>4. QED BY <1>3, <1>5, <2>1, <3>1, <3>3 DEF LoadInv
  <2>7. QED
    BY <1>5, <2>4, <2>5, <2>6
    DEF Next, Boot, SystemDir, MountXfs, RegisterFb0, CreateBinary, BootDone, Up, Mkdir, Touch,
        ShellCd, SysChdir, SysOpen, Cat, Ls, Tree, Rm
<1>6. CASE boot.stage \in Stages
  <2>1. boot'.stage \in Stages
    BY <1>1, <1>6, LaterStages
  <2>2. Records \subseteq Records'
    BY <1>1, <1>2, <1>6, CreatesOnly DEF Stages
  <2>3. LoadedUpTo(Len(Archive) + 1) => LoadedUpTo(Len(Archive) + 1)'
    BY <2>2 DEF LoadedUpTo, Unpacks, PathOf
  <2>4. pages = 0 \/ Full \/ LoadedUpTo(Len(Archive) + 1)
    BY <1>6 DEF LoadInv, Stages
  <2>5. QED BY <1>3, <2>1, <2>3, <2>4 DEF LoadInv, Stages
<1>7. QED
  BY <1>4, <1>5, <1>6 DEF LoadInv, Stages

LEMMA NotEmpty ==
  ASSUME NEW T, NEW s \in Seq(T), s # <<>>
  PROVE  Len(s) \in Nat \ {0}
OBVIOUS

(* What the boot thread unpacks is there when the shell starts: every file *)
(* of the archive has an inode with its data, unless a path has a blank or *)
(* memory or inode records ran out.  For an archive that is a tree.        *)
THEOREM ArchiveGetsLoaded ==
  ASSUME PlainArchive, TreeArchive
  PROVE  Spec => []ArchiveLoaded
<1>1. Init => LoadInv /\ ArchiveInv
  <2>1. ASSUME Init PROVE LoadInv /\ ArchiveInv
    <3>1. TypeOK
      BY <2>1, TreeInvInitially DEF TreeInv
    <3>2. \A g \in AGs : DOMAIN inodes[g] = {}
      BY <2>1 DEF Init
    <3>3. Records = {}
      BY <3>1, <3>2, RecordsType
    <3>4. QED BY <2>1, <3>3 DEF LoadInv, ArchiveInv, Init
  <2>2. QED BY <2>1
<1>2. TreeInv /\ ArchiveInv /\ [Next]_vars => ArchiveInv'
  BY ArchiveInvKept
<1>3. TreeInv /\ TreeInv' /\ ArchiveInv /\ LoadInv /\ [Next]_vars => LoadInv'
  BY LoadInvKept
<1>4. LoadInv => ArchiveLoaded
  <2>1. ASSUME LoadInv, boot.stage \in {"fb", "modules", "idle"}, NEW k \in DOMAIN Archive
        PROVE  \/ Archive[k].type = "DIR"
               \/ \E i \in DOMAIN Archive[k].parts : Len(Archive[k].parts[i]) > 1
               \/ pages = 0
               \/ \A g \in AGs : inode_count[g] = MaxFilesAg
               \/ \E r \in Records : r.data = k
    <3>1. pages = 0 \/ Full \/ LoadedUpTo(Len(Archive) + 1)
      BY <2>1 DEF LoadInv
    <3>2. k < Len(Archive) + 1 /\ Archive[k].type \in {"DIR", "FILE"}
      <4>1. k \in 1 .. Len(Archive) /\ k \in Nat /\ Len(Archive) \in Nat
        BY EntryTyped
      <4>2. QED BY <4>1, EntryTyped
    <3>3. CASE LoadedUpTo(Len(Archive) + 1) /\ Archive[k].type = "FILE"
      <4>1. CASE Unpacks(k)
        BY <3>2, <3>3, <4>1 DEF LoadedUpTo
      <4>2. CASE ~Unpacks(k)
        <5>1. PICK i \in DOMAIN PathOf(k) : Len(PathOf(k)[i]) # 1
          BY <3>3, <4>2 DEF Unpacks
        <5>2. PathOf(k)[i] \in Name
          <6>1. PathOf(k) \in Seq(Name)
            BY EntryTyped
          <6> HIDE DEF Name
          <6>2. QED BY <6>1
        <5>3. Len(PathOf(k)[i]) > 1
          <6> DEFINE y == PathOf(k)[i]
          <6>1. y \in Seq(Words) /\ y # <<>> /\ Len(y) # 1
            BY <5>1, <5>2, Zenon DEF Name
          <6> HIDE DEF y
          <6>2. Len(y) \in Nat \ {0}
            BY <6>1, NotEmpty
          <6>3. Len(y) > 1
            BY <6>1, <6>2
          <6>4. QED BY <6>3 DEF y
        <5>4. QED BY <5>3 DEF PathOf
      <4>3. QED BY <4>1, <4>2
    <3>4. QED BY <3>1, <3>2, <3>3 DEF Full
  <2>2. QED BY <2>1 DEF ArchiveLoaded
<1>5. QED
  BY <1>1, <1>2, <1>3, <1>4, TreeInvHolds, PTL DEF Spec
=============================================================================
