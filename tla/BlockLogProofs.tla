---------------------------- MODULE BlockLogProofs ----------------------------
(***************************************************************************)
(* The block log and its index, for every length of the log and of the     *)
(* index writer's buffer: whatever operation a crash cuts short, the files *)
(* it leaves are ones from which the log reads back every block.           *)
(***************************************************************************)
EXTENDS BlockLog, SequenceTheorems, TLAPS

-----------------------------------------------------------------------------
(* The inductive invariant                                                 *)

Headers == {"absent", "empty", "part", "invalid", "set"}
Operations == {"nothing", "index", "append", "reset", "repair", "trim", "cut"}
LogType == [header : Headers, first : Nat, blocks : Seq(Nat), torn : BOOLEAN]
DiskType == [log : LogType, index : Seq(Nat), old : SUBSET Nat, backup : SUBSET Nat]

\* The blocks have consecutive numbers from the first one on, and only a file with a header has
\* any. While the version is 0 there is at most the first.
GoodLog(l) ==
    /\ \A i \in 1..Len(l.blocks) : l.blocks[i] = l.first + i - 1
    /\ l.header \in {"absent", "empty", "part"} => l.blocks = <<>>
    /\ l.header \in {"invalid", "set"} => l.first >= 1
    /\ l.torn => l.header = "set"

\* The index of a log: positions from a header of size h on, the first z of them not written yet.
\* One left by a longer log is longer than the log.
Shape(d, h, z) ==
    /\ \A i \in 1..Len(d.index) : d.index[i] = IF i <= z THEN 0 ELSE h + i - 1
    /\ h >= HeaderSize(d.log.first)
    /\ h > HeaderSize(d.log.first) => Len(d.index) > Len(d.log.blocks)

\* What the files are like at rest when the operations in cut have been interrupted and the
\* blocks in k are to be kept.
Resting(d, k, cut) ==
    /\ d \in DiskType
    /\ k \in SUBSET Nat
    /\ GoodLog(d.log)
    /\ d.log.header = "set" =>
           \E h \in {1, 2}, z \in 0..Len(d.index) : Shape(d, h, z) /\ ("index" \notin cut => z = 0)
    /\ k \subseteq Blocks(d.log) \cup d.old \cup d.backup
    /\ d.log.header = "set" => k \subseteq Blocks(d.log) \cup d.backup
    /\ d.log.header = "invalid" => k = {}
    /\ d.log.header # "part" /\ cut \cap {"repair", "trim"} = {} => k \subseteq Blocks(d.log)

\* What the files are like when the block log is open.
Openable(d) ==
    /\ d.log.header \in {"empty", "set"}
    /\ ~d.log.torn
    /\ Len(d.index) = Len(d.log.blocks)

\* The operations that count as interrupted if the operation in progress is, and when it is done.
WhenCut(op, cut) == (IF op = "reset" THEN {} ELSE cut) \cup {op}
WhenDone(op, cut) == IF op = "reset" THEN {} ELSE IF op = "index" THEN cut \ {"index"} ELSE cut

\* Every state that the operation in progress still goes through is one to rest in, and the
\* last of them can be opened if the log is.
Pending(steps, op, cut, status) ==
    /\ steps \in Seq([disk : DiskType, kept : SUBSET Nat])
    /\ \A i \in 1..Len(steps) : Resting(steps[i].disk, steps[i].kept, WhenCut(op, cut))
    /\ steps # <<>> =>
           LET last == steps[Len(steps)]
           IN  /\ Resting(last.disk, last.kept, WhenDone(op, cut))
               /\ status = "open" => Openable(last.disk)

\* The inductive invariant.
LogInv ==
    /\ doing \in Operations
    /\ logger \in {"closed", "open", "refused"}
    /\ interrupted \in SUBSET Operations
    /\ Resting(disk, kept, IF Idle THEN interrupted ELSE interrupted \cup {doing})
    /\ Idle /\ logger = "open" => Openable(disk)
    /\ Pending(todo, doing, interrupted, logger)

-----------------------------------------------------------------------------
(* The files at rest                                                       *)

\* What the files are like at rest is no more when more operations have been interrupted.
LEMMA MoreCut ==
    ASSUME NEW d, NEW k, NEW cut, NEW more, cut \subseteq more, Resting(d, k, cut)
    PROVE  Resting(d, k, more)
BY Zenon DEF Resting

\* The sizes of the two kinds of header.
LEMMA HeaderSizes ==
    ASSUME NEW first
    PROVE  HeaderSize(first) \in {1, 2}
BY DEF HeaderSize

\* A log whose blocks follow one another has block n where the arithmetic of positions puts it.
LEMMA ReadsPosition ==
    ASSUME NEW l \in LogType, NEW i \in 1..Len(l.blocks)
    PROVE  read_block(l, Pos(l, i)) = l.blocks[i]
<1>1. l.first \in Nat /\ l.blocks \in Seq(Nat) /\ HeaderSize(l.first) \in {1, 2}
  BY DEF LogType, HeaderSize
<1>2. Len(l.blocks) \in Nat /\ i \in Nat
  BY <1>1
<1>3. Pos(l, i) - HeaderSize(l.first) + 1 = i
  BY <1>1, <1>2 DEF Pos
<1>4. QED
  BY <1>3 DEF read_block

\* Where no block begins, none is read.
LEMMA ReadsNothing ==
    ASSUME NEW l \in LogType, NEW pos \in Nat, pos < HeaderSize(l.first) \/ pos >= HeaderSize(l.first) + Len(l.blocks)
    PROVE  read_block(l, pos) = 0
<1>1. l.first \in Nat /\ l.blocks \in Seq(Nat) /\ HeaderSize(l.first) \in {1, 2}
  BY DEF LogType, HeaderSize
<1>2. Len(l.blocks) \in Nat
  BY <1>1
<1>3. ~\E i \in 1..Len(l.blocks) : Pos(l, i) = pos
  BY <1>1, <1>2 DEF Pos
<1>4. QED
  BY <1>3 DEF read_block

\* The end of the process in the middle of a block leaves files to rest in.
LEMMA TornRests ==
    ASSUME NEW d, NEW k, NEW cut, Resting(d, k, cut), d.log.header = "set",
           NEW e, e = [d EXCEPT !.log.torn = TRUE]
    PROVE  Resting(e, k, cut)
<1>1. d \in DiskType /\ d.log \in LogType
  BY DEF Resting, DiskType
<1>2. /\ e \in DiskType
      /\ e.index = d.index /\ e.old = d.old /\ e.backup = d.backup
      /\ e.log.header = d.log.header /\ e.log.first = d.log.first /\ e.log.blocks = d.log.blocks
  BY <1>1, Zenon DEF DiskType, LogType
<1>3. GoodLog(e.log) /\ Blocks(e.log) = Blocks(d.log)
  <2>1. GoodLog(d.log)
    BY Zenon DEF Resting
  <2>2. QED
    BY <2>1, <1>2, Zenon DEF GoodLog, Blocks
<1>4. ASSUME NEW h, NEW z, Shape(d, h, z) PROVE Shape(e, h, z)
  BY <1>2, <1>4 DEF Shape
<1>5. QED
  BY <1>2, <1>3, <1>4, Zenon DEF Resting

\* Files to rest in stay so with an index of the log of which the first part may not be written.
LEMMA NewIndex ==
    ASSUME NEW d, NEW k, NEW cut, Resting(d, k, cut),
           NEW e \in DiskType, e.log = d.log, e.old = d.old, e.backup = d.backup,
           NEW z \in 0..Len(e.index), NEW c, "index" \notin c => z = 0,
           cut \cap {"repair", "trim"} \subseteq c,
           \A i \in 1..Len(e.index) : e.index[i] = IF i <= z THEN 0 ELSE Pos(d.log, i)
    PROVE  Resting(e, k, c)
<1>1. d \in DiskType /\ d.log \in LogType /\ GoodLog(d.log)
  BY DEF Resting, DiskType
<1>3. d.log.first \in Nat /\ HeaderSize(d.log.first) \in {1, 2}
  BY <1>1 DEF LogType, HeaderSize
<1>4. PICK h \in {1, 2} : h = HeaderSize(d.log.first)
  BY <1>3
<1>5. Shape(e, h, z)
  BY <1>4 DEF Shape, Pos
<1>6. c \cap {"repair", "trim"} = {} => cut \cap {"repair", "trim"} = {}
  OBVIOUS
<1>7. QED
  BY <1>1, <1>4, <1>5, <1>6 DEF Resting

\* So many buffers of a length hold so many positions.
LEMMA BuffersHold ==
    ASSUME NEW n \in Nat, NEW b \in Nat \ {0}
    PROVE  ((n + b - 1) \div b) \in Nat /\ ((n + b - 1) \div b) * b >= n
<1>1. ((n + b - 1) \div b) \in Nat
  OBVIOUS
<1>2. ((n + b - 1) \div b) * b >= n
  OBVIOUS
<1>3. QED
  BY <1>1, <1>2

\* The files with an index of the log of which the first z positions are not written yet.
Written(e, d, z) ==
    /\ e.log = d.log /\ e.old = d.old /\ e.backup = d.backup
    /\ Len(e.index) = Len(d.log.blocks)
    /\ z \in 0..Len(e.index)
    /\ \A i \in 1..Len(e.index) : e.index[i] = IF i <= z THEN 0 ELSE Pos(d.log, i)

\* The index that construct_index has reached after each of its writes, and the one it ends with.
LEMMA WriterStates ==
    ASSUME NEW d \in DiskType
    PROVE  /\ IndexWriter(d) \in Seq(DiskType)
           /\ \A j \in 1..Len(IndexWriter(d)) :
                 \E z \in Nat : Written(IndexWriter(d)[j], d, z) /\ (j = Len(IndexWriter(d)) => z = 0)
           /\ Len(IndexWriter(d)) = 0 => d.log.blocks = <<>>
<1> DEFINE n == Len(d.log.blocks)
           buffers == (n + BufferLength - 1) \div BufferLength
           Index(j) == [i \in 1..n |-> IF i + j * BufferLength > n THEN Pos(d.log, i) ELSE 0]
<1>1. d.log \in LogType /\ d.log.first \in Nat /\ d.log.blocks \in Seq(Nat) /\ n \in Nat
  BY DEF DiskType, LogType
<1>2. BufferLength \in Nat \ {0}
  BY BlockLogAssumption
<1>3. buffers \in Nat /\ buffers * BufferLength >= n
  BY <1>1, <1>2, BuffersHold, Zenon
<1>4. ASSUME NEW j \in 1..buffers
      PROVE  /\ Index(j) \in Seq(Nat) /\ Len(Index(j)) = n
             /\ \E z \in 0..n : /\ \A i \in 1..n : Index(j)[i] = IF i <= z THEN 0 ELSE Pos(d.log, i)
                                /\ j = buffers => z = 0
  <2>1. PICK m \in Nat : m = j * BufferLength
    BY <1>2, <1>3
  <2>2. PICK z \in 0..n : IF m >= n THEN z = 0 ELSE z = n - m
    BY <1>1, <2>1
  <2>3. \A i \in 1..n : (i + m > n) <=> ~(i <= z)
    BY <1>1, <2>1, <2>2
  <2>4. \A i \in 1..n : Index(j)[i] = IF i <= z THEN 0 ELSE Pos(d.log, i)
    BY <2>1, <2>3
  <2>5. j = buffers => z = 0
    BY <1>3, <2>1, <2>2
  <2>6. \A i \in 1..n : Pos(d.log, i) \in Nat
    BY <1>1 DEF Pos, HeaderSize
  <2>7. Index(j) \in [1..n -> Nat]
    BY <2>6
  <2>8. Index(j) \in Seq(Nat) /\ Len(Index(j)) = n
    BY <1>1, <2>7
  <2> HIDE DEF Index, buffers, n
  <2>9. QED
    BY <2>4, <2>5, <2>8, Zenon
<1>5. IndexWriter(d) = [j \in 1..buffers |-> [d EXCEPT !.index = Index(j)]]
  BY DEF IndexWriter
<1> HIDE DEF Index, buffers
<1>6. ASSUME NEW j \in 1..buffers, NEW e, e = IndexWriter(d)[j]
      PROVE  /\ e \in DiskType /\ e.index = Index(j)
             /\ e.log = d.log /\ e.old = d.old /\ e.backup = d.backup
  <2>1. e = [d EXCEPT !.index = Index(j)]
    BY <1>5, <1>6
  <2>2. QED
    BY <2>1, <1>4, Zenon DEF DiskType
<1>7. IndexWriter(d) \in Seq(DiskType) /\ Len(IndexWriter(d)) = buffers
  <2>1. IndexWriter(d) \in [1..buffers -> DiskType]
    BY <1>5, <1>6
  <2>2. QED
    BY <2>1, <1>3
<1>8. buffers = 0 => d.log.blocks = <<>>
  <2>1. ASSUME buffers = 0 PROVE n = 0
    <3>1. 0 * BufferLength = 0
      BY <1>2
    <3> HIDE DEF n
    <3>2. QED
      BY <2>1, <3>1, <1>1, <1>3
  <2>2. QED
    BY <2>1, <1>1
<1>9. ASSUME NEW j \in 1..buffers
      PROVE  \E z \in Nat : Written(IndexWriter(d)[j], d, z) /\ (j = buffers => z = 0)
  <2>1. PICK e : e = IndexWriter(d)[j]
    OBVIOUS
  <2>2. /\ e.index = Index(j) /\ e.log = d.log /\ e.old = d.old /\ e.backup = d.backup
    BY <1>6, <2>1, Zenon
  <2>3. Len(e.index) = n
    BY <1>4, <2>2
  <2>4. PICK z \in 0..n : /\ \A i \in 1..n : Index(j)[i] = IF i <= z THEN 0 ELSE Pos(d.log, i)
                          /\ j = buffers => z = 0
    BY <1>4, Zenon
  <2>5. Written(e, d, z) /\ z \in Nat
    BY <1>1, <2>2, <2>3, <2>4 DEF Written
  <2>6. QED
    BY <2>1, <2>4, <2>5, Zenon
<1>10. QED
  BY <1>7, <1>8, <1>9

\* A sequence of files that an operation goes through, each to rest in with the blocks to keep if
\* it is interrupted there, and the last one to go on from.
Passable(states, keep, op, cut, status) ==
    /\ states \in Seq(DiskType) /\ states # <<>>
    /\ \A i \in 1..Len(states) : Resting(states[i], keep[i], WhenCut(op, cut))
    /\ Resting(states[Len(states)], keep[Len(states)], WhenDone(op, cut))
    /\ status = "open" => Openable(states[Len(states)])

\* construct_index goes through files to rest in, and ends with the index of the log.
LEMMA IndexRests ==
    ASSUME NEW d, NEW k, NEW cut, NEW status, Resting(d, k, cut),
           d.log.header = "set", ~d.log.torn
    PROVE  Passable(construct_index(d), Always(k, construct_index(d)), "index", cut, status)
<1>1. d \in DiskType /\ d.log \in LogType
  BY DEF Resting, DiskType
<1>2. PICK removed : removed = [d EXCEPT !.index = <<>>]
  BY Zenon
<1>3. /\ removed \in DiskType /\ removed.log = d.log /\ removed.index = <<>>
      /\ removed.old = d.old /\ removed.backup = d.backup
  <2>1. <<>> \in Seq(Nat)
    OBVIOUS
  <2>2. QED
    BY <1>1, <1>2, <2>1, Zenon DEF DiskType
<1>4. PICK w : w = IndexWriter(removed)
  OBVIOUS
<1>5. PICK s : s = construct_index(d)
  OBVIOUS
<1>6. s = <<removed>> \o w
  BY <1>2, <1>4, <1>5 DEF construct_index
<1>7. w \in Seq(DiskType) /\ Len(w) \in Nat
  BY <1>3, <1>4, WriterStates
<1>8. /\ s \in Seq(DiskType) /\ Len(s) = Len(w) + 1 /\ s[1] = removed
      /\ \A i \in 2..Len(s) : s[i] = w[i - 1]
  BY <1>3, <1>6, <1>7
<1>9. PICK c : c = cut \ {"index"}
  BY Zenon
<1>10. /\ WhenDone("index", cut) = c /\ WhenCut("index", cut) = cut \cup {"index"}
       /\ c \subseteq cut \cup {"index"} /\ cut \cap {"repair", "trim"} \subseteq c
  BY <1>9 DEF WhenDone, WhenCut
<1>11. Resting(removed, k, c)
  <2>1. 0 \in 0..Len(removed.index) /\ Len(removed.index) = 0
    BY <1>3
  <2>2. \A i \in 1..Len(removed.index) : removed.index[i] = IF i <= 0 THEN 0 ELSE Pos(d.log, i)
    BY <2>1
  <2>3. QED
    BY <1>3, <1>10, <2>1, <2>2, NewIndex
<1>12. ASSUME NEW j \in 1..Len(w)
       PROVE  /\ Resting(w[j], k, cut \cup {"index"})
              /\ j = Len(w) => Resting(w[j], k, c) /\ Openable(w[j])
  <2>1. PICK e : e = w[j]
    OBVIOUS
  <2>2. PICK z \in Nat : Written(e, removed, z) /\ (j = Len(w) => z = 0)
    BY <1>3, <1>4, <2>1, WriterStates, Zenon
  <2>3. /\ e \in DiskType /\ e.log = removed.log /\ e.old = removed.old /\ e.backup = removed.backup
        /\ Len(e.index) = Len(removed.log.blocks) /\ z \in 0..Len(e.index)
        /\ \A i \in 1..Len(e.index) : e.index[i] = IF i <= z THEN 0 ELSE Pos(removed.log, i)
    BY <1>7, <2>1, <2>2 DEF Written
  <2>4. c \cap {"repair", "trim"} \subseteq cut \cup {"index"} /\ c \cap {"repair", "trim"} \subseteq c
    BY <1>10
  <2>5. "index" \notin cut \cup {"index"} => z = 0
    OBVIOUS
  <2>6. Resting(e, k, cut \cup {"index"})
    BY <1>11, <2>2, <2>3, <2>4, <2>5, NewIndex, Zenon
  <2>7. j = Len(w) => Resting(e, k, c)
    BY <1>11, <2>2, <2>3, <2>4, NewIndex, Zenon
  <2>8. Openable(e)
    BY <1>3, <2>3 DEF Openable
  <2>9. QED
    BY <2>1, <2>6, <2>7, <2>8
<1>13. Len(w) = 0 => Openable(removed)
  <2>1. Len(w) = 0 => removed.log.blocks = <<>>
    BY <1>3, <1>4, WriterStates
  <2>2. QED
    BY <1>3, <2>1 DEF Openable
<1>14. \A i \in 1..Len(s) : Resting(s[i], k, cut \cup {"index"})
  <2>1. SUFFICES ASSUME NEW i \in 1..Len(s) PROVE Resting(s[i], k, cut \cup {"index"})
    BY Zenon
  <2>2. CASE i = 1
    BY <1>8, <1>10, <1>11, <2>2, MoreCut
  <2>3. CASE i # 1
    <3>1. i - 1 \in 1..Len(w) /\ s[i] = w[i - 1]
      BY <1>7, <1>8, <2>3
    <3>2. QED
      BY <3>1, <1>12, Zenon
  <2>4. QED
    BY <2>2, <2>3
<1>15. Resting(s[Len(s)], k, c) /\ Openable(s[Len(s)])
  <2>1. CASE Len(w) = 0
    BY <2>1, <1>8, <1>11, <1>13
  <2>2. CASE Len(w) # 0
    <3>1. Len(w) \in 1..Len(w) /\ s[Len(s)] = w[Len(w)]
      BY <1>7, <1>8, <2>2
    <3>2. QED
      BY <3>1, <1>12, Zenon
  <2>3. QED
    BY <2>1, <2>2
<1>16. \A i \in 1..Len(s) : Always(k, s)[i] = k
  BY DEF Always
<1>17. Len(s) \in 1..Len(s) /\ s # <<>>
  BY <1>7, <1>8
<1>18. QED
  BY <1>5, <1>8, <1>10, <1>14, <1>15, <1>16, <1>17, Zenon DEF Passable

\* A sequence with one more element.
Extends(t, s, x) ==
    /\ Len(s) \in Nat /\ Len(t) = Len(s) + 1
    /\ t[Len(s) + 1] = x
    /\ \A i \in 1..Len(s) : t[i] = s[i]

\* What Append does to a sequence.
LEMMA Appended ==
    ASSUME NEW S, NEW s \in Seq(S), NEW x \in S
    PROVE  Append(s, x) \in Seq(S) /\ Extends(Append(s, x), s, x)
BY DEF Extends

\* An operation of two states.
LEMMA TwoStates ==
    ASSUME NEW a \in DiskType, NEW b \in DiskType, NEW k, NEW op, NEW cut, NEW status,
           Resting(a, k, WhenCut(op, cut)), Resting(b, k, WhenCut(op, cut)),
           Resting(b, k, WhenDone(op, cut)), status = "open" => Openable(b)
    PROVE  Passable(<<a, b>>, Always(k, <<a, b>>), op, cut, status)
<1>1. PICK s : s = <<a, b>>
  BY Zenon
<1>2. s \in Seq(DiskType) /\ Len(s) = 2 /\ s[1] = a /\ s[2] = b /\ s # <<>>
  BY <1>1
<1>3. \A i \in 1..2 : Always(k, s)[i] = k
  BY <1>2 DEF Always
<1>4. \A i \in 1..2 : Resting(s[i], k, WhenCut(op, cut))
  <2>1. SUFFICES ASSUME NEW i \in 1..2 PROVE Resting(s[i], k, WhenCut(op, cut))
    OBVIOUS
  <2>2. i = 1 \/ i = 2
    OBVIOUS
  <2>3. QED
    BY <1>2, <2>2
<1>5. 2 \in 1..2
  OBVIOUS
<1>6. Passable(s, Always(k, s), op, cut, status)
  BY <1>2, <1>3, <1>4, <1>5, Zenon DEF Passable
<1>7. QED
  BY <1>1, <1>6, Zenon

\* A log with one more block.
LongerLog(m, l, n) ==
    /\ m.header = l.header /\ m.first = l.first /\ m.torn = l.torn
    /\ Extends(m.blocks, l.blocks, n)

\* The files after an append, first the log and then the index.
LEMMA AppendParts ==
    ASSUME NEW d \in DiskType, NEW n \in Nat
    PROVE  \E a \in DiskType, b \in DiskType :
               /\ AppendedTo(d, n) = <<a, b>>
               /\ LongerLog(a.log, d.log, n) /\ b.log = a.log
               /\ a.old = d.old /\ a.backup = d.backup /\ b.old = d.old /\ b.backup = d.backup
               /\ a.index = d.index
               /\ Extends(b.index, d.index, HeaderSize(d.log.first) + Len(d.log.blocks))
<1>1. /\ d.log \in LogType /\ d.log.first \in Nat /\ d.log.blocks \in Seq(Nat)
      /\ d.index \in Seq(Nat) /\ Len(d.log.blocks) \in Nat
  BY DEF DiskType, LogType
<1>2. PICK a : a = [d EXCEPT !.log.blocks = Append(@, n)]
  BY Zenon
<1>3. PICK blocks : blocks = Append(d.log.blocks, n)
  BY Zenon
<1>4. blocks \in Seq(Nat) /\ Extends(blocks, d.log.blocks, n)
  BY <1>1, <1>3, Appended, Zenon
<1>5. PICK l : l = [d.log EXCEPT !.blocks = blocks]
  BY Zenon
<1>6. /\ l \in LogType /\ l.header = d.log.header /\ l.first = d.log.first /\ l.torn = d.log.torn
      /\ l.blocks = blocks
  BY <1>1, <1>4, <1>5, Zenon DEF LogType
<1>7. /\ a \in DiskType /\ a.log = l
      /\ a.index = d.index /\ a.old = d.old /\ a.backup = d.backup
  BY <1>1, <1>2, <1>3, <1>5, <1>6, Zenon DEF DiskType
<1>8. PICK pos \in Nat : pos = HeaderSize(d.log.first) + Len(d.log.blocks)
  <2>1. HeaderSize(d.log.first) \in Nat
    BY HeaderSizes
  <2>2. HeaderSize(d.log.first) + Len(d.log.blocks) \in Nat
    BY <1>1, <2>1
  <2>3. QED
    BY <2>2, Zenon
<1>9. Pos(a.log, Len(a.log.blocks)) = pos
  <2>1. a.log.first = d.log.first /\ Len(a.log.blocks) = Len(d.log.blocks) + 1
    BY <1>4, <1>6, <1>7 DEF Extends
  <2>2. QED
    BY <1>1, <1>8, <2>1, HeaderSizes DEF Pos
<1>10. PICK index : index = Append(d.index, pos)
  BY Zenon
<1>11. index \in Seq(Nat) /\ Extends(index, d.index, pos)
  BY <1>1, <1>10, Appended, Zenon
<1>12. PICK b : b = [a EXCEPT !.index = index]
  BY Zenon
<1>13. /\ b \in DiskType /\ b.log = l /\ b.index = index /\ b.old = d.old /\ b.backup = d.backup
  BY <1>7, <1>11, <1>12, Zenon DEF DiskType
<1>14. AppendedTo(d, n) = <<a, b>>
  BY <1>2, <1>7, <1>9, <1>10, <1>12, Zenon DEF AppendedTo
<1>15. LongerLog(a.log, d.log, n)
  BY <1>4, <1>6, <1>7 DEF LongerLog
<1>16. QED
  BY <1>7, <1>8, <1>11, <1>13, <1>14, <1>15

\* The numbers of the blocks after an append.
LEMMA LongerBlocks ==
    ASSUME NEW l, NEW m, NEW n, LongerLog(m, l, n)
    PROVE  Blocks(m) = Blocks(l) \cup {n}
BY DEF LongerLog, Extends, Blocks

\* An append to an open log goes through files to rest in, and leaves the log open.
LEMMA AppendRests ==
    ASSUME NEW d, NEW k, NEW cut, NEW status, Resting(d, k, cut), Openable(d),
           d.log.header = "set", NEW n \in Nat, n = d.log.first + Len(d.index)
    PROVE  Passable(AppendedTo(d, n), Always(k \cup {n}, AppendedTo(d, n)), "append", cut, status)
<1>1. /\ d \in DiskType /\ GoodLog(d.log) /\ k \in SUBSET Nat
      /\ d.log.first \in Nat /\ d.log.blocks \in Seq(Nat) /\ d.index \in Seq(Nat)
  BY DEF Resting, DiskType, LogType
<1>2. Len(d.index) = Len(d.log.blocks) /\ Len(d.index) \in Nat
  BY <1>1 DEF Openable
<1>3. PICK a \in DiskType, b \in DiskType :
          /\ AppendedTo(d, n) = <<a, b>>
          /\ LongerLog(a.log, d.log, n) /\ b.log = a.log
          /\ a.old = d.old /\ a.backup = d.backup /\ b.old = d.old /\ b.backup = d.backup
          /\ a.index = d.index
          /\ Extends(b.index, d.index, HeaderSize(d.log.first) + Len(d.log.blocks))
  BY <1>1, AppendParts, Zenon
<1>4. PICK h \in {1, 2}, z \in 0..Len(d.index) : Shape(d, h, z) /\ ("index" \notin cut => z = 0)
  BY DEF Resting
<1>5. h = HeaderSize(d.log.first)
  BY <1>2, <1>4, HeaderSizes DEF Shape
<1>6. /\ k \subseteq Blocks(d.log) \cup d.backup
      /\ cut \cap {"repair", "trim"} = {} => k \subseteq Blocks(d.log)
  BY DEF Resting
<1>7. ASSUME NEW e \in DiskType, e.log = a.log, e.old = d.old, e.backup = d.backup,
             z \in 0..Len(e.index), Shape(e, h, z)
      PROVE  Resting(e, k \cup {n}, cut)
  <2>1. LongerLog(e.log, d.log, n)
    BY <1>3, <1>7
  <2>2. Blocks(e.log) = Blocks(d.log) \cup {n}
    BY <2>1, LongerBlocks
  <2>3. GoodLog(e.log) /\ e.log.header = "set"
    <3>1. e.log.header = "set" /\ e.log.first = d.log.first /\ Extends(e.log.blocks, d.log.blocks, n)
      BY <2>1 DEF LongerLog
    <3>2. d.log.first >= 1 /\ \A j \in 1..Len(d.log.blocks) : d.log.blocks[j] = d.log.first + j - 1
      BY <1>1 DEF GoodLog
    <3>3. \A j \in 1..Len(e.log.blocks) : e.log.blocks[j] = e.log.first + j - 1
      <4>1. SUFFICES ASSUME NEW j \in 1..Len(e.log.blocks) PROVE e.log.blocks[j] = d.log.first + j - 1
        BY <3>1
      <4>2. Len(e.log.blocks) = Len(d.log.blocks) + 1
        BY <3>1 DEF Extends
      <4>3. CASE j = Len(d.log.blocks) + 1
        BY <1>1, <1>2, <3>1, <4>3 DEF Extends
      <4>4. CASE j \in 1..Len(d.log.blocks)
        BY <3>1, <3>2, <4>4 DEF Extends
      <4>5. j = Len(d.log.blocks) + 1 \/ j \in 1..Len(d.log.blocks)
        BY <1>2, <4>2
      <4>6. QED
        BY <4>3, <4>4, <4>5
    <3>4. QED
      BY <3>1, <3>2, <3>3, Zenon DEF GoodLog
  <2>4. k \cup {n} \in SUBSET Nat
    BY <1>1, Zenon
  <2>5. QED
    BY <1>4, <1>6, <1>7, <2>2, <2>3, <2>4 DEF Resting
<1>8. z \in 0..Len(a.index) /\ Shape(a, h, z)
  BY <1>3, <1>4, <1>5 DEF Shape, LongerLog
<1>9. z \in 0..Len(b.index) /\ Shape(b, h, z)
  <2>1. /\ Len(b.index) = Len(d.index) + 1 /\ b.index[Len(d.index) + 1] = h + Len(d.index)
        /\ \A j \in 1..Len(d.index) : b.index[j] = d.index[j]
    BY <1>2, <1>3, <1>5 DEF Extends
  <2>2. \A j \in 1..Len(d.index) : d.index[j] = IF j <= z THEN 0 ELSE h + j - 1
    BY <1>4 DEF Shape
  <2>3. \A j \in 1..Len(b.index) : b.index[j] = IF j <= z THEN 0 ELSE h + j - 1
    <3>1. SUFFICES ASSUME NEW j \in 1..Len(b.index) PROVE b.index[j] = IF j <= z THEN 0 ELSE h + j - 1
      OBVIOUS
    <3>2. CASE j = Len(d.index) + 1
      <4>1. ~(j <= z) /\ h + j - 1 = h + Len(d.index)
        BY <1>2, <3>2
      <4>2. QED
        BY <2>1, <3>2, <4>1
    <3>3. CASE j \in 1..Len(d.index)
      BY <2>1, <2>2, <3>3
    <3>4. j = Len(d.index) + 1 \/ j \in 1..Len(d.index)
      BY <1>2, <2>1
    <3>5. QED
      BY <3>2, <3>3, <3>4, Zenon
  <2>4. b.log.first = d.log.first
    BY <1>3 DEF LongerLog
  <2>5. z \in 0..Len(b.index)
    BY <1>2, <2>1
  <2>6. QED
    BY <1>5, <2>3, <2>4, <2>5 DEF Shape
<1>10. Resting(a, k \cup {n}, cut) /\ Resting(b, k \cup {n}, cut)
  BY <1>3, <1>7, <1>8, <1>9, Zenon
<1>11. Openable(b)
  <2>1. b.log.header = "set" /\ b.log.torn = d.log.torn /\ Len(b.log.blocks) = Len(d.log.blocks) + 1
    BY <1>3 DEF LongerLog, Extends
  <2>2. Len(b.index) = Len(d.index) + 1
    BY <1>3 DEF Extends
  <2>3. QED
    BY <1>2, <2>1, <2>2 DEF Openable
<1>12. WhenDone("append", cut) = cut /\ cut \subseteq WhenCut("append", cut)
  BY DEF WhenDone, WhenCut
<1>13. Resting(a, k \cup {n}, WhenCut("append", cut)) /\ Resting(b, k \cup {n}, WhenCut("append", cut))
  BY <1>10, <1>12, MoreCut, Zenon
<1>14. QED
  BY <1>3, <1>10, <1>11, <1>12, <1>13, TwoStates, Zenon

\* Files without a log that may be read need to keep nothing.
LEMMA NothingToKeep ==
    ASSUME NEW e \in DiskType, GoodLog(e.log), e.log.header # "set", NEW cut
    PROVE  Resting(e, {}, cut)
BY Zenon DEF Resting

\* The states that reset takes the files through before it sets the version.
ResetPath(d, first, firstBlock, states) ==
    \E removed, bare, begun :
        /\ removed = [d EXCEPT !.log = NoBlocks("absent", 0)]
        /\ bare = [removed EXCEPT !.index = <<>>]
        /\ begun = [bare EXCEPT !.log = NoBlocks("invalid", first)]
        /\ states = <<removed, bare, begun>> \o (IF firstBlock THEN AppendedTo(begun, first) ELSE <<>>)

\* The last of them: a log of at most one block, with its index.
ResetEnd(end, first, firstBlock) ==
    /\ end.log.first = first /\ end.log.torn = FALSE
    /\ Len(end.log.blocks) = Len(end.index)
    /\ \/ firstBlock /\ Len(end.index) = 1 /\ end.log.blocks[1] = first /\ end.index[1] = HeaderSize(first)
       \/ ~firstBlock /\ Len(end.index) = 0

\* Of the files while reset writes them, none has a header to read by.
LEMMA ResetStates ==
    ASSUME NEW d \in DiskType, NEW first \in Nat, first >= 1, NEW firstBlock \in BOOLEAN,
           NEW states, ResetPath(d, first, firstBlock, states)
    PROVE  /\ states \in Seq(DiskType) /\ Len(states) >= 1
           /\ \A i \in 1..Len(states) : GoodLog(states[i].log) /\ states[i].log.header # "set"
           /\ ResetEnd(states[Len(states)], first, firstBlock)
<1>0. PICK end : end = states[Len(states)]
  OBVIOUS
<1>1. PICK removed, bare, begun :
        /\ removed = [d EXCEPT !.log = NoBlocks("absent", 0)]
        /\ bare = [removed EXCEPT !.index = <<>>]
        /\ begun = [bare EXCEPT !.log = NoBlocks("invalid", first)]
        /\ states = <<removed, bare, begun>> \o (IF firstBlock THEN AppendedTo(begun, first) ELSE <<>>)
  BY Zenon DEF ResetPath
<1>6. PICK l, m : l = NoBlocks("absent", 0) /\ m = NoBlocks("invalid", first)
  OBVIOUS
<1>7. <<>> \in Seq(Nat) /\ Len(<<>>) = 0
  OBVIOUS
<1>8. /\ l \in LogType /\ l.header = "absent" /\ l.blocks = <<>> /\ l.torn = FALSE
      /\ m \in LogType /\ m.header = "invalid" /\ m.blocks = <<>> /\ m.torn = FALSE /\ m.first = first
  BY <1>6, <1>7 DEF NoBlocks, LogType, Headers
<1>9. GoodLog(l) /\ GoodLog(m)
  <2>1. \A i \in 1..Len(l.blocks) : FALSE
    BY <1>7, <1>8
  <2>2. \A i \in 1..Len(m.blocks) : FALSE
    BY <1>7, <1>8
  <2>3. QED
    BY <1>8, <2>1, <2>2 DEF GoodLog
<1>10. /\ removed \in DiskType /\ removed.log = l
       /\ bare \in DiskType /\ bare.log = l
       /\ begun \in DiskType /\ begun.log = m /\ begun.index = <<>>
  BY <1>1, <1>6, <1>7, <1>8, Zenon DEF DiskType
<1>11. CASE ~firstBlock
  <2>1. states = <<removed, bare, begun>> \o <<>>
    BY <1>1, <1>11
  <2>2. /\ states \in Seq(DiskType) /\ Len(states) = 3
        /\ states[1] = removed /\ states[2] = bare /\ states[3] = begun
    BY <1>10, <2>1
  <2>3. \A i \in 1..Len(states) : GoodLog(states[i].log) /\ states[i].log.header # "set"
    <3>1. SUFFICES ASSUME NEW i \in 1..3 PROVE GoodLog(states[i].log) /\ states[i].log.header # "set"
      BY <2>2
    <3>2. i = 1 \/ i = 2 \/ i = 3
      OBVIOUS
    <3>3. QED
      BY <1>8, <1>9, <1>10, <2>2, <3>2
  <2>4. end = begun
    BY <1>0, <2>2
  <2>5. end.log.first = first /\ end.log.torn = FALSE /\ Len(end.log.blocks) = 0 /\ Len(end.index) = 0
    BY <1>7, <1>8, <1>10, <2>4
  <2>6. Len(states) >= 1
    BY <2>2
  <2>7. QED
    BY <1>0, <1>11, <2>2, <2>3, <2>5, <2>6, Zenon DEF ResetEnd
<1>12. CASE firstBlock
  <2>1. PICK a \in DiskType, b \in DiskType :
          /\ AppendedTo(begun, first) = <<a, b>>
          /\ LongerLog(a.log, begun.log, first) /\ b.log = a.log
          /\ Extends(b.index, begun.index, HeaderSize(begun.log.first) + Len(begun.log.blocks))
    BY <1>10, AppendParts, Zenon
  <2>2. states = <<removed, bare, begun>> \o <<a, b>>
    BY <1>1, <1>12, <2>1, Zenon
  <2>3. /\ states \in Seq(DiskType) /\ Len(states) = 5
        /\ states[1] = removed /\ states[2] = bare /\ states[3] = begun /\ states[4] = a /\ states[5] = b
    BY <1>10, <2>2
  <2>4. /\ a.log.header = "invalid" /\ a.log.first = first /\ a.log.torn = FALSE
        /\ Len(a.log.blocks) = 1 /\ a.log.blocks[1] = first
    BY <1>7, <1>8, <1>10, <2>1 DEF LongerLog, Extends
  <2>5. GoodLog(a.log)
    <3>1. \A i \in 1..Len(a.log.blocks) : a.log.blocks[i] = a.log.first + i - 1
      BY <2>4
    <3>2. QED
      BY <2>4, <3>1 DEF GoodLog
  <2>6. \A i \in 1..Len(states) : GoodLog(states[i].log) /\ states[i].log.header # "set"
    <3>1. SUFFICES ASSUME NEW i \in 1..5 PROVE GoodLog(states[i].log) /\ states[i].log.header # "set"
      BY <2>3
    <3>2. i = 1 \/ i = 2 \/ i = 3 \/ i = 4 \/ i = 5
      OBVIOUS
    <3>3. QED
      BY <1>8, <1>9, <1>10, <2>1, <2>3, <2>4, <2>5, <3>2
  <2>7. end = b
    BY <1>0, <2>3
  <2>8. Len(b.index) = 1 /\ b.index[1] = HeaderSize(first)
    BY <1>7, <1>8, <1>10, <2>1, HeaderSizes DEF Extends
  <2>9. end.log.first = first /\ end.log.torn = FALSE /\ Len(end.log.blocks) = 1 /\ end.log.blocks[1] = first
    BY <2>1, <2>4, <2>7
  <2>10. Len(states) >= 1
    BY <2>3
  <2>11. Len(end.log.blocks) = Len(end.index) /\ Len(end.index) = 1 /\ end.index[1] = HeaderSize(first)
    BY <2>7, <2>8, <2>9
  <2>12. QED
    BY <1>0, <1>12, <2>3, <2>6, <2>9, <2>10, <2>11, Zenon DEF ResetEnd
<1>13. QED
  BY <1>11, <1>12

\* An operation that keeps nothing until its last state.
LEMMA LastState ==
    ASSUME NEW s \in Seq(DiskType), NEW d \in DiskType, NEW k, NEW op, NEW cut, NEW status,
           \A i \in 1..Len(s) : Resting(s[i], {}, WhenCut(op, cut)),
           Resting(d, k, WhenCut(op, cut)), Resting(d, k, WhenDone(op, cut)), Openable(d)
    PROVE  Passable(Append(s, d), Append(Always({}, s), k), op, cut, status)
<1>1. PICK t : t = Append(s, d)
  BY Zenon
<1>2. t \in Seq(DiskType) /\ Extends(t, s, d)
  BY <1>1, Appended, Zenon
<1>3. PICK keep : keep = Append(Always({}, s), k)
  BY Zenon
<1>4. Extends(keep, Always({}, s), k) /\ Len(Always({}, s)) = Len(s)
  <2>1. Always({}, s) \in Seq({{}, k}) /\ Len(Always({}, s)) = Len(s)
    BY DEF Always
  <2>2. k \in {{}, k}
    OBVIOUS
  <2>3. QED
    BY <1>3, <2>1, <2>2, Appended, Zenon
<1>5. Len(s) \in Nat /\ Len(t) = Len(s) + 1 /\ t[Len(t)] = d /\ keep[Len(t)] = k
  BY <1>2, <1>4 DEF Extends
<1>6. \A i \in 1..Len(s) : t[i] = s[i] /\ keep[i] = {}
  BY <1>2, <1>4 DEF Extends, Always
<1>7. \A i \in 1..Len(t) : Resting(t[i], keep[i], WhenCut(op, cut))
  <2>1. SUFFICES ASSUME NEW i \in 1..Len(t) PROVE Resting(t[i], keep[i], WhenCut(op, cut))
    OBVIOUS
  <2>2. CASE i = Len(t)
    BY <1>5, <2>2
  <2>3. CASE i \in 1..Len(s)
    BY <1>6, <2>3, Zenon
  <2>4. i = Len(t) \/ i \in 1..Len(s)
    BY <1>5
  <2>5. QED
    BY <2>2, <2>3, <2>4
<1>8. t # <<>>
  BY <1>5
<1>9. Passable(t, keep, op, cut, status)
  BY <1>2, <1>5, <1>7, <1>8, Zenon DEF Passable
<1>10. QED
  BY <1>1, <1>3, <1>9, Zenon

\* The version is set last.
ResetLast(states, done) == done = [states[Len(states)] EXCEPT !.log.header = "set"]

\* reset goes through files to rest in, and leaves an open log of at most one block.
LEMMA ResetRests ==
    ASSUME NEW d \in DiskType, NEW first \in Nat, first >= 1, NEW firstBlock \in BOOLEAN,
           NEW states, ResetPath(d, first, firstBlock, states), NEW cut, NEW status,
           NEW done, ResetLast(states, done)
    PROVE  Passable(Append(states, done),
                    Append(Always({}, states), IF firstBlock THEN {first} ELSE {}), "reset", cut, status)
<1>1. PICK end : end = states[Len(states)]
  OBVIOUS
<1>2. /\ states \in Seq(DiskType) /\ Len(states) >= 1
      /\ \A i \in 1..Len(states) : GoodLog(states[i].log) /\ states[i].log.header # "set"
      /\ end.log.first = first /\ end.log.torn = FALSE
      /\ Len(end.log.blocks) = Len(end.index)
      /\ \/ firstBlock /\ Len(end.index) = 1 /\ end.log.blocks[1] = first /\ end.index[1] = HeaderSize(first)
         \/ ~firstBlock /\ Len(end.index) = 0
  <2>1. /\ states \in Seq(DiskType) /\ Len(states) >= 1
        /\ \A i \in 1..Len(states) : GoodLog(states[i].log) /\ states[i].log.header # "set"
        /\ ResetEnd(states[Len(states)], first, firstBlock)
    BY ResetStates, Zenon
  <2>2. QED
    BY <1>1, <2>1, Zenon DEF ResetEnd
<1>3. end \in DiskType
  BY <1>1, <1>2
<1>4. /\ done \in DiskType /\ done.index = end.index /\ done.log.header = "set"
      /\ done.log.first = first /\ done.log.blocks = end.log.blocks /\ done.log.torn = FALSE
  BY <1>1, <1>2, <1>3, Zenon DEF DiskType, LogType, Headers, ResetLast
<1>5. PICK k : k = IF firstBlock THEN {first} ELSE {}
  BY Zenon
<1>6. GoodLog(done.log) /\ Blocks(done.log) = k
  <2>1. CASE firstBlock
    <3>1. Len(done.log.blocks) = 1 /\ done.log.blocks[1] = first
      BY <1>2, <1>4, <2>1
    <3>2. \A i \in 1..Len(done.log.blocks) : done.log.blocks[i] = done.log.first + i - 1
      BY <1>4, <3>1
    <3>3. Blocks(done.log) = {first}
      BY <3>1 DEF Blocks
    <3>4. QED
      BY <1>4, <1>5, <2>1, <3>2, <3>3 DEF GoodLog
  <2>2. CASE ~firstBlock
    <3>1. Len(done.log.blocks) = 0
      BY <1>2, <1>4, <2>2
    <3>2. QED
      BY <1>4, <1>5, <2>2, <3>1 DEF GoodLog, Blocks
  <2>3. QED
    BY <2>1, <2>2
<1>7. PICK h \in {1, 2} : h = HeaderSize(first)
  BY HeaderSizes
<1>8. Shape(done, h, 0) /\ 0 \in 0..Len(done.index)
  <2>1. \A i \in 1..Len(done.index) : done.index[i] = IF i <= 0 THEN 0 ELSE h + i - 1
    BY <1>2, <1>4, <1>7
  <2>2. 0 \in 0..Len(done.index)
    BY <1>2, <1>4
  <2>3. QED
    BY <1>4, <1>7, <2>1, <2>2 DEF Shape
<1>9. k \in SUBSET Nat
  BY <1>5
<1>10. ASSUME NEW c PROVE Resting(done, k, c)
  BY <1>4, <1>6, <1>8, <1>9 DEF Resting
<1>11. Openable(done)
  BY <1>2, <1>4 DEF Openable
<1>12. \A i \in 1..Len(states) : Resting(states[i], {}, WhenCut("reset", cut))
  BY <1>2, NothingToKeep
<1>13. Passable(Append(states, done), Append(Always({}, states), k), "reset", cut, status)
  BY <1>2, <1>4, <1>10, <1>11, <1>12, LastState, Zenon
<1>14. QED
  BY <1>5, <1>13, Zenon

\* An operation that keeps the same blocks in each of its states.
LEMMA Steady ==
    ASSUME NEW s \in Seq(DiskType), s # <<>>, NEW k, NEW op, NEW cut, NEW status,
           \A i \in 1..Len(s) : Resting(s[i], k, WhenCut(op, cut)),
           Resting(s[Len(s)], k, WhenDone(op, cut)), status = "open" => Openable(s[Len(s)])
    PROVE  Passable(s, Always(k, s), op, cut, status)
<1>1. Len(s) \in 1..Len(s)
  OBVIOUS
<1>2. \A i \in 1..Len(s) : Always(k, s)[i] = k
  BY DEF Always
<1>3. QED
  BY <1>1, <1>2, Zenon DEF Passable

-----------------------------------------------------------------------------
(* The tools                                                               *)

\* An index that is right about the first block has the position of every block that it has a
\* place for.
LEMMA TrimFacts ==
    ASSUME NEW k, NEW cut, Resting(disk, k, cut), TrimData
    PROVE  /\ disk.log.header = "set" /\ disk.log.first \in Nat /\ disk.log.first >= 1
           /\ Len(disk.index) \in Nat /\ Len(disk.log.blocks) \in Nat
           /\ \A i \in 1..Len(disk.index) : disk.index[i] = HeaderSize(disk.log.first) + i - 1
<1>1. /\ disk \in DiskType /\ disk.log \in LogType /\ disk.log.first \in Nat /\ disk.log.blocks \in Seq(Nat)
      /\ disk.index \in Seq(Nat) /\ Len(disk.index) \in Nat /\ Len(disk.log.blocks) \in Nat
  BY DEF Resting, DiskType, LogType
<1>2. /\ disk.log.header = "set" /\ disk.index # <<>>
      /\ read_block(disk.log, disk.index[1]) = disk.log.first
  BY DEF TrimData
<1>3. GoodLog(disk.log)
  BY DEF Resting
<1>4. disk.log.first >= 1
  BY <1>2, <1>3 DEF GoodLog
<1>5. PICK h \in {1, 2}, z \in 0..Len(disk.index) : Shape(disk, h, z)
  BY <1>2 DEF Resting
<1>6. HeaderSize(disk.log.first) \in {1, 2} /\ h >= HeaderSize(disk.log.first)
  BY <1>5, HeaderSizes DEF Shape
<1>7. 1 \in 1..Len(disk.index)
  BY <1>1, <1>2
<1>8. disk.index[1] = IF 1 <= z THEN 0 ELSE h
  BY <1>5, <1>7 DEF Shape
<1>9. z = 0
  <2>1. ASSUME z >= 1 PROVE FALSE
    <3>1. disk.index[1] = 0
      BY <1>8, <2>1
    <3>2. read_block(disk.log, 0) = 0
      BY <1>1, <1>6, ReadsNothing
    <3>3. QED
      BY <1>2, <1>4, <3>1, <3>2
  <2>2. QED
    BY <1>1, <2>1
<1>10. h = HeaderSize(disk.log.first)
  <2>1. ASSUME h > HeaderSize(disk.log.first) PROVE FALSE
    <3>1. disk.index[1] = 2 /\ HeaderSize(disk.log.first) = 1
      BY <1>6, <1>8, <1>9, <2>1
    <3>2. CASE Len(disk.log.blocks) >= 2
      <4>1. 2 \in 1..Len(disk.log.blocks)
        BY <1>1, <3>2
      <4>2. read_block(disk.log, Pos(disk.log, 2)) = disk.log.blocks[2]
        BY <1>1, <4>1, ReadsPosition
      <4>3. Pos(disk.log, 2) = 2
        BY <3>1 DEF Pos
      <4>4. disk.log.blocks[2] = disk.log.first + 1
        BY <1>1, <1>3, <4>1 DEF GoodLog
      <4>5. QED
        BY <1>1, <1>2, <3>1, <4>2, <4>3, <4>4
    <3>3. CASE ~(Len(disk.log.blocks) >= 2)
      <4>1. read_block(disk.log, 2) = 0
        BY <1>1, <3>1, <3>3, ReadsNothing
      <4>2. QED
        BY <1>2, <1>4, <3>1, <4>1
    <3>4. QED
      BY <3>2, <3>3
  <2>2. QED
    BY <1>6, <2>1
<1>11. \A i \in 1..Len(disk.index) : disk.index[i] = h + i - 1
  BY <1>5, <1>9 DEF Shape
<1>12. QED
  BY <1>1, <1>2, <1>4, <1>10, <1>11

\* If the log has block n where the index says, that is the place of n in the log.
LEMMA BlockFacts ==
    ASSUME NEW k, NEW cut, Resting(disk, k, cut), TrimData,
           NEW n \in Nat, disk.log.first <= n, n <= LastIndexed, HasBlockAt(n)
    PROVE  /\ n - disk.log.first + 1 \in 1..Len(disk.log.blocks)
           /\ BlocksBefore(block_pos(n)) = n - disk.log.first
<1>1. /\ disk.log.first \in Nat /\ disk.log.first >= 1
      /\ Len(disk.index) \in Nat /\ Len(disk.log.blocks) \in Nat
      /\ \A i \in 1..Len(disk.index) : disk.index[i] = HeaderSize(disk.log.first) + i - 1
  BY TrimFacts
<1>2. PICK i : i = n - disk.log.first + 1
  OBVIOUS
<1>3. i \in 1..Len(disk.index)
  BY <1>1, <1>2 DEF LastIndexed
<1>4. HeaderSize(disk.log.first) \in {1, 2} /\ disk.log \in LogType
  BY HeaderSizes DEF Resting, DiskType
<1>5. PICK pos \in Nat : pos = HeaderSize(disk.log.first) + i - 1
  BY <1>1, <1>3, <1>4
<1>6. block_pos(n) = pos
  BY <1>1, <1>2, <1>3, <1>5 DEF block_pos
<1>7. i <= Len(disk.log.blocks)
  <2>1. ASSUME ~(i <= Len(disk.log.blocks)) PROVE FALSE
    <3>1. pos >= HeaderSize(disk.log.first) + Len(disk.log.blocks)
      BY <1>1, <1>3, <1>4, <1>5, <2>1
    <3>2. read_block(disk.log, pos) = 0
      BY <1>4, <3>1, ReadsNothing
    <3>3. read_block(disk.log, pos) = n
      BY <1>6 DEF HasBlockAt
    <3>4. QED
      BY <1>1, <3>2, <3>3
  <2>2. QED
    BY <2>1
<1>8. BlocksBefore(block_pos(n)) = n - disk.log.first
  BY <1>1, <1>2, <1>4, <1>5, <1>6 DEF BlocksBefore
<1>9. QED
  BY <1>1, <1>2, <1>3, <1>7, <1>8


\* Files with a part of the log's blocks, and its index or the positions of that part, are files to
\* rest in with the blocks of the part.
LEMMA PartRests ==
    ASSUME NEW e \in DiskType, GoodLog(e.log), e.log.header = "set",
           NEW h \in {1, 2}, Shape(e, h, 0), NEW k \in SUBSET Nat, NEW cut,
           k \subseteq Blocks(e.log) \cup e.backup,
           cut \cap {"repair", "trim"} = {} => k \subseteq Blocks(e.log)
    PROVE  Resting(e, k, cut)
<1>1. 0 \in 0..Len(e.index)
  BY DEF DiskType
<1>2. QED
  BY <1>1 DEF Resting

\* The rest of a sequence from a place on.
LEMMA RestOf ==
    ASSUME NEW S, NEW s \in Seq(S), NEW m \in Nat, m + 1 \in 1..Len(s)
    PROVE  /\ SubSeq(s, m + 1, Len(s)) \in Seq(S) /\ Len(SubSeq(s, m + 1, Len(s))) = Len(s) - m
           /\ \A i \in 1..(Len(s) - m) : SubSeq(s, m + 1, Len(s))[i] = s[m + i]
<1>1. Len(s) \in Nat /\ \A i \in (m + 1)..Len(s) : s[i] \in S
  OBVIOUS
<1>2. PICK t : t = SubSeq(s, m + 1, Len(s))
  BY Zenon
<1>3. t \in Seq(S) /\ Len(t) = Len(s) - m
  BY <1>1, <1>2, SubSeqProperties
<1>4. \A i \in 1..(Len(s) - m) : t[i] = s[m + i]
  BY <1>1, <1>2, SubSeqProperties
<1>5. QED
  BY <1>2, <1>3, <1>4

\* The blocks of a log after the first m.
LaterPart(o, m) == SubSeq(o.blocks, m + 1, Len(o.blocks))

\* Blocks with the numbers of those.
NumberedFrom(blocks, o, m) ==
    /\ blocks \in Seq(Nat) /\ Len(blocks) = Len(o.blocks) - m
    /\ \A i \in 1..Len(blocks) : blocks[i] = o.first + m + i - 1
    /\ \A b \in Blocks(o) : b >= o.first + m => \E i \in 1..Len(blocks) : blocks[i] = b

\* The later part of a log goes on with the numbers.
LEMMA LaterBlocks ==
    ASSUME NEW o \in LogType, GoodLog(o), NEW m \in Nat, m + 1 \in 1..Len(o.blocks)
    PROVE  NumberedFrom(LaterPart(o, m), o, m)
<1>0. PICK blocks : blocks = LaterPart(o, m)
  OBVIOUS
<1>1. PICK f \in Nat, old \in Seq(Nat), len \in Nat : f = o.first /\ old = o.blocks /\ len = Len(old)
  BY DEF LogType
<1>2. \A i \in 1..len : old[i] = f + i - 1
  BY <1>1, Zenon DEF GoodLog
<1>3. m + 1 \in 1..len
  BY <1>1
<1>4. /\ blocks \in Seq(Nat) /\ Len(blocks) = len - m
      /\ \A i \in 1..(len - m) : blocks[i] = old[m + i]
  BY <1>0, <1>1, <1>3, RestOf, Zenon DEF LaterPart
<1>5. len - m \in Nat /\ \A i \in 1..(len - m) : m + i \in 1..len /\ f + (m + i) - 1 = f + m + i - 1
  BY <1>3
<1>6. \A i \in 1..(len - m) : blocks[i] = f + m + i - 1
  BY <1>2, <1>4, <1>5
<1>7. ASSUME NEW b \in Blocks(o), b >= f + m PROVE \E i \in 1..(len - m) : blocks[i] = b
  <2>1. PICK i \in 1..len : b = old[i]
    BY <1>1 DEF Blocks
  <2>2. b = f + i - 1
    BY <1>2, <2>1
  <2>3. i - m \in 1..(len - m) /\ f + m + (i - m) - 1 = b
    BY <1>7, <2>2
  <2>4. blocks[i - m] = b
    BY <1>6, <2>3
  <2>5. QED
    BY <2>3, <2>4
<1>8. QED
  BY <1>0, <1>1, <1>4, <1>5, <1>6, <1>7 DEF NumberedFrom

\* The log that trimming from the front makes has the blocks from n on.
LEMMA FrontLog ==
    ASSUME NEW k, NEW cut, Resting(disk, k, cut), TrimData,
           NEW n \in Nat, disk.log.first < n, n <= LastIndexed, HasBlockAt(n),
           NEW l, l = TrimmedFront(n)
    PROVE  /\ l \in LogType /\ GoodLog(l) /\ l.header = "set" /\ l.first = n /\ l.torn = FALSE
           /\ Len(l.blocks) < Len(disk.log.blocks)
           /\ \A b \in Blocks(disk.log) : b >= n => b \in Blocks(l)
<1>1. /\ disk.log.header = "set" /\ disk.log.first \in Nat /\ disk.log.first >= 1
      /\ Len(disk.log.blocks) \in Nat
  BY TrimFacts
<1>2. /\ n - disk.log.first + 1 \in 1..Len(disk.log.blocks)
      /\ BlocksBefore(block_pos(n)) = n - disk.log.first
  BY <1>1, BlockFacts
<1>3. disk.log \in LogType /\ GoodLog(disk.log)
  BY DEF Resting, DiskType
<1>4. PICK m \in Nat : m = n - disk.log.first
  BY <1>1
<1>5. PICK blocks : blocks = LaterPart(disk.log, m)
  OBVIOUS
<1>6. n = disk.log.first + m /\ m >= 1
  BY <1>1, <1>4
<1>7. /\ blocks \in Seq(Nat) /\ Len(blocks) = Len(disk.log.blocks) - m
      /\ \A i \in 1..Len(blocks) : blocks[i] = n + i - 1
      /\ \A b \in Blocks(disk.log) : b >= n => \E i \in 1..Len(blocks) : blocks[i] = b
  <2>1. m + 1 \in 1..Len(disk.log.blocks)
    BY <1>2, <1>4
  <2>2. NumberedFrom(blocks, disk.log, m)
    BY <1>3, <1>5, <2>1, LaterBlocks, Zenon
  <2>3. QED
    BY <1>6, <2>2 DEF NumberedFrom
<1>8. l = [header |-> "set", first |-> n, torn |-> FALSE, blocks |-> blocks]
  BY <1>2, <1>4, <1>5 DEF TrimmedFront, LaterPart
<1>9. l \in LogType /\ l.header = "set" /\ l.first = n /\ l.torn = FALSE /\ l.blocks = blocks
  BY <1>7, <1>8 DEF LogType, Headers
<1>10. GoodLog(l)
  BY <1>1, <1>7, <1>9 DEF GoodLog
<1>11. Len(l.blocks) < Len(disk.log.blocks)
  BY <1>1, <1>6, <1>7, <1>9
<1>12. \A b \in Blocks(disk.log) : b >= n => b \in Blocks(l)
  BY <1>7, <1>9, Zenon DEF Blocks
<1>13. QED
  BY <1>9, <1>10, <1>11, <1>12

\* The files after each of the renames.
FrontFiles(moved, logged, bare, full, n) ==
    /\ moved = [disk EXCEPT !.log = NoBlocks("absent", 0), !.old = Blocks(disk.log)]
    /\ logged = [moved EXCEPT !.log = TrimmedFront(n)]
    /\ bare = [logged EXCEPT !.index = <<>>]
    /\ full = [bare EXCEPT !.index = Positions(bare.log)]

\* trim_blocklog_front goes through files to rest in: until the renames are done the blocks are in
\* the log that was moved away.
LEMMA TrimFrontRests ==
    ASSUME NEW k, NEW cut, Resting(disk, k, cut), TrimData,
           NEW n \in Nat, disk.log.first < n, n <= LastIndexed, HasBlockAt(n),
           Len(disk.index) = Len(disk.log.blocks), NEW status, status # "open",
           NEW moved, NEW logged, NEW bare, NEW full, FrontFiles(moved, logged, bare, full, n)
    PROVE  Passable(<<moved, logged, bare, full>>,
                    Always({b \in k : b >= n}, <<moved, logged, bare, full>>), "trim", cut, status)
<1>0. PICK keep, s : keep = {b \in k : b >= n} /\ s = <<moved, logged, bare, full>>
  BY Zenon
<1>1. /\ disk \in DiskType /\ disk.log \in LogType /\ k \in SUBSET Nat
      /\ k \subseteq Blocks(disk.log) \cup disk.backup
      /\ cut \cap {"repair", "trim"} = {} => k \subseteq Blocks(disk.log)
  BY DEF Resting, DiskType, TrimData
<1>2. /\ disk.log.first \in Nat /\ disk.log.first >= 1 /\ Len(disk.index) \in Nat
      /\ \A i \in 1..Len(disk.index) : disk.index[i] = HeaderSize(disk.log.first) + i - 1
  BY TrimFacts
<1>3. PICK l : l = TrimmedFront(n)
  OBVIOUS
<1>4. /\ l \in LogType /\ GoodLog(l) /\ l.header = "set" /\ l.first = n /\ l.torn = FALSE
      /\ Len(l.blocks) < Len(disk.log.blocks)
      /\ \A b \in Blocks(disk.log) : b >= n => b \in Blocks(l)
  BY <1>3, FrontLog, Zenon
<1>5. Blocks(disk.log) \in SUBSET Nat
  BY <1>1 DEF LogType, Blocks
<1>6. PICK none : none = NoBlocks("absent", 0)
  OBVIOUS
<1>7. none \in LogType /\ GoodLog(none) /\ none.header = "absent"
  <2>1. <<>> \in Seq(Nat) /\ Len(<<>>) = 0
    OBVIOUS
  <2>2. none \in LogType /\ none.header = "absent" /\ none.blocks = <<>> /\ none.torn = FALSE
    BY <1>6, <2>1 DEF NoBlocks, LogType, Headers
  <2>3. QED
    BY <2>1, <2>2 DEF GoodLog
<1>8. Positions(l) \in Seq(Nat) /\ Len(Positions(l)) = Len(l.blocks) /\ Len(l.blocks) \in Nat
      /\ \A i \in 1..Len(l.blocks) : Positions(l)[i] = HeaderSize(n) + i - 1
  <2>1. l.blocks \in Seq(Nat) /\ Len(l.blocks) \in Nat
    BY <1>4 DEF LogType
  <2>2. \A i \in 1..Len(l.blocks) : Pos(l, i) = HeaderSize(n) + i - 1 /\ Pos(l, i) \in Nat
    BY <1>4, <2>1, HeaderSizes DEF Pos
  <2>3. QED
    BY <2>1, <2>2 DEF Positions
<1>9. moved \in DiskType /\ moved.log = none /\ moved.index = disk.index /\ moved.old = Blocks(disk.log)
      /\ moved.backup = disk.backup
  BY <1>1, <1>5, <1>6, <1>7, Zenon DEF DiskType, FrontFiles
<1>10. logged \in DiskType /\ logged.log = l /\ logged.index = disk.index /\ logged.backup = disk.backup
  BY <1>3, <1>4, <1>9, Zenon DEF DiskType, FrontFiles
<1>11. bare \in DiskType /\ bare.log = l /\ bare.index = <<>> /\ bare.backup = disk.backup
  <2>1. <<>> \in Seq(Nat)
    OBVIOUS
  <2>2. QED
    BY <1>10, <2>1, Zenon DEF DiskType, FrontFiles
<1>12. full \in DiskType /\ full.log = l /\ full.index = Positions(l) /\ full.backup = disk.backup
  BY <1>8, <1>11, Zenon DEF DiskType, FrontFiles
<1>13. keep \in SUBSET Nat /\ keep \subseteq Blocks(disk.log) \cup disk.backup
  BY <1>0, <1>1, Zenon
<1>14. keep \subseteq Blocks(l) \cup disk.backup /\ (cut \cap {"repair", "trim"} = {} => keep \subseteq Blocks(l))
  BY <1>0, <1>1, <1>4, Zenon
<1>15. WhenCut("trim", cut) = cut \cup {"trim"} /\ WhenDone("trim", cut) = cut
  BY DEF WhenCut, WhenDone
<1>16. Resting(moved, keep, cut \cup {"trim"})
  BY <1>7, <1>9, <1>13 DEF Resting
<1>17. HeaderSize(n) = 1 /\ HeaderSize(disk.log.first) \in {1, 2}
  BY <1>2 DEF HeaderSize
<1>18. PICK h \in {1, 2} : h = HeaderSize(disk.log.first)
  BY <1>17
<1>19. Shape(logged, h, 0)
  <2>1. \A i \in 1..Len(disk.index) : disk.index[i] = IF i <= 0 THEN 0 ELSE h + i - 1
    BY <1>2, <1>18
  <2>2. QED
    BY <1>4, <1>10, <1>17, <2>1 DEF Shape
<1>20. Shape(bare, 1, 0)
  BY <1>4, <1>11, <1>17 DEF Shape
<1>21. Shape(full, 1, 0)
  <2>1. \A i \in 1..Len(full.index) : full.index[i] = IF i <= 0 THEN 0 ELSE 1 + i - 1
    BY <1>8, <1>12, <1>17
  <2>2. QED
    BY <1>4, <1>12, <1>17, <2>1 DEF Shape
<1>22. Resting(logged, keep, cut) /\ Resting(bare, keep, cut) /\ Resting(full, keep, cut)
  <2>1. 1 \in {1, 2}
    OBVIOUS
  <2>2. Resting(logged, keep, cut)
    BY <1>4, <1>10, <1>13, <1>14, <1>19, PartRests, Zenon
  <2>3. Resting(bare, keep, cut)
    BY <2>1, <1>4, <1>11, <1>13, <1>14, <1>20, PartRests, Zenon
  <2>4. Resting(full, keep, cut)
    BY <2>1, <1>4, <1>12, <1>13, <1>14, <1>21, PartRests, Zenon
  <2>5. QED
    BY <2>2, <2>3, <2>4
<1>23. \A i \in 1..4 : Resting(s[i], keep, cut \cup {"trim"})
  <2>1. SUFFICES ASSUME NEW i \in 1..4 PROVE Resting(s[i], keep, cut \cup {"trim"})
    OBVIOUS
  <2>2. i = 1 \/ i = 2 \/ i = 3 \/ i = 4
    OBVIOUS
  <2>3. s[1] = moved /\ s[2] = logged /\ s[3] = bare /\ s[4] = full
    BY <1>0
  <2>4. cut \subseteq cut \cup {"trim"}
    OBVIOUS
  <2>5. Resting(logged, keep, cut \cup {"trim"}) /\ Resting(bare, keep, cut \cup {"trim"})
        /\ Resting(full, keep, cut \cup {"trim"})
    BY <1>22, <2>4, MoreCut, Zenon
  <2>6. QED
    BY <1>16, <2>2, <2>3, <2>5
<1>24. s \in Seq(DiskType) /\ s # <<>> /\ Len(s) = 4 /\ s[4] = full
  BY <1>0, <1>9, <1>10, <1>11, <1>12
<1>25. Passable(s, Always(keep, s), "trim", cut, status)
  BY <1>15, <1>22, <1>23, <1>24, Steady, Zenon
<1>26. QED
  BY <1>0, <1>25, Zenon


\* Blocks with the numbers of the first m of a log.
NumberedTo(blocks, o, m) ==
    /\ blocks \in Seq(Nat) /\ Len(blocks) = m
    /\ \A i \in 1..Len(blocks) : blocks[i] = o.first + i - 1
    /\ \A b \in Blocks(o) : b < o.first + m => \E i \in 1..Len(blocks) : blocks[i] = b

\* The first part of a sequence.
LEMMA StartOf ==
    ASSUME NEW S, NEW s \in Seq(S), NEW m \in 0..Len(s)
    PROVE  /\ SubSeq(s, 1, m) \in Seq(S) /\ Len(SubSeq(s, 1, m)) = m
           /\ \A i \in 1..m : SubSeq(s, 1, m)[i] = s[i]
<1>1. Len(s) \in Nat /\ m \in Nat /\ \A i \in 1..m : s[i] \in S
  OBVIOUS
<1>2. PICK t : t = SubSeq(s, 1, m)
  BY Zenon
<1>3. t \in Seq(S) /\ Len(t) = m
  BY <1>1, <1>2, SubSeqProperties
<1>4. \A i \in 1..m : t[i] = s[i]
  BY <1>1, <1>2, SubSeqProperties
<1>5. QED
  BY <1>2, <1>3, <1>4

\* The first part of a log begins with its numbers.
LEMMA EarlierBlocks ==
    ASSUME NEW o \in LogType, GoodLog(o), NEW m \in 0..Len(o.blocks)
    PROVE  NumberedTo(SubSeq(o.blocks, 1, m), o, m)
<1>0. PICK blocks : blocks = SubSeq(o.blocks, 1, m)
  BY Zenon
<1>1. PICK f \in Nat, old \in Seq(Nat), len \in Nat : f = o.first /\ old = o.blocks /\ len = Len(old)
  BY DEF LogType
<1>2. \A i \in 1..len : old[i] = f + i - 1
  BY <1>1, Zenon DEF GoodLog
<1>3. m \in 0..len
  BY <1>1
<1>4. blocks \in Seq(Nat) /\ Len(blocks) = m /\ \A i \in 1..m : blocks[i] = old[i]
  BY <1>0, <1>1, <1>3, StartOf
<1>5. \A i \in 1..m : blocks[i] = f + i - 1
  <2>1. \A i \in 1..m : i \in 1..len
    BY <1>3
  <2>2. QED
    BY <1>2, <1>4, <2>1, Zenon
<1>6. ASSUME NEW b \in Blocks(o), b < f + m PROVE \E i \in 1..m : blocks[i] = b
  <2>1. PICK i \in 1..len : b = old[i]
    BY <1>1 DEF Blocks
  <2>2. b = f + i - 1
    BY <1>2, <2>1
  <2>3. i \in 1..m
    BY <1>3, <1>6, <2>2
  <2>4. QED
    BY <1>4, <2>1, <2>3
<1>7. QED
  BY <1>0, <1>1, <1>4, <1>5, <1>6, Zenon DEF NumberedTo

\* The files after each of the two cuts.
EndFiles(short, done, n) ==
    /\ short = [disk EXCEPT !.log.blocks = SubSeq(@, 1, BlocksBefore(block_pos(n + 1))), !.log.torn = FALSE]
    /\ done = [short EXCEPT !.index = SubSeq(@, 1, n - short.log.first + 1)]

\* trim_blocklog_end goes through files to rest in: in between the index is longer than the log.
LEMMA TrimEndRests ==
    ASSUME NEW k, NEW cut, Resting(disk, k, cut), TrimData,
           NEW n \in Nat, disk.log.first <= n, n < LastIndexed, HasBlockAt(n + 1),
           NEW status, status # "open", NEW short, NEW done, EndFiles(short, done, n)
    PROVE  Passable(<<short, done>>, Always({b \in k : b <= n}, <<short, done>>), "cut", cut, status)
<1>0. PICK keep : keep = {b \in k : b <= n}
  BY Zenon
<1>1. /\ disk \in DiskType /\ disk.log \in LogType /\ GoodLog(disk.log) /\ k \in SUBSET Nat
      /\ k \subseteq Blocks(disk.log) \cup disk.backup
      /\ cut \cap {"repair", "trim"} = {} => k \subseteq Blocks(disk.log)
  BY DEF Resting, DiskType, TrimData
<1>2. /\ disk.log.header = "set" /\ disk.log.first \in Nat /\ disk.log.first >= 1
      /\ Len(disk.index) \in Nat /\ Len(disk.log.blocks) \in Nat
      /\ \A i \in 1..Len(disk.index) : disk.index[i] = HeaderSize(disk.log.first) + i - 1
  BY TrimFacts
<1>3. PICK next \in Nat : next = n + 1
  OBVIOUS
<1>4. disk.log.first <= next /\ next <= LastIndexed /\ HasBlockAt(next)
  BY <1>2, <1>3 DEF LastIndexed
<1>5. /\ next - disk.log.first + 1 \in 1..Len(disk.log.blocks)
      /\ BlocksBefore(block_pos(next)) = next - disk.log.first
  BY <1>4, BlockFacts
<1>6. PICK m \in Nat : m = n - disk.log.first + 1
  BY <1>2
<1>7. /\ m = BlocksBefore(block_pos(n + 1)) /\ m \in 0..Len(disk.log.blocks) /\ n + 1 = disk.log.first + m
  <2>1. m = next - disk.log.first /\ next = disk.log.first + m
    <3>1. PICK f \in Nat : f = disk.log.first
      BY <1>2
    <3>2. m = n - f + 1 /\ next = n + 1
      BY <1>3, <1>6, <3>1
    <3>3. m = next - f /\ next = f + m
      BY <3>2
    <3>4. QED
      BY <3>1, <3>3
  <2>2. m + 1 \in 1..Len(disk.log.blocks)
    BY <1>5, <2>1
  <2>3. m \in 0..Len(disk.log.blocks)
    BY <1>2, <2>2
  <2>4. QED
    BY <1>3, <1>5, <2>1, <2>3
<1>8. PICK blocks : blocks = SubSeq(disk.log.blocks, 1, m)
  BY Zenon
<1>9. NumberedTo(blocks, disk.log, m)
  BY <1>1, <1>7, <1>8, EarlierBlocks, Zenon
<1>10. blocks \in Seq(Nat) /\ Len(blocks) = m
  BY <1>9, Zenon DEF NumberedTo
<1>11. PICK l : l = [disk.log EXCEPT !.blocks = blocks, !.torn = FALSE]
  OBVIOUS
<1>12. /\ l \in LogType /\ l.header = "set" /\ l.first = disk.log.first /\ l.torn = FALSE /\ l.blocks = blocks
  BY <1>1, <1>2, <1>10, <1>11, Zenon DEF LogType
<1>13. GoodLog(l)
  BY <1>2, <1>9, <1>12 DEF GoodLog, NumberedTo
<1>14. \A b \in Blocks(disk.log) : b <= n => b \in Blocks(l)
  <2>1. SUFFICES ASSUME NEW b \in Blocks(disk.log), b <= n PROVE b \in Blocks(l)
    OBVIOUS
  <2>2. b \in Nat
    BY <1>1 DEF LogType, Blocks
  <2>3. b < disk.log.first + m
    BY <1>7, <2>1, <2>2
  <2>4. QED
    BY <1>9, <1>12, <2>3, Zenon DEF NumberedTo, Blocks
<1>15. /\ short \in DiskType /\ short.log = l /\ short.index = disk.index
       /\ short.backup = disk.backup
  BY <1>1, <1>7, <1>8, <1>11, <1>12, Zenon DEF EndFiles, DiskType
<1>16. m <= Len(disk.index) /\ disk.index \in Seq(Nat) /\ m \in 0..Len(disk.index)
  BY <1>1, <1>2, <1>6 DEF LastIndexed, DiskType
<1>17. PICK index : index = SubSeq(disk.index, 1, m)
  BY Zenon
<1>18. index \in Seq(Nat) /\ Len(index) = m /\ \A i \in 1..m : index[i] = disk.index[i]
  BY <1>16, <1>17, StartOf, Zenon
<1>19. done \in DiskType /\ done.log = l /\ done.index = index /\ done.backup = disk.backup
  <2>1. done = [short EXCEPT !.index = index]
    BY <1>6, <1>12, <1>15, <1>17, Zenon DEF EndFiles
  <2>2. QED
    BY <1>15, <1>18, <2>1, Zenon DEF DiskType
<1>20. PICK h \in {1, 2} : h = HeaderSize(disk.log.first)
  BY HeaderSizes
<1>21. Shape(short, h, 0)
  <2>1. \A i \in 1..Len(short.index) : short.index[i] = IF i <= 0 THEN 0 ELSE h + i - 1
    BY <1>2, <1>15, <1>20
  <2>2. QED
    BY <1>12, <1>15, <1>20, <2>1 DEF Shape
<1>22. Shape(done, h, 0)
  <2>1. \A i \in 1..Len(done.index) : done.index[i] = IF i <= 0 THEN 0 ELSE h + i - 1
    <3>1. \A i \in 1..m : i \in 1..Len(disk.index) /\ ~(i <= 0)
      BY <1>2, <1>16
    <3>2. \A i \in 1..m : index[i] = h + i - 1
      BY <1>2, <1>18, <1>20, <3>1, Zenon
    <3>3. QED
      BY <1>18, <1>19, <3>1, <3>2
  <2>2. QED
    BY <1>12, <1>19, <1>20, <2>1 DEF Shape
<1>23. keep \in SUBSET Nat
  BY <1>0, <1>1, Zenon
<1>24. keep \subseteq Blocks(l) \cup disk.backup /\ (cut \cap {"repair", "trim"} = {} => keep \subseteq Blocks(l))
  BY <1>0, <1>1, <1>14, Zenon
<1>25. Resting(short, keep, cut) /\ Resting(done, keep, cut)
  <2>1. Resting(short, keep, cut)
    BY <1>12, <1>13, <1>15, <1>21, <1>23, <1>24, PartRests, Zenon
  <2>2. Resting(done, keep, cut)
    BY <1>12, <1>13, <1>19, <1>22, <1>23, <1>24, PartRests, Zenon
  <2>3. QED
    BY <2>1, <2>2
<1>26. WhenDone("cut", cut) = cut /\ cut \subseteq WhenCut("cut", cut)
  BY DEF WhenDone, WhenCut
<1>27. Resting(short, keep, WhenCut("cut", cut)) /\ Resting(done, keep, WhenCut("cut", cut))
  BY <1>25, <1>26, MoreCut, Zenon
<1>28. Passable(<<short, done>>, Always(keep, <<short, done>>), "cut", cut, status)
  BY <1>15, <1>19, <1>25, <1>26, <1>27, TwoStates, Zenon
<1>29. QED
  BY <1>0, <1>28, Zenon


\* The files once repair_log has moved the log away, and once it has written the version.
RepairFiles(moved, versioned) ==
    /\ moved = [disk EXCEPT !.log = NoBlocks("empty", 0), !.index = <<>>, !.backup = @ \cup Blocks(disk.log)]
    /\ versioned = [moved EXCEPT !.log = NoBlocks("part", 0)]

\* In both all blocks are in a backup.
LEMMA MovedFiles ==
    ASSUME disk \in DiskType, NEW moved, NEW versioned, RepairFiles(moved, versioned)
    PROVE  /\ moved \in DiskType /\ moved.log.header = "empty" /\ GoodLog(moved.log)
           /\ versioned \in DiskType /\ versioned.log.header = "part" /\ GoodLog(versioned.log)
           /\ moved.index = <<>> /\ moved.old = disk.old /\ moved.backup = disk.backup \cup Blocks(disk.log)
           /\ versioned.old = disk.old /\ versioned.backup = moved.backup
<1>1. PICK l, m : l = NoBlocks("empty", 0) /\ m = NoBlocks("part", 0)
  OBVIOUS
<1>2. <<>> \in Seq(Nat) /\ Len(<<>>) = 0
  OBVIOUS
<1>3. /\ l \in LogType /\ l.header = "empty" /\ l.blocks = <<>> /\ l.torn = FALSE
      /\ m \in LogType /\ m.header = "part" /\ m.blocks = <<>> /\ m.torn = FALSE
  BY <1>1, <1>2 DEF NoBlocks, LogType, Headers
<1>4. GoodLog(l) /\ GoodLog(m)
  <2>1. \A i \in 1..Len(l.blocks) : FALSE
    BY <1>2, <1>3
  <2>2. \A i \in 1..Len(m.blocks) : FALSE
    BY <1>2, <1>3
  <2>3. QED
    BY <1>3, <2>1, <2>2 DEF GoodLog
<1>5. Blocks(disk.log) \in SUBSET Nat
  BY DEF DiskType, LogType, Blocks
<1>6. /\ moved \in DiskType /\ moved.log = l /\ moved.index = <<>> /\ moved.old = disk.old
      /\ moved.backup = disk.backup \cup Blocks(disk.log)
  BY <1>1, <1>2, <1>3, <1>5, Zenon DEF RepairFiles, DiskType
<1>7. /\ versioned \in DiskType /\ versioned.log = m /\ versioned.old = disk.old
      /\ versioned.backup = moved.backup
  BY <1>1, <1>3, <1>6, Zenon DEF RepairFiles, DiskType
<1>8. QED
  BY <1>3, <1>4, <1>6, <1>7

\* Files without blocks rest with those in the backups.
LEMMA BackupRests ==
    ASSUME NEW k, NEW cut, Resting(disk, k, cut), NEW keep, keep \subseteq k, NEW c,
           NEW e \in DiskType, GoodLog(e.log), e.log.header \in {"empty", "part"},
           e.old = disk.old, e.backup = disk.backup \cup Blocks(disk.log),
           e.log.header = "empty" => "repair" \in c \/ keep = {}
    PROVE  Resting(e, keep, c)
<1>1. /\ k \in SUBSET Nat /\ k \subseteq Blocks(disk.log) \cup disk.old \cup disk.backup
  BY Zenon DEF Resting
<1>2. keep \in SUBSET Nat /\ keep \subseteq Blocks(e.log) \cup e.old \cup e.backup
  BY <1>1
<1>3. e.log.header # "part" /\ c \cap {"repair", "trim"} = {} => keep \subseteq Blocks(e.log)
  OBVIOUS
<1>4. QED
  BY <1>2, <1>3 DEF Resting

\* The files with the first m blocks of a log that began with block 1 are files to rest in, and the
\* blocks to keep are all there if those that the log had are.
LEMMA CopyRests ==
    ASSUME NEW k, NEW cut, Resting(disk, k, cut), NEW keep, keep \subseteq k,
           NEW moved, NEW versioned, RepairFiles(moved, versioned),
           disk.log.header = "set", disk.log.first = 1,
           NEW m \in 0..Len(disk.log.blocks), NEW e, e = CopiedBack(moved, m)
    PROVE  /\ e \in DiskType
           /\ Resting(e, keep, cut \cup {"repair"})
           /\ (\A b \in keep : b \in Blocks(disk.log) => b <= m) => Resting(e, keep, cut)
<1>1. /\ disk \in DiskType /\ disk.log \in LogType /\ GoodLog(disk.log) /\ k \in SUBSET Nat
      /\ k \subseteq Blocks(disk.log) \cup disk.backup
      /\ cut \cap {"repair", "trim"} = {} => k \subseteq Blocks(disk.log)
  BY DEF Resting, DiskType
<1>2. PICK blocks : blocks = SubSeq(disk.log.blocks, 1, m)
  BY Zenon
<1>3. NumberedTo(blocks, disk.log, m)
  BY <1>1, <1>2, EarlierBlocks, Zenon
<1>4. blocks \in Seq(Nat) /\ Len(blocks) = m /\ m \in Nat
  BY <1>3 DEF NumberedTo
<1>5. PICK l : l = [NoBlocks("set", 1) EXCEPT !.blocks = blocks]
  BY Zenon
<1>6. l \in LogType /\ l.header = "set" /\ l.first = 1 /\ l.blocks = blocks /\ l.torn = FALSE
  BY <1>4, <1>5, Zenon DEF NoBlocks, LogType, Headers
<1>7. moved \in DiskType /\ moved.index = <<>> /\ moved.backup = disk.backup \cup Blocks(disk.log)
  BY <1>1, MovedFiles
<1>9. e \in DiskType /\ e.log = l /\ e.index = <<>> /\ e.backup = disk.backup \cup Blocks(disk.log)
  <2>1. e = [moved EXCEPT !.log = l]
    BY <1>2, <1>5 DEF CopiedBack
  <2>2. QED
    BY <1>6, <1>7, <2>1 DEF DiskType
<1>10. GoodLog(l)
  BY <1>3, <1>6 DEF GoodLog, NumberedTo
<1>11. 2 \in {1, 2} /\ Shape(e, 2, 0)
  BY <1>6, <1>9 DEF Shape, HeaderSize
<1>12. keep \in SUBSET Nat /\ keep \subseteq Blocks(e.log) \cup e.backup
  BY <1>1, <1>9
<1>13. e.log.header = "set" /\ GoodLog(e.log)
  BY <1>6, <1>9, <1>10
<1>14. (cut \cup {"repair"}) \cap {"repair", "trim"} = {} => keep \subseteq Blocks(e.log)
  OBVIOUS
<1>15. Resting(e, keep, cut \cup {"repair"})
  BY <1>9, <1>11, <1>12, <1>13, <1>14, PartRests, Zenon
<1>16. ASSUME \A b \in keep : b \in Blocks(disk.log) => b <= m PROVE Resting(e, keep, cut)
  <2>1. cut \cap {"repair", "trim"} = {} => keep \subseteq Blocks(e.log)
    <3>1. SUFFICES ASSUME cut \cap {"repair", "trim"} = {}, NEW b \in keep PROVE b \in Blocks(l)
      BY <1>9
    <3>2. b \in Blocks(disk.log) /\ b <= m /\ b \in Nat
      BY <1>1, <1>16, <3>1, Zenon
    <3>3. b < disk.log.first + m
      BY <1>4, <3>2
    <3>4. QED
      BY <1>3, <1>6, <3>2, <3>3, Zenon DEF NumberedTo, Blocks
  <2>2. QED
    BY <1>9, <1>11, <1>12, <1>13, <2>1, PartRests, Zenon
<1>17. QED
  BY <1>9, <1>15, <1>16


\* The files it goes through while it copies.
CopyStates(moved, stop) == [i \in 1..(CopyCount(stop) + 1) |-> CopiedBack(moved, i - 1)]

\* All of them are copied up to the one to stop at.
LEMMA CopiesAll ==
    ASSUME disk.log \in LogType, GoodLog(disk.log), disk.log.first = 1, NEW stop \in Nat
    PROVE  /\ CopyCount(stop) \in 0..Len(disk.log.blocks)
           /\ \A b \in Blocks(disk.log) : stop = 0 \/ b <= stop => b <= CopyCount(stop)
<1>1. /\ Len(disk.log.blocks) \in Nat /\ disk.log.blocks \in Seq(Nat)
      /\ \A i \in 1..Len(disk.log.blocks) : disk.log.blocks[i] = i
  <2>1. Len(disk.log.blocks) \in Nat /\ disk.log.blocks \in Seq(Nat)
    BY DEF LogType
  <2>2. \A i \in 1..Len(disk.log.blocks) : disk.log.blocks[i] = disk.log.first + i - 1
    BY Zenon DEF GoodLog
  <2>3. \A i \in 1..Len(disk.log.blocks) : 1 + i - 1 = i
    BY <2>1
  <2>4. QED
    BY <2>1, <2>2, <2>3
<1>2. CASE stop \in Blocks(disk.log)
  <2>1. \E i \in 1..Len(disk.log.blocks) : disk.log.blocks[i] = stop
    BY <1>2 DEF Blocks
  <2>2. CopyCount(stop) \in 1..Len(disk.log.blocks) /\ disk.log.blocks[CopyCount(stop)] = stop
    BY <1>2, <2>1, Zenon DEF CopyCount
  <2>3. CopyCount(stop) = stop
    BY <1>1, <2>2
  <2>4. stop # 0
    BY <1>1, <2>2, <2>3
  <2>5. QED
    BY <1>1, <2>2, <2>3, <2>4
<1>3. CASE stop \notin Blocks(disk.log)
  <2>1. CopyCount(stop) = Len(disk.log.blocks)
    BY <1>3 DEF CopyCount
  <2>2. QED
    BY <1>1, <2>1 DEF Blocks
<1>4. QED
  BY <1>2, <1>3

\* repair_log goes through files to rest in. Those of a log that it cannot read are all in the backup.
LEMMA RepairRests ==
    ASSUME NEW k, NEW cut, Resting(disk, k, cut), NEW stop \in Nat, disk.log.header # "absent",
           NEW moved, NEW versioned, RepairFiles(moved, versioned)
    PROVE  Passable(RepairStates(moved, versioned, stop),
                    Always({n \in k : stop = 0 \/ n <= stop}, RepairStates(moved, versioned, stop)),
                    "repair", cut, "closed")
<1>1. PICK keep : keep = {n \in k : stop = 0 \/ n <= stop}
  BY Zenon
<1>2. PICK s : s = RepairStates(moved, versioned, stop)
  OBVIOUS
<1>3. /\ disk \in DiskType /\ disk.log \in LogType /\ GoodLog(disk.log) /\ keep \subseteq k
  BY <1>1 DEF Resting, DiskType
<1>4. /\ moved \in DiskType /\ moved.log.header = "empty" /\ GoodLog(moved.log)
      /\ versioned \in DiskType /\ versioned.log.header = "part" /\ GoodLog(versioned.log)
      /\ moved.old = disk.old /\ moved.backup = disk.backup \cup Blocks(disk.log)
      /\ versioned.old = disk.old /\ versioned.backup = disk.backup \cup Blocks(disk.log)
  BY <1>3, MovedFiles
<1>5. PICK c : c = cut \cup {"repair"}
  BY Zenon
<1>6. WhenCut("repair", cut) = c /\ WhenDone("repair", cut) = cut /\ "repair" \in c
  BY <1>5 DEF WhenCut, WhenDone
<1>7. Resting(moved, keep, c)
  BY <1>3, <1>4, <1>6, BackupRests
<1>8. Resting(versioned, keep, c) /\ Resting(versioned, keep, cut)
  BY <1>3, <1>4, BackupRests
<1>9. CASE disk.log.header \in {"empty", "invalid"}
  <2>1. s = <<moved>> /\ s \in Seq(DiskType) /\ s # <<>> /\ Len(s) = 1 /\ s[1] = moved
    BY <1>2, <1>4, <1>9 DEF RepairStates
  <2>2. Resting(moved, keep, cut)
    <3>1. CASE cut \cap {"repair", "trim"} = {}
      <4>1. keep = {}
        <5>1. CASE disk.log.header = "empty"
          <6>1. k \subseteq Blocks(disk.log) /\ disk.log.blocks = <<>>
            BY <1>3, <3>1, <5>1 DEF Resting, GoodLog
          <6>2. QED
            BY <1>3, <6>1 DEF Blocks
        <5>2. CASE disk.log.header = "invalid"
          BY <1>3, <5>2 DEF Resting
        <5>3. QED
          BY <1>9, <5>1, <5>2
      <4>2. QED
        BY <1>3, <1>4, <4>1, BackupRests
    <3>2. CASE cut \cap {"repair", "trim"} # {}
      BY <1>5, <1>7, <3>2, Zenon DEF Resting
    <3>3. QED
      BY <3>1, <3>2
  <2>3. \A i \in 1..Len(s) : Resting(s[i], keep, c)
    BY <1>7, <2>1
  <2>4. QED
    BY <1>1, <1>2, <1>6, <2>1, <2>2, <2>3, Steady, Zenon
<1>10. CASE /\ disk.log.header \notin {"empty", "invalid"}
            /\ disk.log.header = "part" \/ disk.log.first # 1
  <2>1. s = <<moved, versioned>>
    BY <1>2, <1>10 DEF RepairStates
  <2>2. Passable(<<moved, versioned>>, Always(keep, <<moved, versioned>>), "repair", cut, "closed")
    BY <1>4, <1>6, <1>7, <1>8, TwoStates
  <2>3. QED
    BY <1>1, <1>2, <2>1, <2>2, Zenon
<1>11. CASE disk.log.header \notin {"empty", "invalid", "part"} /\ disk.log.first = 1
  <2>1. disk.log.header = "set"
    BY <1>3, <1>11 DEF LogType, Headers
  <2>2. PICK w, count : w = CopyStates(moved, stop) /\ count = CopyCount(stop)
    OBVIOUS
  <2>3. /\ count \in 0..Len(disk.log.blocks) /\ Len(disk.log.blocks) \in Nat /\ count \in Nat
        /\ \A b \in keep : b \in Blocks(disk.log) => b <= count
    <3>1. /\ count \in 0..Len(disk.log.blocks)
          /\ \A b \in Blocks(disk.log) : stop = 0 \/ b <= stop => b <= count
      BY <1>3, <1>11, <2>2, CopiesAll
    <3>2. Len(disk.log.blocks) \in Nat
      BY <1>3 DEF LogType
    <3>3. QED
      BY <1>1, <3>1, <3>2
  <2>4. ASSUME NEW i \in 1..(count + 1)
        PROVE  /\ w[i] \in DiskType /\ Resting(w[i], keep, c)
               /\ i = count + 1 => Resting(w[i], keep, cut)
    <3>1. PICK m \in 0..Len(disk.log.blocks) : m = i - 1 /\ (i = count + 1 => m = count)
      <4>1. i - 1 \in 0..Len(disk.log.blocks) /\ (i = count + 1 => i - 1 = count)
        BY <2>3
      <4>2. QED
        BY <4>1
    <3>2. PICK e : e = CopiedBack(moved, m)
      OBVIOUS
    <3>3. w[i] = e
      BY <2>2, <3>1, <3>2 DEF CopyStates
    <3>4. /\ e \in DiskType /\ Resting(e, keep, c)
          /\ (\A b \in keep : b \in Blocks(disk.log) => b <= m) => Resting(e, keep, cut)
      BY <1>3, <1>5, <1>11, <2>1, <3>2, CopyRests, Zenon
    <3>5. QED
      BY <2>3, <3>1, <3>3, <3>4
  <2>5. w \in Seq(DiskType) /\ Len(w) = count + 1
    <3>1. w = [i \in 1..(count + 1) |-> w[i]]
      BY <2>2 DEF CopyStates
    <3>2. w \in [1..(count + 1) -> DiskType]
      BY <2>4, <3>1
    <3>3. QED
      BY <2>3, <3>2
  <2>6. s = <<moved, versioned>> \o w
    BY <1>2, <1>11, <2>2, Zenon DEF RepairStates, CopyStates
  <2>7. /\ s \in Seq(DiskType) /\ Len(s) = count + 3 /\ s # <<>> /\ s[1] = moved /\ s[2] = versioned
        /\ \A i \in 3..Len(s) : s[i] = w[i - 2]
    BY <1>4, <2>3, <2>5, <2>6
  <2>8. \A i \in 1..Len(s) : Resting(s[i], keep, c)
    <3>1. SUFFICES ASSUME NEW i \in 1..Len(s) PROVE Resting(s[i], keep, c)
      OBVIOUS
    <3>2. i = 1 \/ i = 2 \/ (i \in 3..Len(s) /\ i - 2 \in 1..(count + 1))
      BY <2>3, <2>7
    <3>3. QED
      BY <1>7, <1>8, <2>4, <2>7, <3>2
  <2>9. Resting(s[Len(s)], keep, cut)
    <3>1. Len(s) \in 3..Len(s) /\ Len(s) - 2 = count + 1 /\ count + 1 \in 1..(count + 1)
      BY <2>3, <2>7
    <3>2. QED
      BY <2>4, <2>7, <3>1
  <2>10. Passable(s, Always(keep, s), "repair", cut, "closed")
    BY <1>6, <2>7, <2>8, <2>9, Steady
  <2>11. QED
    BY <1>1, <1>2, <2>10, Zenon
<1>12. QED
  BY <1>9, <1>10, <1>11


-----------------------------------------------------------------------------
(* The invariant is inductive                                              *)

\* An operation that begins with nothing in progress has files to rest in ahead of it.
LEMMA Begins ==
    ASSUME LogInv, NEW name \in Operations, NEW states, NEW keep, Starts(name, states, keep),
           logger' \in {"closed", "open", "refused"}, Passable(states, keep, name, interrupted, logger'),
           UNCHANGED <<disk, kept, interrupted>>
    PROVE  LogInv'
<1>1. /\ Idle /\ doing' = name
      /\ todo' = [i \in 1..Len(states) |-> [disk |-> states[i], kept |-> keep[i]]]
  BY DEF Starts
<1>2. /\ states \in Seq(DiskType) /\ states # <<>>
      /\ \A i \in 1..Len(states) : Resting(states[i], keep[i], WhenCut(name, interrupted))
      /\ Resting(states[Len(states)], keep[Len(states)], WhenDone(name, interrupted))
      /\ logger' = "open" => Openable(states[Len(states)])
  BY Zenon DEF Passable
<1>3. Len(states) \in Nat /\ Len(states) \in 1..Len(states)
  BY <1>2
<1>4. \A i \in 1..Len(states) : todo'[i].disk = states[i] /\ todo'[i].kept = keep[i]
  BY <1>1
<1>5. todo' \in Seq([disk : DiskType, kept : SUBSET Nat]) /\ Len(todo') = Len(states)
  <2>1. \A i \in 1..Len(states) : [disk |-> states[i], kept |-> keep[i]] \in [disk : DiskType, kept : SUBSET Nat]
    <3>1. \A i \in 1..Len(states) : states[i] \in DiskType /\ keep[i] \in SUBSET Nat
      BY <1>2, Zenon DEF Resting
    <3>2. QED
      BY <3>1
  <2>2. todo' \in [1..Len(states) -> [disk : DiskType, kept : SUBSET Nat]]
    BY <1>1, <2>1
  <2>3. PICK len, S, t : len = Len(states) /\ S = [disk : DiskType, kept : SUBSET Nat] /\ t = todo'
    BY Zenon
  <2>4. len \in Nat /\ t \in [1..len -> S]
    BY <1>3, <2>2, <2>3
  <2>5. t \in Seq(S) /\ Len(t) = len
    BY <2>4
  <2>6. QED
    BY <2>3, <2>5
<1>6. todo' # <<>>
  BY <1>3, <1>5
<1>7. Pending(todo', name, interrupted, logger')
  <2>1. \A i \in 1..Len(todo') : Resting(todo'[i].disk, todo'[i].kept, WhenCut(name, interrupted))
    BY <1>2, <1>4, <1>5, Zenon
  <2>2. PICK last : last = todo'[Len(todo')]
    OBVIOUS
  <2>3. last.disk = states[Len(states)] /\ last.kept = keep[Len(states)]
    BY <1>3, <1>4, <1>5, <2>2, Zenon
  <2>4. Resting(last.disk, last.kept, WhenDone(name, interrupted)) /\ (logger' = "open" => Openable(last.disk))
    BY <1>2, <2>3, Zenon
  <2>5. QED
    BY <1>5, <2>1, <2>2, <2>4, Zenon DEF Pending
<1>8. Resting(disk, kept, interrupted) /\ interrupted \in SUBSET Operations
  BY <1>1, Zenon DEF LogInv
<1>9. interrupted \subseteq interrupted \cup {name}
  OBVIOUS
<1>10. Resting(disk, kept, interrupted \cup {name})
  BY <1>8, <1>9, MoreCut, Zenon
<1>11. /\ doing' = name /\ disk' = disk /\ kept' = kept /\ interrupted' = interrupted /\ ~Idle'
  BY <1>1, <1>6 DEF Idle
<1>12. /\ Resting(disk, kept, interrupted \cup {name})' /\ Pending(todo', doing', interrupted', logger')
       /\ interrupted' \in SUBSET Operations /\ doing' \in Operations
  BY <1>7, <1>8, <1>10, <1>11
<1>13. QED
  BY <1>11, <1>12 DEF LogInv

\* Files that change while nothing is in progress.
LEMMA RestsOn ==
    ASSUME LogInv, Idle, UNCHANGED <<todo, doing, interrupted>>,
           logger' \in {"closed", "open", "refused"}, Resting(disk', kept', interrupted),
           logger' = "open" => Openable(disk')
    PROVE  LogInv'
<1>1. todo' = <<>> /\ Idle' /\ doing' = doing /\ interrupted' = interrupted
  BY DEF Idle
<1>2. Pending(todo', doing', interrupted', logger')
  <2>1. <<>> \in Seq([disk : DiskType, kept : SUBSET Nat]) /\ Len(<<>>) = 0
    OBVIOUS
  <2>2. \A i \in 1..Len(<<>>) : FALSE
    BY <2>1
  <2>3. QED
    BY <1>1, <2>1, <2>2, Zenon DEF Pending
<1>3. doing \in Operations /\ interrupted \in SUBSET Operations
  BY DEF LogInv
<1>4. QED
  BY <1>1, <1>2, <1>3 DEF LogInv


\* An index whose last position is that of the last block has as many positions as the log has blocks.
LEMMA HeadMatches ==
    ASSUME NEW d, NEW k, NEW cut, Resting(d, k, cut), d.log.header = "set", ~d.log.torn, IndexHeadMatches(d)
    PROVE  Openable(d)
<1>1. d \in DiskType /\ d.log \in LogType
  BY DEF Resting, DiskType
<1>2. PICK a \in Nat, b \in Nat : a = Len(d.index) /\ b = Len(d.log.blocks)
  BY <1>1 DEF DiskType, LogType
<1>3. a >= 1 /\ d.index[a] = HeaderSize(d.log.first) + b - 1 /\ b >= 1
  BY <1>1, <1>2 DEF IndexHeadMatches, Pos, DiskType, LogType
<1>4. PICK h \in {1, 2}, z \in 0..Len(d.index) : Shape(d, h, z)
  BY DEF Resting
<1>5. PICK size \in {1, 2} : size = HeaderSize(d.log.first)
  BY HeaderSizes
<1>6. /\ d.index[a] = IF a <= z THEN 0 ELSE h + a - 1
      /\ h >= size /\ (h > size => a > b)
  BY <1>2, <1>3, <1>4, <1>5 DEF Shape
<1>7. d.index[a] >= 1
  BY <1>3, <1>5
<1>8. ~(a <= z)
  BY <1>6, <1>7
<1>9. h + a - 1 = size + b - 1
  BY <1>3, <1>5, <1>6, <1>8
<1>10. a = b
  BY <1>6, <1>9
<1>11. QED
  BY <1>2, <1>10 DEF Openable

\* open keeps the invariant.
LEMMA OpenKept ==
    ASSUME LogInv, open
    PROVE  LogInv'
<1>1. /\ Idle /\ kept' = kept /\ interrupted' = interrupted
  BY DEF open
<1>2. Resting(disk, kept, interrupted)
  BY <1>1, Zenon DEF LogInv
<1>3. CASE /\ disk.log.header \in {"absent", "empty"}
           /\ disk' = [disk EXCEPT !.log = NoBlocks("empty", 0), !.index = <<>>]
           /\ logger' = "open" /\ UNCHANGED <<todo, doing>>
  <2>1. disk \in DiskType /\ kept \in SUBSET Nat /\ Blocks(disk.log) = {}
    <3>1. disk \in DiskType /\ kept \in SUBSET Nat /\ disk.log.blocks = <<>>
      BY <1>2, <1>3 DEF Resting, GoodLog
    <3>2. QED
      BY <3>1 DEF Blocks
  <2>2. PICK l : l = NoBlocks("empty", 0)
    OBVIOUS
  <2>3. <<>> \in Seq(Nat) /\ Len(<<>>) = 0
    OBVIOUS
  <2>4. l \in LogType /\ l.header = "empty" /\ l.blocks = <<>> /\ l.torn = FALSE
    BY <2>2, <2>3 DEF NoBlocks, LogType, Headers
  <2>5. GoodLog(l)
    <3>1. \A i \in 1..Len(l.blocks) : FALSE
      BY <2>3, <2>4
    <3>2. QED
      BY <2>4, <3>1 DEF GoodLog
  <2>6. PICK e : e = disk'
    OBVIOUS
  <2>7. e \in DiskType /\ e.log = l /\ e.index = <<>> /\ e.old = disk.old /\ e.backup = disk.backup
    BY <1>3, <2>1, <2>2, <2>3, <2>4, <2>6, Zenon DEF DiskType
  <2>8. Resting(e, kept, interrupted)
    <3>1. kept \subseteq disk.old \cup disk.backup
      BY <1>2, <2>1 DEF Resting
    <3>2. interrupted \cap {"repair", "trim"} = {} => kept = {}
      BY <1>2, <1>3, <2>1 DEF Resting
    <3>3. QED
      BY <2>1, <2>4, <2>5, <2>7, <3>1, <3>2 DEF Resting
  <2>9. Openable(e)
    BY <2>3, <2>4, <2>7 DEF Openable
  <2>10. Resting(disk', kept', interrupted) /\ Openable(disk') /\ logger' \in {"closed", "open", "refused"}
    BY <1>1, <1>3, <2>6, <2>8, <2>9
  <2>11. QED
    BY <1>1, <1>3, <2>10, RestsOn
<1>4. CASE logger' = "refused" /\ UNCHANGED <<disk, todo, doing>>
  <2>1. Resting(disk', kept', interrupted) /\ logger' # "open" /\ logger' \in {"closed", "open", "refused"}
    BY <1>1, <1>2, <1>4
  <2>2. QED
    BY <1>1, <1>4, <2>1, RestsOn
<1>5. CASE /\ disk.log.header = "set" /\ ~disk.log.torn /\ logger' = "open" /\ disk' = disk
           /\ IF IndexHeadMatches(disk)
              THEN UNCHANGED <<todo, doing>>
              ELSE Starts("index", construct_index(disk), Always(kept, construct_index(disk)))
  <2>1. CASE IndexHeadMatches(disk)
    <3>1. Openable(disk)
      BY <1>2, <1>5, <2>1, HeadMatches
    <3>2. Resting(disk', kept', interrupted) /\ Openable(disk') /\ logger' \in {"closed", "open", "refused"}
      BY <1>1, <1>2, <1>5, <3>1
    <3>3. QED
      BY <1>1, <1>5, <2>1, <3>2, RestsOn
  <2>2. CASE ~IndexHeadMatches(disk)
    <3>1. Passable(construct_index(disk), Always(kept, construct_index(disk)), "index", interrupted, logger')
      BY <1>2, <1>5, IndexRests, Zenon
    <3>2. Starts("index", construct_index(disk), Always(kept, construct_index(disk)))
      BY <1>5, <2>2
    <3>3. "index" \in Operations /\ logger' \in {"closed", "open", "refused"} /\ UNCHANGED <<disk, kept, interrupted>>
      BY <1>1, <1>5 DEF Operations
    <3>4. QED
      BY <3>1, <3>2, <3>3, Begins, Zenon
  <2>3. QED
    BY <2>1, <2>2
<1>6. QED
  BY <1>3, <1>4, <1>5, Zenon DEF open


\* append keeps the invariant.
LEMMA AppendKept ==
    ASSUME LogInv, NEW n \in 1..MaxBlock, append(n)
    PROVE  LogInv'
<1>1. /\ logger = "open" /\ disk.log.header = "set" /\ disk.log.first + Len(disk.index) = n
      /\ Starts("append", AppendedTo(disk, n), Always(kept \cup {n}, AppendedTo(disk, n)))
      /\ UNCHANGED <<disk, kept, interrupted>> /\ logger' = logger
  BY DEF append
<1>2. Idle /\ n \in Nat
  BY <1>1, BlockLogAssumption DEF Starts
<1>3. Resting(disk, kept, interrupted) /\ Openable(disk)
  BY <1>1, <1>2, Zenon DEF LogInv
<1>4. Passable(AppendedTo(disk, n), Always(kept \cup {n}, AppendedTo(disk, n)), "append", interrupted, logger')
  BY <1>1, <1>2, <1>3, AppendRests, Zenon
<1>5. "append" \in Operations /\ logger' \in {"closed", "open", "refused"}
  BY <1>1 DEF Operations
<1>6. QED
  BY <1>1, <1>4, <1>5, Begins, Zenon

\* reset keeps the invariant, whichever block it begins with.
LEMMA ResetKept ==
    ASSUME LogInv, NEW first \in Nat, first >= 1, NEW firstBlock \in BOOLEAN, Reset(first, firstBlock)
    PROVE  LogInv'
<1>1. PICK removed, bare, begun, states, done :
        /\ removed = [disk EXCEPT !.log = NoBlocks("absent", 0)]
        /\ bare = [removed EXCEPT !.index = <<>>]
        /\ begun = [bare EXCEPT !.log = NoBlocks("invalid", first)]
        /\ states = <<removed, bare, begun>> \o (IF firstBlock THEN AppendedTo(begun, first) ELSE <<>>)
        /\ done = [states[Len(states)] EXCEPT !.log.header = "set"]
  BY Zenon
<1>2. ResetPath(disk, first, firstBlock, states) /\ ResetLast(states, done)
  BY <1>1, Zenon DEF ResetPath, ResetLast
<1>3. /\ logger = "open"
      /\ Starts("reset", Append(states, done),
                Append(Always({}, states), IF firstBlock THEN {first} ELSE {}))
      /\ UNCHANGED <<disk, kept, interrupted>> /\ logger' = logger
  BY <1>1, Zenon DEF Reset
<1>4. disk \in DiskType
  BY Zenon DEF LogInv, Resting
<1>5. Passable(Append(states, done), Append(Always({}, states), IF firstBlock THEN {first} ELSE {}),
               "reset", interrupted, logger')
  BY <1>2, <1>4, ResetRests, Zenon
<1>6. "reset" \in Operations /\ logger' \in {"closed", "open", "refused"}
  BY <1>3 DEF Operations
<1>7. QED
  BY <1>3, <1>5, <1>6, Begins, Zenon

\* close keeps the invariant.
LEMMA CloseKept ==
    ASSUME LogInv, close
    PROVE  LogInv'
<1>1. Idle /\ logger' = "closed" /\ UNCHANGED <<todo, doing, interrupted>> /\ disk' = disk /\ kept' = kept
  BY DEF close
<1>2. Resting(disk, kept, interrupted)
  BY <1>1, Zenon DEF LogInv
<1>3. Resting(disk', kept', interrupted) /\ logger' # "open" /\ logger' \in {"closed", "open", "refused"}
  BY <1>1, <1>2
<1>4. QED
  BY <1>1, <1>3, RestsOn

\* repair_log keeps the invariant.
LEMMA RepairKept ==
    ASSUME LogInv, NEW stop \in 0..MaxBlock, repair_log(stop)
    PROVE  LogInv'
<1>0. PICK moved, versioned, states :
        /\ moved = [disk EXCEPT !.log = NoBlocks("empty", 0), !.index = <<>>,
                                !.backup = @ \cup Blocks(disk.log)]
        /\ versioned = [moved EXCEPT !.log = NoBlocks("part", 0)]
        /\ states = RepairStates(moved, versioned, stop)
  BY Zenon
<1>1. RepairFiles(moved, versioned)
  BY <1>0, Zenon DEF RepairFiles
<1>2. states = RepairStates(moved, versioned, stop)
  BY <1>0
<1>3. /\ disk.log.header # "absent" /\ logger' = "closed" /\ UNCHANGED <<disk, kept, interrupted>>
      /\ Starts("repair", states, Always({n \in kept : stop = 0 \/ n <= stop}, states))
  BY <1>0, Zenon DEF repair_log
<1>4. Idle /\ stop \in Nat
  BY <1>3, BlockLogAssumption DEF Starts
<1>5. Resting(disk, kept, interrupted)
  BY <1>4, Zenon DEF LogInv
<1>6. Passable(states, Always({n \in kept : stop = 0 \/ n <= stop}, states), "repair", interrupted, "closed")
  BY <1>1, <1>2, <1>3, <1>4, <1>5, RepairRests, Zenon
<1>7. "repair" \in Operations /\ logger' \in {"closed", "open", "refused"}
  BY <1>3 DEF Operations
<1>8. QED
  BY <1>3, <1>6, <1>7, Begins, Zenon

\* trim_blocklog_front keeps the invariant.
LEMMA TrimFrontKept ==
    ASSUME LogInv, NEW n \in 1..MaxBlock, trim_blocklog_front(n)
    PROVE  LogInv'
<1>1. PICK moved, logged, bare, full : FrontFiles(moved, logged, bare, full, n)
  BY Zenon DEF FrontFiles
<1>2. PICK states : states = <<moved, logged, bare, full>>
  BY Zenon
<1>3. /\ logger # "open" /\ TrimData /\ disk.log.first < n /\ n <= LastIndexed /\ HasBlockAt(n)
      /\ Len(disk.index) = Len(disk.log.blocks)
      /\ Starts("trim", states, Always({b \in kept : b >= n}, states))
      /\ UNCHANGED <<disk, kept, interrupted>> /\ logger' = logger
  BY <1>1, <1>2, Zenon DEF trim_blocklog_front, FrontFiles
<1>4. Idle /\ n \in Nat
  BY <1>3, BlockLogAssumption DEF Starts
<1>5. Resting(disk, kept, interrupted)
  BY <1>4, Zenon DEF LogInv
<1>6. Passable(states, Always({b \in kept : b >= n}, states), "trim", interrupted, logger')
  BY <1>1, <1>2, <1>3, <1>4, <1>5, TrimFrontRests, Zenon
<1>7. "trim" \in Operations /\ logger' \in {"closed", "open", "refused"}
  BY <1>3 DEF Operations, LogInv
<1>8. QED
  BY <1>3, <1>6, <1>7, Begins, Zenon

\* trim_blocklog_end keeps the invariant.
LEMMA TrimEndKept ==
    ASSUME LogInv, NEW n \in 1..MaxBlock, trim_blocklog_end(n)
    PROVE  LogInv'
<1>1. PICK short, done : EndFiles(short, done, n)
  BY Zenon DEF EndFiles
<1>2. PICK states : states = <<short, done>>
  BY Zenon
<1>3. /\ logger # "open" /\ TrimData /\ disk.log.first <= n /\ n < LastIndexed /\ HasBlockAt(n + 1)
      /\ Starts("cut", states, Always({b \in kept : b <= n}, states))
      /\ UNCHANGED <<disk, kept, interrupted>> /\ logger' = logger
  BY <1>1, <1>2, Zenon DEF trim_blocklog_end, EndFiles
<1>4. Idle /\ n \in Nat
  BY <1>3, BlockLogAssumption DEF Starts
<1>5. Resting(disk, kept, interrupted)
  BY <1>4, Zenon DEF LogInv
<1>6. Passable(states, Always({b \in kept : b <= n}, states), "cut", interrupted, logger')
  BY <1>1, <1>2, <1>3, <1>4, <1>5, TrimEndRests, Zenon
<1>7. "cut" \in Operations /\ logger' \in {"closed", "open", "refused"}
  BY <1>3 DEF Operations, LogInv
<1>8. QED
  BY <1>3, <1>6, <1>7, Begins, Zenon

\* make_index keeps the invariant.
LEMMA MakeIndexKept ==
    ASSUME LogInv, make_index
    PROVE  LogInv'
<1>1. /\ disk.log.header = "set" /\ ~disk.log.torn
      /\ Starts("index", construct_index(disk), Always(kept, construct_index(disk)))
      /\ UNCHANGED <<disk, kept, interrupted>> /\ logger' = logger
  BY DEF make_index
<1>2. Idle
  BY <1>1 DEF Starts
<1>3. Resting(disk, kept, interrupted)
  BY <1>2, Zenon DEF LogInv
<1>4. Passable(construct_index(disk), Always(kept, construct_index(disk)), "index", interrupted, logger')
  BY <1>1, <1>3, IndexRests, Zenon
<1>5. "index" \in Operations /\ logger' \in {"closed", "open", "refused"}
  BY <1>1 DEF Operations, LogInv
<1>6. QED
  BY <1>1, <1>4, <1>5, Begins, Zenon


\* write_file keeps the invariant: the next state of the files was one to rest in.
LEMMA WriteKept ==
    ASSUME LogInv, write_file
    PROVE  LogInv'
<1>1. /\ todo # <<>> /\ disk' = Head(todo).disk /\ kept' = Head(todo).kept /\ todo' = Tail(todo)
      /\ doing' = IF Len(todo) = 1 THEN "nothing" ELSE doing
      /\ logger' = logger
  BY DEF write_file
<1>2. PICK S, t, len : S = [disk : DiskType, kept : SUBSET Nat] /\ t = todo /\ len = Len(todo)
  BY Zenon
<1>3. /\ t \in Seq(S) /\ doing \in Operations /\ interrupted \in SUBSET Operations
      /\ logger \in {"closed", "open", "refused"}
      /\ \A i \in 1..len : Resting(t[i].disk, t[i].kept, WhenCut(doing, interrupted))
      /\ Resting(t[len].disk, t[len].kept, WhenDone(doing, interrupted))
      /\ logger = "open" => Openable(t[len].disk)
  BY <1>1, <1>2, Zenon DEF LogInv, Pending
<1>4. len \in Nat /\ len >= 1 /\ Head(t) = t[1]
  BY <1>1, <1>2, <1>3
<1>5. /\ Tail(t) \in Seq(S) /\ Len(Tail(t)) = len - 1
      /\ \A i \in 1..(len - 1) : Tail(t)[i] = t[i + 1]
  BY <1>1, <1>2, <1>3, <1>4
<1>6. disk' = t[1].disk /\ kept' = t[1].kept /\ todo' = Tail(t)
  BY <1>1, <1>2, <1>4
<1>7. interrupted' = IF doing = "reset" THEN {}
                     ELSE IF doing = "index" /\ len = 1 THEN interrupted \ {"index"} ELSE interrupted
  BY <1>2 DEF write_file
<1>8. interrupted' \in SUBSET Operations
  BY <1>3, <1>7
<1>9. CASE len = 1
  <2>1. interrupted' = WhenDone(doing, interrupted) /\ doing' = "nothing"
    BY <1>1, <1>2, <1>7, <1>9 DEF WhenDone
  <2>2. todo' = <<>> /\ Idle'
    <3>1. Len(Tail(t)) = 0
      BY <1>5, <1>9
    <3>2. Tail(t) = <<>>
      <4>1. PICK rest : rest = Tail(t)
        BY Zenon
      <4>2. rest \in Seq(S) /\ Len(rest) = 0
        BY <1>5, <3>1, <4>1
      <4>3. rest = <<>>
        BY <4>2
      <4>4. QED
        BY <4>1, <4>3
    <3>3. QED
      BY <1>6, <3>2 DEF Idle
  <2>3. Resting(disk', kept', interrupted') /\ (logger' = "open" => Openable(disk'))
    BY <1>1, <1>3, <1>6, <1>9, <2>1
  <2>4. Pending(todo', doing', interrupted', logger')
    <3>1. <<>> \in Seq([disk : DiskType, kept : SUBSET Nat]) /\ Len(<<>>) = 0
      OBVIOUS
    <3>2. \A i \in 1..Len(<<>>) : FALSE
      BY <3>1
    <3>3. QED
      BY <2>2, <3>1, <3>2, Zenon DEF Pending
  <2>5. doing' \in Operations
    BY <2>1 DEF Operations
  <2>6. QED
    BY <1>1, <1>3, <1>8, <2>2, <2>3, <2>4, <2>5 DEF LogInv
<1>10. CASE len # 1
  <2>1. doing' = doing /\ interrupted' = IF doing = "reset" THEN {} ELSE interrupted
    BY <1>1, <1>2, <1>7, <1>10
  <2>2. PICK cut : cut = interrupted'
    OBVIOUS
  <2>3. /\ WhenCut(doing, cut) = WhenCut(doing, interrupted) /\ cut \cup {doing} = WhenCut(doing, interrupted)
        /\ WhenDone(doing, cut) = WhenDone(doing, interrupted)
    BY <2>1, <2>2 DEF WhenCut, WhenDone
  <2>4. 1 \in 1..len /\ \A i \in 1..(len - 1) : i + 1 \in 1..len
    BY <1>4
  <2>5. Resting(disk', kept', cut \cup {doing})
    BY <1>3, <1>6, <2>3, <2>4, Zenon
  <2>6. PICK rest : rest = Tail(t)
    BY Zenon
  <2>7. /\ rest \in Seq(S) /\ Len(rest) = len - 1 /\ \A i \in 1..(len - 1) : rest[i] = t[i + 1]
        /\ rest # <<>> /\ rest[Len(rest)] = t[len]
    BY <1>4, <1>5, <1>10, <2>6
  <2>8. \A i \in 1..Len(rest) : Resting(rest[i].disk, rest[i].kept, WhenCut(doing, cut))
    BY <1>3, <2>3, <2>4, <2>7, Zenon
  <2>9. Resting(rest[Len(rest)].disk, rest[Len(rest)].kept, WhenDone(doing, cut))
        /\ (logger = "open" => Openable(rest[Len(rest)].disk))
    BY <1>3, <2>3, <2>7
  <2>10. Pending(rest, doing, cut, logger)
    BY <1>2, <2>7, <2>8, <2>9, Zenon DEF Pending
  <2>11. todo' = rest /\ ~Idle'
    BY <1>6, <2>6, <2>7 DEF Idle
  <2>12. QED
    BY <1>1, <1>3, <1>8, <2>1, <2>2, <2>5, <2>10, <2>11, Zenon DEF LogInv
<1>11. QED
  BY <1>9, <1>10

\* The end of the process at any point keeps the invariant.
LEMMA CrashKept ==
    ASSUME LogInv, log_crash
    PROVE  LogInv'
<1>1. /\ disk' \in IF Idle THEN {disk} ELSE Torn(disk, Head(todo).disk)
      /\ interrupted' = IF Idle THEN interrupted ELSE interrupted \cup {doing}
      /\ logger' = "closed" /\ todo' = <<>> /\ doing' = "nothing" /\ kept' = kept
  BY DEF log_crash
<1>2. Resting(disk, kept, interrupted') /\ doing \in Operations /\ interrupted \in SUBSET Operations
  BY <1>1, Zenon DEF LogInv
<1>3. Resting(disk', kept', interrupted')
  <2>1. CASE disk' = disk
    BY <1>1, <1>2, <2>1
  <2>2. CASE disk.log.header = "set" /\ disk' = [disk EXCEPT !.log.torn = TRUE]
    BY <1>1, <1>2, <2>2, TornRests, Zenon
  <2>3. disk' = disk \/ (disk.log.header = "set" /\ disk' = [disk EXCEPT !.log.torn = TRUE])
    BY <1>1 DEF Torn
  <2>4. QED
    BY <2>1, <2>2, <2>3
<1>4. Pending(todo', doing', interrupted', logger')
  <2>1. <<>> \in Seq([disk : DiskType, kept : SUBSET Nat]) /\ Len(<<>>) = 0
    OBVIOUS
  <2>2. \A i \in 1..Len(<<>>) : FALSE
    BY <2>1
  <2>3. QED
    BY <1>1, <2>1, <2>2, Zenon DEF Pending
<1>5. interrupted' \in SUBSET Operations /\ doing' \in Operations /\ Idle'
  BY <1>1, <1>2 DEF Operations, Idle
<1>6. QED
  BY <1>1, <1>3, <1>4, <1>5 DEF LogInv

\* The invariant holds where the block log begins: no file.
LEMMA LogBegins ==
    ASSUME LogInit
    PROVE  LogInv
<1>1. PICK l : l = NoBlocks("absent", 0)
  OBVIOUS
<1>2. <<>> \in Seq(Nat) /\ Len(<<>>) = 0 /\ \A i \in 1..Len(<<>>) : FALSE
  OBVIOUS
<1>3. l \in LogType /\ l.header = "absent" /\ l.blocks = <<>> /\ l.torn = FALSE
  BY <1>1, <1>2 DEF NoBlocks, LogType, Headers
<1>4. GoodLog(l)
  BY <1>2, <1>3, Zenon DEF GoodLog
<1>5. disk \in DiskType /\ disk.log = l /\ kept = {} /\ interrupted = {} /\ todo = <<>>
      /\ doing = "nothing" /\ logger = "closed"
  BY <1>1, <1>2, <1>3 DEF LogInit, DiskType
<1>6. Resting(disk, kept, interrupted)
  BY <1>3, <1>4, <1>5 DEF Resting
<1>7. Pending(todo, doing, interrupted, logger)
  <2>1. <<>> \in Seq([disk : DiskType, kept : SUBSET Nat])
    OBVIOUS
  <2>2. QED
    BY <1>2, <1>5, <2>1, Zenon DEF Pending
<1>8. QED
  BY <1>5, <1>6, <1>7 DEF LogInv, Idle, Operations

\* The invariant is kept by every step.
LEMMA LogKept ==
    ASSUME LogInv, [LogNext]_log_vars
    PROVE  LogInv'
<1>1. CASE UNCHANGED log_vars
  BY <1>1, Zenon DEF log_vars, LogInv, Idle
<1>2. CASE reset_from_genesis
  <2>1. 1 \in Nat /\ 1 >= 1 /\ TRUE \in BOOLEAN
    OBVIOUS
  <2>2. QED
    BY <1>2, <2>1, ResetKept, Zenon DEF reset_from_genesis
<1>3. ASSUME NEW n \in 1..MaxBlock, reset_from_snapshot(n) PROVE LogInv'
  <2>1. n \in Nat /\ n >= 1 /\ FALSE \in BOOLEAN
    BY BlockLogAssumption
  <2>2. QED
    BY <1>3, <2>1, ResetKept, Zenon DEF reset_from_snapshot
<1>4. QED
  BY <1>1, <1>2, <1>3, OpenKept, AppendKept, CloseKept, RepairKept, TrimFrontKept, TrimEndKept,
     MakeIndexKept, WriteKept, CrashKept, Zenon DEF LogNext


-----------------------------------------------------------------------------
(* What the invariant says of the blocks                                   *)

\* With as many positions as blocks, all of them written, block n is found where it is.
LEMMA FindsByNumber ==
    ASSUME NEW k, NEW cut, Resting(disk, k, cut), "index" \notin cut, Openable(disk), NEW n \in Nat \ {0}
    PROVE  read_block_by_num(n) = IF disk.log.first <= n /\ n <= read_head(disk.log) THEN n ELSE 0
<1>1. /\ disk \in DiskType /\ disk.log \in LogType /\ GoodLog(disk.log) /\ disk.log.header \in {"empty", "set"}
  BY DEF Resting, DiskType, Openable
<1>2. PICK f \in Nat, blocks \in Seq(Nat), len \in Nat :
        f = disk.log.first /\ blocks = disk.log.blocks /\ len = Len(blocks) /\ len = Len(disk.index)
  BY <1>1 DEF LogType, Openable
<1>3. CASE disk.log.blocks = <<>>
  <2>1. read_head(disk.log) = 0
    BY <1>3 DEF read_head
  <2>2. read_block_by_num(n) = 0
    BY <2>1 DEF read_block_by_num
  <2>3. QED
    BY <2>1, <2>2
<1>4. CASE disk.log.blocks # <<>>
  <2>1. disk.log.header = "set" /\ f >= 1 /\ \A i \in 1..len : blocks[i] = f + i - 1
    BY <1>1, <1>2, <1>4 DEF GoodLog
  <2>2. len >= 1 /\ read_head(disk.log) = f + len - 1
    <3>1. len >= 1 /\ len \in 1..len
      <4>1. blocks # <<>>
        BY <1>2, <1>4
      <4>2. Len(blocks) # 0
        BY <4>1
      <4>3. QED
        BY <1>2, <4>2
    <3>2. read_head(disk.log) = blocks[len]
      BY <1>2, <1>4, Zenon DEF read_head
    <3>3. QED
      BY <2>1, <3>1, <3>2
  <2>3. PICK h \in {1, 2} : Shape(disk, h, 0)
    BY <2>1 DEF Resting
  <2>4. h = HeaderSize(f) /\ \A i \in 1..len : disk.index[i] = h + i - 1
    BY <1>2, <2>3, HeaderSizes DEF Shape
  <2>5. CASE f <= n /\ n <= f + len - 1
    <3>1. PICK i \in 1..len : i = n - f + 1
      BY <2>5
    <3>2. disk.index[i] = Pos(disk.log, i)
      BY <1>2, <2>4, <3>1, Zenon DEF Pos
    <3>3. read_block(disk.log, disk.index[i]) = blocks[i]
      BY <1>1, <1>2, <3>1, <3>2, ReadsPosition, Zenon
    <3>4. blocks[i] = n
      BY <2>1, <3>1
    <3>5. n - f < len /\ read_head(disk.log) # 0
      BY <2>1, <2>2, <2>5
    <3>6. read_block_by_num(n) = read_block(disk.log, disk.index[i])
      BY <1>2, <2>1, <2>2, <2>5, <3>1, <3>5 DEF read_block_by_num
    <3>7. QED
      BY <1>2, <2>2, <2>5, <3>3, <3>4, <3>6
  <2>6. CASE ~(f <= n /\ n <= f + len - 1)
    <3>1. ~(n <= read_head(disk.log) /\ n >= disk.log.first)
      BY <1>2, <2>2, <2>6
    <3>2. read_block_by_num(n) = 0
      BY <3>1 DEF read_block_by_num
    <3>3. QED
      BY <1>2, <2>2, <2>6, <3>2
  <2>7. QED
    BY <2>5, <2>6
<1>5. QED
  BY <1>3, <1>4

\* What the invariant says of reading and of losing blocks.
LEMMA InvIsSound ==
    ASSUME LogInv
    PROVE  LogSound
<1>1. ReadsBack
  <2>1. SUFFICES ASSUME logger = "open", Idle, "index" \notin interrupted, NEW n \in 1..MaxBlock
                 PROVE  read_block_by_num(n) = IF disk.log.first <= n /\ n <= read_head(disk.log) THEN n ELSE 0
    BY Zenon DEF ReadsBack
  <2>2. Resting(disk, kept, interrupted) /\ Openable(disk)
    BY <2>1, Zenon DEF LogInv
  <2>3. n \in Nat \ {0}
    BY BlockLogAssumption
  <2>4. QED
    BY <2>1, <2>2, <2>3, FindsByNumber, Zenon
<1>2. kept \subseteq Blocks(disk.log) \cup disk.old \cup disk.backup
  BY Zenon DEF LogInv, Resting
<1>3. ASSUME logger = "open", Idle, interrupted \cap {"repair", "trim"} = {}
      PROVE  kept \subseteq Blocks(disk.log)
  <2>1. Resting(disk, kept, interrupted) /\ Openable(disk)
    BY <1>3, Zenon DEF LogInv
  <2>2. disk.log.header # "part"
    BY <2>1 DEF Openable
  <2>3. QED
    BY <1>3, <2>1, <2>2, Zenon DEF Resting
<1>4. QED
  BY <1>1, <1>2, <1>3, Zenon DEF LogSound, KeepsBlocks

\* Whatever the length of the log and of the index writer's buffer, and wherever a crash cut an
\* operation short: block_log::read_block_by_num finds exactly the blocks from the first to the head
\* once the log is open, and no block that was appended and not trimmed away is lost.
THEOREM LogStaysSound == LogSpec => []LogSound
<1>1. LogInit => LogInv
  BY LogBegins
<1>2. LogInv /\ [LogNext]_log_vars => LogInv'
  BY LogKept
<1>3. LogInv => LogSound
  BY InvIsSound
<1>4. QED
  BY <1>1, <1>2, <1>3, PTL DEF LogSpec
==============================================================================
