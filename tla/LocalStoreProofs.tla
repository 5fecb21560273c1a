--------------------------- MODULE LocalStoreProofs ---------------------------
(***************************************************************************)
(* Proofs about LocalStore, for every set of keys and contents and every   *)
(* number of callers: the types and the three invariants of the run.       *)
(*                                                                         *)
(* None of them is inductive.  StoreInv adds what makes them so: who is in *)
(* whose way (Claimed, Alone, Quiet), how far a call that nobody disturbed *)
(* has come (Progress), and that the files of an intact key are its        *)
(* object's, or that nothing keeps a file from being created (Kept).       *)
(*                                                                         *)
(* A step touches the files of one key and the directories above them      *)
(* (LocalTo), so that a key which shares none stays Steady; the calls of   *)
(* the other slots yield (Yields), and Preserved puts the pieces together, *)
(* once for all actions.                                                   *)
(***************************************************************************)
EXTENDS LocalStore, FiniteSetTheorems, SequenceTheorems, TLAPS

-----------------------------------------------------------------------------
(* The invariant *)

Writes(s) == op[s].kind \in {"put", "delete"}

\* Where a call is determines what it has open.
Opens(c, p) == \E i \in Inodes : c.open = {i} /\ i[1] = p

\* A file, or a directory where nobody expects a version.
ReadsFrom(c) == Opens(c, path(c.key)) \/ (c.open = {} /\ c.want = Unknown)

CallOK(c) ==
  /\ c.kind # "none" => c.key \in ValidKeys
  /\ c.kind = "put" => c.blob \in Blobs /\ c.off \in 0 .. Len(c.blob)
  /\ \/ c.kind = "none"   /\ c.pc = "idle"    /\ c.open = {}
     \/ c.kind = "stat"   /\ c.pc = "readsum" /\ c.open = {}
     \/ c.kind = "delete" /\ c.pc = "unsum"   /\ c.open = {}
     \/ c.kind = "get"    /\ c.pc = "read"    /\ ReadsFrom(c)
     \/ c.kind = "put"    /\ c.pc = "copy"    /\ Opens(c, path(c.key))
     \/ c.kind = "put"    /\ c.pc = "sum"     /\ Opens(c, sumPath(c.key))

CallsOK == \A s \in Slots : CallOK(op[s])

\* An inode is linked nowhere but where it was created.
Home == \A p \in Paths : IsFile(p) => link[p][1] = p

Base == TypeOK /\ CallsOK /\ Home

\* Whoever puts or deletes has spoilt all keys near its own.
Claimed == \A s \in Slots : Writes(s) => Near(op[s].key) \subseteq spoilt

\* A calm writer is the only one near its key.
Alone == \A s \in Slots : Writes(s) /\ op[s].calm = TRUE => Calm(s, op[s].key)

\* Nobody writes what a call reads that still expects a version.
Quiet ==
  \A s \in Slots : op[s].want # Unknown =>
    /\ op[s].kind = "stat" => Calm(s, op[s].key)
    /\ op[s].kind = "get" =>
         \A t \in Slots : Writes(t) => op[t].open \cap op[s].open = {}

\* What a call without disturbance has done so far.
Copied(c) ==
  c.kind = "put" /\ c.calm = TRUE =>
    LET p == path(c.key)
        q == sumPath(c.key)
    IN  /\ IsFile(p)
        /\ c.pc = "copy" => link[p] \in c.open /\ data[link[p]] = SubSeq(c.blob, 1, c.off)
        /\ c.pc = "sum" => /\ data[link[p]] = c.blob
                           /\ IsFile(q) /\ link[q] \in c.open /\ data[link[q]] = <<>>

Removed(c) ==
  c.kind = "delete" /\ c.calm = TRUE =>
    link[path(c.key)] = NoFile /\ ~NotADirectory(path(c.key))

ReadSoFar(c) ==
  c.kind = "get" /\ c.want # Unknown =>
    /\ \A i \in c.open : data[i] = c.want
    /\ c.off \in 0 .. Len(c.want) /\ c.blob = SubSeq(c.want, 1, c.off)

SumThere(c) ==
  c.kind = "stat" /\ c.want # Unknown =>
    /\ IsFile(sumPath(c.key))
    /\ data[link[sumPath(c.key)]] = Digest(c.want)

Expects(c) ==
  c.kind \in {"get", "stat", "delete"} /\ c.want # Unknown => c.want \in Blobs

Underway(c) ==
  Copied(c) /\ Removed(c) /\ ReadSoFar(c) /\ SumThere(c) /\ Expects(c)

Progress == \A s \in Slots : Underway(op[s])

\* The files of a key that is not spoilt are those of its object, or there
\* are none and nothing keeps one from being created.
KeptAt(k) ==
  /\ ~NotADirectory(path(k)) /\ link[path(k)] # Dir
  /\ IsFile(path(k)) <=> stored[k] # Absent
  /\ stored[k] # Absent =>
       /\ data[link[path(k)]] = stored[k]
       /\ IsFile(sumPath(k)) /\ data[link[sumPath(k)]] = Digest(stored[k])

Kept == \A k \in ValidKeys \ spoilt : KeptAt(k)

StoreInv ==
  Base /\ Claimed /\ Alone /\ Quiet /\ Progress /\ Kept /\ AnswersAsS3

-----------------------------------------------------------------------------
(* Paths *)

\* What segments are made of, the suffix of the sums included.
Pieces == STRING \cup {".sum"}

LEMMA AppendIsLonger ==
  ASSUME NEW S, NEW s \in Seq(S), NEW x \in S
  PROVE  Append(s, x) \in Seq(S) /\ Append(s, x) # s
<1>1. Len(s) \in Nat /\ Len(Append(s, x)) = Len(s) + 1 /\ Append(s, x) \in Seq(S)
  BY AppendProperties, LenProperties
<1> QED
  BY <1>1

LEMMA FrontOf ==
  ASSUME NEW S, NEW s \in Seq(S), s # <<>>
  PROVE  /\ Front(s) \in Seq(S) /\ Len(Front(s)) = Len(s) - 1
         /\ \A n \in 1 .. Len(s) - 1 : Front(s)[n] = s[n]
<1>1. Len(s) \in Nat /\ Len(s) > 0 /\ \A n \in 1 .. Len(s) : s[n] \in S
  BY EmptySeq, LenProperties, ElementOfSeq
<1> DEFINE m == Len(s) - 1
<1>2. m \in Nat /\ 1 \in Int /\ m \in Int /\ \A n \in 1 .. m : s[n] \in S
  BY <1>1
<1> HIDE DEF m
<1>3. /\ SubSeq(s, 1, m) \in Seq(S)
      /\ Len(SubSeq(s, 1, m)) = IF 1 <= m THEN m - 1 + 1 ELSE 0
      /\ \A n \in 1 .. m - 1 + 1 : SubSeq(s, 1, m)[n] = s[1 + n - 1]
  BY <1>2, SubSeqProperties
<1>4. Len(SubSeq(s, 1, m)) = m /\ \A n \in 1 .. m : SubSeq(s, 1, m)[n] = s[n]
  BY <1>2, <1>3
<1>5. Front(s) = SubSeq(s, 1, m) /\ m = Len(s) - 1
  BY DEF Front, m
<1> QED
  BY <1>3, <1>4, <1>5

\* The sum of an object is a file beside it, under a longer name.
LEMMA SumPathShape ==
  ASSUME NEW k \in ValidKeys
  PROVE  LET p == path(k)
             name == Append(Last(path(k)), ".sum")
             q == sumPath(k)
         IN  /\ p \in Seq(Seq(Pieces)) /\ p # <<>>
             /\ Len(p) \in Nat /\ Len(p) > 0
             /\ Last(p) = p[Len(p)] /\ Last(p) \in Seq(Pieces)
             /\ name \in Seq(Pieces) /\ name # Last(p)
             /\ q \in Seq(Seq(Pieces)) /\ Len(q) = Len(p) /\ q[Len(p)] = name
             /\ \A n \in 1 .. Len(p) - 1 : q[n] = p[n]
<1> DEFINE p == path(k)
           name == Append(Last(p), ".sum")
           q == sumPath(k)
<1>1. p \in Seq(Seq(Pieces)) /\ p # <<>>
  <2>1. p \in Seq(Seq(STRING)) /\ p # <<>>
    BY LocalStoreAssumption
  <2>2. Seq(STRING) \subseteq Seq(Pieces)
    BY SeqMonotonic DEF Pieces
  <2> QED
    BY <2>1, <2>2, SeqMonotonic, Zenon
<1>2. Len(p) \in Nat /\ Len(p) > 0 /\ Last(p) = p[Len(p)] /\ Last(p) \in Seq(Pieces)
  BY <1>1, EmptySeq, LenProperties, ElementOfSeq DEF Last
<1>3. name \in Seq(Pieces) /\ name # Last(p)
  <2>1. ".sum" \in Pieces
    BY DEF Pieces
  <2> QED
    BY <1>2, <2>1, AppendIsLonger, Zenon
<1>3a. q = Front(p) \o <<name>>
  BY DEF sumPath
<1> HIDE DEF p, q, name
<1>4. Front(p) \in Seq(Seq(Pieces)) /\ Len(Front(p)) = Len(p) - 1
      /\ \A n \in 1 .. Len(p) - 1 : Front(p)[n] = p[n]
  BY <1>1, FrontOf
<1>5. <<name>> \in Seq(Seq(Pieces)) /\ Len(<<name>>) = 1 /\ <<name>>[1] = name
  BY <1>3
<1>6. q \in Seq(Seq(Pieces)) /\ Len(q) = Len(p) /\ q[Len(p)] = name
      /\ \A n \in 1 .. Len(p) - 1 : q[n] = p[n]
  <2>1. Len(Front(p)) + Len(<<name>>) = Len(p) /\ Len(Front(p)) \in Nat
    BY <1>2, <1>4, <1>5
  <2>2. /\ q \in Seq(Seq(Pieces)) /\ Len(q) = Len(Front(p)) + Len(<<name>>)
        /\ \A n \in 1 .. Len(Front(p)) + Len(<<name>>) :
             q[n] = IF n <= Len(Front(p)) THEN Front(p)[n]
                    ELSE <<name>>[n - Len(Front(p))]
    BY <1>3a, <1>4, <1>5, ConcatProperties
  <2>3. q[Len(p)] = name
    <3>1. Len(p) \in 1 .. Len(Front(p)) + Len(<<name>>) /\ ~(Len(p) <= Len(Front(p)))
          /\ Len(p) - Len(Front(p)) = 1
      BY <1>2, <1>4, <2>1
    <3>2. q[Len(p)] = <<name>>[Len(p) - Len(Front(p))]
      BY <2>2, <3>1, Zenon
    <3> QED
      BY <1>5, <3>1, <3>2, Zenon
  <2>4. ASSUME NEW n \in 1 .. Len(p) - 1 PROVE q[n] = p[n]
    <3>1. n \in 1 .. Len(Front(p)) + Len(<<name>>) /\ n <= Len(Front(p))
      BY <1>2, <1>4, <2>1
    <3>2. q[n] = Front(p)[n]
      BY <2>2, <3>1, Zenon
    <3> QED
      BY <1>4, <3>2, Zenon
  <2> QED
    BY <2>1, <2>2, <2>3, <2>4
<1> QED
  BY <1>1, <1>2, <1>3, <1>6 DEF p, q, name

\* An object and its sum are two files in one directory.
LEMMA PathFacts ==
  ASSUME NEW k \in ValidKeys
  PROVE  /\ path(k) \in Paths /\ sumPath(k) \in Paths
         /\ path(k) # sumPath(k)
         /\ Above(sumPath(k)) = Above(path(k))
         /\ Above(path(k)) \subseteq Paths
         /\ path(k) \in Seq(Seq(Pieces)) /\ sumPath(k) \in Seq(Seq(Pieces))
<1> DEFINE p == path(k)
           name == Append(Last(p), ".sum")
           q == sumPath(k)
<1>1. p \in Seq(Seq(Pieces)) /\ p # <<>>
  BY SumPathShape
<1>2. Len(p) \in Nat /\ Len(p) > 0 /\ Last(p) = p[Len(p)]
  BY SumPathShape
<1>3. name # Last(p)
  BY SumPathShape
<1>6. q \in Seq(Seq(Pieces)) /\ Len(q) = Len(p) /\ q[Len(p)] = name
      /\ \A n \in 1 .. Len(p) - 1 : q[n] = p[n]
  BY SumPathShape
<1>6a. p \in Files(k) /\ q \in Files(k)
  BY DEF Files
<1> HIDE DEF p, q, name
<1>7. p # q
  BY <1>2, <1>3, <1>6
<1>8. \A n \in 1 .. Len(p) - 1 : SubSeq(q, 1, n) = SubSeq(p, 1, n)
  BY <1>1, <1>2, <1>6
<1>9. Above(q) = Above(p)
  BY <1>6, <1>8 DEF Above
<1> QED
  BY <1>1, <1>6, <1>6a, <1>7, <1>9 DEF Paths, p, q

LEMMA PathsAreSequences == \A p \in Paths : p \in Seq(Seq(Pieces))
<1> SUFFICES ASSUME NEW p \in Paths PROVE p \in Seq(Seq(Pieces))
  OBVIOUS
<1>1. PICK k \in ValidKeys : p \in Files(k) \cup Above(path(k))
  BY DEF Paths
<1>2. CASE p \in Files(k)
  BY <1>2, PathFacts DEF Files
<1>3. CASE p \in Above(path(k))
  <2>1. PICK n \in 1 .. Len(path(k)) - 1 : p = SubSeq(path(k), 1, n)
    BY <1>3 DEF Above
  <2>2. path(k) \in Seq(Seq(Pieces)) /\ Len(path(k)) \in Nat
    BY PathFacts, LenProperties
  <2>3. 1 \in Int /\ n \in Int /\ \A i \in 1 .. n : path(k)[i] \in Seq(Pieces)
    BY <2>2, ElementOfSeq
  <2> QED
    BY <2>1, <2>3, SubSeqProperties
<1> QED
  BY <1>1, <1>2, <1>3

\* A directory is shorter than what is below it, and what is above the
\* directory is above that too.
LEMMA AboveOrder ==
  ASSUME NEW p \in Paths, NEW q \in Above(p)
  PROVE  q # p /\ p \notin Above(q) /\ Above(q) \subseteq Above(p)
<1>1. p \in Seq(Seq(Pieces)) /\ Len(p) \in Nat
  BY PathsAreSequences, LenProperties
<1>2. PICK n \in 1 .. Len(p) - 1 : q = SubSeq(p, 1, n)
  BY DEF Above
<1>3. \A i \in 1 .. Len(p) : p[i] \in Seq(Pieces)
  BY <1>1, ElementOfSeq
<1>4. q \in Seq(Seq(Pieces)) /\ Len(q) = n /\ \A i \in 1 .. n : q[i] = p[i]
  <2>1. \A i \in 1 .. n : p[i] \in Seq(Pieces)
    BY <1>1, <1>3
  <2>2. /\ q \in Seq(Seq(Pieces))
        /\ Len(q) = IF 1 <= n THEN n - 1 + 1 ELSE 0
        /\ \A i \in 1 .. n - 1 + 1 : q[i] = p[1 + i - 1]
    BY <1>1, <1>2, <2>1, SubSeqProperties
  <2> QED
    BY <1>1, <2>2
<1>5. \A m \in 1 .. n - 1 : SubSeq(q, 1, m) = SubSeq(p, 1, m)
  BY <1>1, <1>4
<1>6. Above(q) \subseteq Above(p)
  <2> SUFFICES ASSUME NEW m \in 1 .. n - 1 PROVE SubSeq(q, 1, m) \in Above(p)
    BY <1>4 DEF Above
  <2>1. m \in 1 .. Len(p) - 1
    BY <1>1
  <2> QED
    BY <1>5, <2>1 DEF Above
<1>7. p \notin Above(q)
  <2> SUFFICES ASSUME NEW m \in 1 .. n - 1, p = SubSeq(q, 1, m) PROVE FALSE
    BY <1>4 DEF Above
  <2>1. m \in Int /\ 1 <= m /\ \A i \in 1 .. m : q[i] \in Seq(Pieces)
    BY <1>1, <1>3, <1>4
  <2>2. Len(SubSeq(q, 1, m)) = IF 1 <= m THEN m - 1 + 1 ELSE 0
    BY <2>1, SubSeqProperties
  <2> QED
    BY <1>1, <2>1, <2>2
<1> QED
  BY <1>1, <1>4, <1>6, <1>7

LEMMA NearFacts ==
  ASSUME NEW k \in ValidKeys
  PROVE  k \in Near(k) /\ \A j \in ValidKeys : j \in Near(k) <=> k \in Near(j)
BY DEF Near, Collide, Files

\* Keys that do not collide share no file and no directory one needs a file for.
LEMMA Apart ==
  ASSUME NEW k \in ValidKeys, NEW j \in ValidKeys, j \notin Near(k),
         NEW p \in Files(j), NEW q \in Files(k)
  PROVE  p # q /\ p \notin Above(q) /\ q \notin Above(p)
BY DEF Near, Collide

-----------------------------------------------------------------------------
(* Files *)

LEMMA ChunkFacts == Hole \in Chunks /\ \A b \in Blobs : Digest(b) \in Seq(Chunks)
BY DEF Chunks, Digest

LEMMA WriteAtType ==
  ASSUME NEW c \in Seq(Chunks), NEW off \in Nat, NEW chunk \in Chunks
  PROVE  WriteAt(c, off, chunk) \in Seq(Chunks)
<1> DEFINE n == IF off >= Len(c) THEN off + 1 ELSE Len(c)
           f == [i \in 1 .. n |-> IF i = off + 1 THEN chunk
                                  ELSE IF i <= Len(c) THEN c[i] ELSE Hole]
<1>1. Len(c) \in Nat /\ n \in Nat
  BY LenProperties
<1>2. Hole \in Chunks /\ \A i \in 1 .. Len(c) : c[i] \in Chunks
  BY ChunkFacts, ElementOfSeq
<1>3. f \in [1 .. n -> Chunks]
  BY <1>1, <1>2
<1>4. WriteAt(c, off, chunk) = f
  BY DEF WriteAt
<1> HIDE DEF f, n
<1> QED
  BY <1>1, <1>3, <1>4, IsASeq

\* Writing the next chunk of a blob to the file that holds those before it.
LEMMA WriteNext ==
  ASSUME NEW b \in Seq(Chunks), NEW off \in 0 .. Len(b) - 1
  PROVE  WriteAt(SubSeq(b, 1, off), off, b[off + 1]) = SubSeq(b, 1, off + 1)
<1> DEFINE c == SubSeq(b, 1, off)
           d == SubSeq(b, 1, off + 1)
           w == WriteAt(c, off, b[off + 1])
<1>1. Len(b) \in Nat /\ \A i \in 1 .. Len(b) : b[i] \in Chunks
  BY LenProperties, ElementOfSeq
<1>2. Len(c) = off /\ \A i \in 1 .. off : c[i] = b[i]
  <2>1. off \in Int /\ 1 \in Int /\ \A i \in 1 .. off : b[i] \in Chunks
    BY <1>1
  <2> QED
    BY <2>1, SubSeqProperties
<1>3. d \in Seq(Chunks) /\ Len(d) = off + 1 /\ \A i \in 1 .. off + 1 : d[i] = b[i]
  <2>1. off + 1 \in Int /\ 1 \in Int /\ \A i \in 1 .. off + 1 : b[i] \in Chunks
    BY <1>1
  <2> QED
    BY <2>1, SubSeqProperties
<1> HIDE DEF c, d
<1>4. w = [i \in 1 .. off + 1 |-> IF i = off + 1 THEN b[off + 1] ELSE c[i]]
  BY <1>1, <1>2 DEF WriteAt
<1>5. w = [i \in 1 .. off + 1 |-> b[i]]
  BY <1>2, <1>4
<1>6. d = [i \in 1 .. off + 1 |-> b[i]]
  <2>1. d = [i \in 1 .. Len(d) |-> d[i]]
    BY <1>3
  <2> QED
    BY <1>3, <2>1
<1> QED
  BY <1>5, <1>6 DEF c, d

\* os.WriteFile leaves the sum alone in an empty file.
LEMMA WriteSum ==
  ASSUME NEW b \in Blobs
  PROVE  WriteAt(<<>>, 0, Digest(b)[1]) = Digest(b)
<1>1. Digest(b)[1] = [sha256 |-> b] /\ Digest(b) = <<[sha256 |-> b]>>
  BY DEF Digest
<1> DEFINE x == [sha256 |-> b]
<1> HIDE DEF x
<1>2. WriteAt(<<>>, 0, x) = [i \in 1 .. 1 |-> x]
  BY DEF WriteAt
<1>3. [i \in 1 .. 1 |-> x] = <<x>>
  OBVIOUS
<1> QED
  BY <1>1, <1>2, <1>3 DEF x

LEMMA Reclaimed ==
  ASSUME NEW l, NEW o, NEW d, System(l, o, d)
  PROVE  /\ link' = l /\ op' = o
         /\ \A p \in Paths : l[p] \in Inodes => data'[l[p]] = d[l[p]]
         /\ \A s \in Slots : \A i \in o[s].open \cap Inodes : data'[i] = d[i]
         /\ d \in [Inodes -> Seq(Chunks)] => data' \in [Inodes -> Seq(Chunks)]
<1>1. link' = l /\ op' = o /\ data' = Reclaim(d, l, o)
  BY DEF System
<1>2. data' = [i \in Inodes |-> IF i \in Live(l, o) THEN d[i] ELSE <<>>]
  BY <1>1 DEF Reclaim
<1>3. \A p \in Paths : l[p] \in Live(l, o)
  BY DEF Live
<1>4. \A s \in Slots : \A i \in o[s].open : i \in Live(l, o)
  BY DEF Live
<1>5. <<>> \in Seq(Chunks)
  BY EmptySeq
<1> QED
  BY <1>1, <1>2, <1>3, <1>4, <1>5

LEMMA OpenIsOne ==
  ASSUME CallsOK, NEW s \in Slots, NEW i \in op[s].open, NEW j \in op[s].open
  PROVE  i = j
BY DEF CallsOK, CallOK, ReadsFrom, Opens

\* There is always an inode left to create a file with: the calls cannot hold
\* all those that were ever at its path.
LEMMA InodeLeft ==
  ASSUME Base, NEW p \in Paths, link[p] = NoFile
  PROVE  \E i \in Inodes : i[1] = p /\ i \notin Live(link, op)
<1> DEFINE N == Cardinality(Slots)
<1>1. N \in Nat /\ IsFiniteSet(Slots)
  BY LocalStoreAssumption, FS_CardinalityType
<1>2. IsFiniteSet(0 .. N) /\ Cardinality(0 .. N) = N + 1
  <2>1. 0 \in Int /\ N \in Int
    BY <1>1
  <2> HIDE DEF N
  <2>2. IsFiniteSet(0 .. N) /\ Cardinality(0 .. N) = IF 0 > N THEN 0 ELSE N - 0 + 1
    BY <2>1, FS_Interval
  <2> QED
    BY <1>1, <2>2
<1>3. \A n \in 0 .. N : <<p, n>> \in Inodes /\ <<p, n>>[1] = p
  BY DEF Inodes
<1>4. \A q \in Paths, n \in 0 .. N : link[q] # <<p, n>>
  BY <1>3, LocalStoreAssumption DEF Base, Home, IsFile
<1> SUFFICES ASSUME \A n \in 0 .. N : <<p, n>> \in Live(link, op)
             PROVE  FALSE
  BY <1>3
<1>5. \A n \in 0 .. N : \E s \in Slots : <<p, n>> \in op[s].open
  BY <1>4 DEF Live
<1> DEFINE f == [n \in 0 .. N |-> CHOOSE s \in Slots : <<p, n>> \in op[s].open]
<1>6. f \in [0 .. N -> Slots] /\ \A n \in 0 .. N : <<p, n>> \in op[f[n]].open
  BY <1>5
<1> HIDE DEF f, N
<1>7. N < Cardinality(0 .. N)
  BY <1>1, <1>2
<1>8. \E m, n \in 0 .. N : m # n /\ f[m] = f[n]
  BY <1>1, <1>2, <1>6, <1>7, FS_PigeonHole DEF N
<1>9. PICK m \in 0 .. N, n \in 0 .. N : m # n /\ f[m] = f[n]
  BY <1>8
<1>10. <<p, m>> = <<p, n>>
  BY <1>6, <1>9, OpenIsOne DEF Base
<1> QED
  BY <1>9, <1>10

LEMMA OpenedFacts ==
  ASSUME Base, NEW p \in Paths, link[p] # Dir
  PROVE  /\ Opened(p) \in Inodes /\ Opened(p)[1] = p
         /\ link[p] \in Inodes => Opened(p) = link[p]
         /\ link[p] \notin Inodes => Opened(p) \notin Live(link, op)
<1>1. CASE link[p] = NoFile
  <2>1. Opened(p) = CHOOSE i \in Inodes : i[1] = p /\ i \notin Live(link, op)
    BY <1>1 DEF Opened
  <2> QED
    BY <1>1, <2>1, InodeLeft, LocalStoreAssumption
<1>2. CASE link[p] # NoFile
  <2>1. link[p] \in Inodes
    BY <1>2 DEF Base, TypeOK
  <2> QED
    BY <1>2, <2>1 DEF Opened, Base, Home, IsFile
<1> QED
  BY <1>1, <1>2

-----------------------------------------------------------------------------
(* Directory trees.  A path that exists lies in directories; creating a      *)
(* file with the directories above it and removing what is not in use keep   *)
(* that.                                                                     *)

GoodLinks(l) ==
  /\ l \in [Paths -> Inodes \cup {Dir, NoFile}]
  /\ \A p \in Paths : l[p] \in Inodes => l[p][1] = p
  /\ \A p, q \in Paths : q \in Above(p) /\ l[p] # NoFile => l[q] = Dir

LEMMA LinksGood == Base => GoodLinks(link)
BY DEF Base, TypeOK, Home, IsFile, GoodLinks

LEMMA WithDirsFacts ==
  ASSUME Base, NEW p \in Paths, ~NotADirectory(p)
  PROVE  /\ GoodLinks(WithDirs(p))
         /\ \A q \in Paths : WithDirs(p)[q] =
              IF q \in Above(p) THEN Dir ELSE link[q]
<1>1. WithDirs(p) \in [Paths -> Inodes \cup {Dir, NoFile}]
  BY DEF WithDirs, Base, TypeOK
<1>2. ASSUME NEW q \in Paths
      PROVE  WithDirs(p)[q] = IF q \in Above(p) THEN Dir ELSE link[q]
  BY <1>2 DEF WithDirs, NotADirectory, IsFile, Base, TypeOK
<1>3. ASSUME NEW q \in Paths, WithDirs(p)[q] \in Inodes PROVE WithDirs(p)[q][1] = q
  BY <1>2, <1>3, LocalStoreAssumption DEF Base, Home, IsFile
<1>4. ASSUME NEW a \in Paths, NEW b \in Above(a), b \in Paths, WithDirs(p)[a] # NoFile
      PROVE  WithDirs(p)[b] = Dir
  <2>1. CASE a \in Above(p)
    BY <1>2, <1>4, <2>1, AboveOrder
  <2>2. CASE a \notin Above(p)
    BY <1>2, <1>4, <2>2 DEF Base, TypeOK
  <2> QED
    BY <2>1, <2>2
<1> QED
  BY <1>1, <1>2, <1>3, <1>4 DEF GoodLinks

LEMMA CreateFacts ==
  ASSUME Base, NEW p \in Paths, ~NotADirectory(p), link[p] # Dir
  PROVE  LET l == [WithDirs(p) EXCEPT ![p] = Opened(p)]
         IN  /\ GoodLinks(l)
             /\ l[p] = Opened(p)
             /\ \A q \in Paths \ {p} : l[q] =
                  IF q \in Above(p) THEN Dir ELSE link[q]
<1> DEFINE l == [WithDirs(p) EXCEPT ![p] = Opened(p)]
<1>1. Opened(p) \in Inodes /\ Opened(p)[1] = p
  BY OpenedFacts
<1>2. /\ GoodLinks(WithDirs(p))
      /\ \A q \in Paths : WithDirs(p)[q] = IF q \in Above(p) THEN Dir ELSE link[q]
  BY WithDirsFacts
<1>3. l \in [Paths -> Inodes \cup {Dir, NoFile}] /\ l[p] = Opened(p)
      /\ \A q \in Paths \ {p} : l[q] = WithDirs(p)[q]
  BY <1>1, <1>2 DEF GoodLinks
<1> HIDE DEF l
<1>4. \A q \in Paths : l[q] \in Inodes => l[q][1] = q
  BY <1>1, <1>2, <1>3 DEF GoodLinks
<1>5. ASSUME NEW a \in Paths, NEW b \in Above(a), b \in Paths, l[a] # NoFile
      PROVE  l[b] = Dir
  <2>1. CASE b = p
    <3>1. a # p /\ a \notin Above(p)
      BY <2>1, AboveOrder
    <3>2. link[a] # NoFile
      BY <1>2, <1>3, <1>5, <3>1
    <3> QED
      BY <1>5, <2>1, <3>2 DEF Base, TypeOK
  <2>2. CASE b # p /\ a = p
    BY <1>2, <1>3, <1>5, <2>2
  <2>3. CASE b # p /\ a # p
    BY <1>2, <1>3, <1>5, <2>3 DEF GoodLinks
  <2> QED
    BY <2>1, <2>2, <2>3
<1>6. GoodLinks(l)
  BY <1>3, <1>4, <1>5 DEF GoodLinks
<1> QED
  BY <1>2, <1>3, <1>6 DEF l

LEMMA RemoveFacts ==
  ASSUME Base, NEW p \in Paths, ~DirectoryInUse(p)
  PROVE  LET l == [link EXCEPT ![p] = NoFile]
         IN  /\ GoodLinks(l) /\ l[p] = NoFile
             /\ \A q \in Paths \ {p} : l[q] = link[q]
<1> DEFINE l == [link EXCEPT ![p] = NoFile]
<1>1. GoodLinks(link)
  BY LinksGood
<1>2. l \in [Paths -> Inodes \cup {Dir, NoFile}] /\ l[p] = NoFile
      /\ \A q \in Paths \ {p} : l[q] = link[q]
  BY <1>1 DEF GoodLinks
<1> HIDE DEF l
<1>3. \A q \in Paths : l[q] \in Inodes => l[q][1] = q
  BY <1>1, <1>2, LocalStoreAssumption DEF GoodLinks
<1>4. ASSUME NEW a \in Paths, NEW b \in Above(a), b \in Paths, l[a] # NoFile
      PROVE  l[b] = Dir
  <2>1. link[a] # NoFile /\ a # p
    BY <1>2, <1>4
  <2>2. link[b] = Dir
    BY <1>1, <1>4, <2>1 DEF GoodLinks
  <2>3. b # p
    BY <1>4, <2>1, <2>2 DEF DirectoryInUse
  <2> QED
    BY <1>2, <1>4, <2>2, <2>3
<1>5. GoodLinks(l)
  BY <1>2, <1>3, <1>4 DEF GoodLinks
<1> QED
  BY <1>2, <1>5 DEF l

-----------------------------------------------------------------------------
(* What a step of one call leaves alone. *)

Shapes ==
  /\ GoodLinks(link)
  /\ data \in [Inodes -> Seq(Chunks)]
  /\ op \in [Slots -> Calls]
  /\ stored \in [ValidKeys -> Blobs \cup {Absent}]
  /\ spoilt \subseteq ValidKeys

LEMMA BaseIsShapes == Shapes /\ CallsOK <=> Base
<1>1. ASSUME GoodLinks(link)
      PROVE  \A p, q \in Paths : IsFile(p) /\ link[p] = link[q] => p = q
  BY <1>1 DEF GoodLinks, IsFile
<1>2. ASSUME Shapes, CallsOK PROVE Base
  BY <1>1, <1>2 DEF Shapes, GoodLinks, Base, TypeOK, Home, IsFile
<1>3. ASSUME Base PROVE Shapes /\ CallsOK
  BY <1>3, LinksGood DEF Shapes, Base, TypeOK
<1> QED
  BY <1>2, <1>3

\* The files of key j and what they hold are as they were.
Steady(j) ==
  /\ \A p \in Files(j) :
       /\ link'[p] = link[p]
       /\ link[p] \in Inodes => data'[link[p]] = data[link[p]]
  /\ NotADirectory(path(j))' => NotADirectory(path(j))

\* Only the files of k change, and the directories that hold them.
LocalTo(k) ==
  \A p \in Paths \ Files(k) :
    /\ link'[p] = link[p] \/ (p \in Above(path(k)) /\ link'[p] = Dir)
    /\ link[p] \in Inodes /\ link'[p] = link[p] => data'[link[p]] = data[link[p]]

LEMMA LocalSteady ==
  ASSUME NEW k \in ValidKeys, NEW j \in ValidKeys, j \notin Near(k), LocalTo(k)
  PROVE  Steady(j)
<1>1. \A p \in Files(j) : p \in Paths /\ p \notin Files(k) /\ p \notin Above(path(k))
  BY PathFacts, Apart DEF Files
<1>2. \A q \in Above(path(j)) : q \in Paths /\ q \notin Files(k)
  BY PathFacts, Apart DEF Files
<1>3. NotADirectory(path(j))' => NotADirectory(path(j))
  BY <1>2, LocalStoreAssumption DEF NotADirectory, IsFile, LocalTo
<1> QED
  BY <1>1, <1>3 DEF Steady, LocalTo

\* The call of another slot goes on, and what it relies on is still there.
Yields(t) ==
  /\ op'[t].kind = op[t].kind /\ op'[t].pc = op[t].pc
  /\ op'[t].key = op[t].key /\ op'[t].blob = op[t].blob
  /\ op'[t].open = op[t].open /\ op'[t].off = op[t].off
  /\ op'[t].calm = TRUE => op[t].calm = TRUE
  /\ op'[t].want # Unknown => op'[t].want = op[t].want
  /\ Writes(t) /\ op'[t].calm = TRUE => Steady(op[t].key)
  /\ op[t].kind = "stat" /\ op'[t].want # Unknown => Steady(op[t].key)
  /\ op[t].kind = "get" /\ op'[t].want # Unknown =>
       \A i \in op[t].open : data'[i] = data[i]

LEMMA YieldsOn ==
  ASSUME Base, NEW t \in Slots, Yields(t), Underway(op[t])
  PROVE  CallOK(op[t])' /\ Underway(op[t])'
<1> DEFINE c == op[t]
           d == op'[t]
           k == op[t].key
<1>1. CallOK(c)
  BY DEF Base, CallsOK
<1>2. CallOK(op[t])'
  BY <1>1 DEF CallOK, ReadsFrom, Opens, Yields
<1>3. c.kind # "none" => k \in ValidKeys
  BY <1>1 DEF CallOK
<1>4. Copied(op[t])'
  <2> SUFFICES ASSUME d.kind = "put", d.calm = TRUE
               PROVE  LET p == path(k)
                          q == sumPath(k)
                      IN  /\ link'[p] \in Inodes
                          /\ d.pc = "copy" => link'[p] \in d.open /\ data'[link'[p]] = SubSeq(d.blob, 1, d.off)
                          /\ d.pc = "sum" => /\ data'[link'[p]] = d.blob
                                             /\ link'[q] \in Inodes /\ link'[q] \in d.open /\ data'[link'[q]] = <<>>
    BY DEF Copied, IsFile, Yields
  <2>1. c.kind = "put" /\ c.calm = TRUE /\ Copied(c)
    BY DEF Yields, Underway
  <2>2. Steady(k)
    BY <2>1 DEF Yields, Writes
  <2>3. path(k) \in Files(k) /\ sumPath(k) \in Files(k)
    BY DEF Files
  <2> QED
    BY <2>1, <2>2, <2>3 DEF Copied, Steady, Yields, IsFile
<1>5. Removed(op[t])'
  <2> SUFFICES ASSUME d.kind = "delete", d.calm = TRUE
               PROVE  link'[path(k)] = NoFile /\ ~NotADirectory(path(k))'
    BY DEF Removed, Yields
  <2>1. Removed(c) /\ c.kind = "delete" /\ c.calm = TRUE /\ Steady(k)
    BY DEF Yields, Underway, Writes
  <2> QED
    BY <2>1 DEF Removed, Steady, Files
<1>6. ReadSoFar(op[t])'
  BY DEF ReadSoFar, Yields, Underway
<1>7. SumThere(op[t])'
  <2> SUFFICES ASSUME d.kind = "stat", d.want # Unknown
               PROVE  link'[sumPath(k)] \in Inodes /\ data'[link'[sumPath(k)]] = Digest(d.want)
    BY DEF SumThere, IsFile, Yields
  <2>1. SumThere(c) /\ c.kind = "stat" /\ c.want = d.want /\ Steady(k)
    BY DEF Yields, Underway
  <2> QED
    BY <2>1 DEF SumThere, Steady, Files, IsFile
<1>8. Expects(op[t])'
  BY DEF Expects, Yields, Underway
<1> QED
  BY <1>2, <1>4, <1>5, <1>6, <1>7, <1>8 DEF Underway

\* The acting call and the others are in each other's way no more than their
\* marks say.
Contention(s) ==
  /\ Writes(s)' /\ op'[s].calm = TRUE => Calm(s, op'[s].key)
  /\ Writes(s)' => \A t \in Slots \ {s} :
       /\ Writes(t) /\ op'[t].calm = TRUE => op'[s].key \notin Near(op[t].key)
       /\ op[t].kind = "stat" /\ op'[t].want # Unknown =>
            op'[s].key \notin Near(op[t].key)
       /\ op[t].kind = "get" /\ op'[t].want # Unknown =>
            op'[s].open \cap op[t].open = {}
  /\ op'[s].want # Unknown =>
       /\ op'[s].kind = "stat" => Calm(s, op'[s].key)
       /\ op'[s].kind = "get" =>
            \A t \in Slots \ {s} : Writes(t) => op[t].open \cap op'[s].open = {}

LEMMA AloneAfter ==
  ASSUME Alone, NEW s \in Slots, Contention(s), \A t \in Slots \ {s} : Yields(t)
  PROVE  Alone'
<1> SUFFICES ASSUME NEW t \in Slots, Writes(t)', op'[t].calm = TRUE,
                    NEW u \in Slots \ {t}, Writes(u)',
                    op'[u].key \in Near(op'[t].key)
             PROVE  FALSE
  BY DEF Alone, Calm, Writing, Writes, Near, Files
<1>1. CASE t = s
  BY <1>1 DEF Contention, Calm, Writing, Writes, Yields
<1>2. CASE t # s /\ u = s
  BY <1>2 DEF Contention, Writes, Yields
<1>3. CASE t # s /\ u # s
  BY <1>3 DEF Alone, Calm, Writing, Writes, Yields
<1> QED
  BY <1>1, <1>2, <1>3

LEMMA QuietAfter ==
  ASSUME Quiet, NEW s \in Slots, Contention(s), \A t \in Slots \ {s} : Yields(t)
  PROVE  Quiet'
<1>1. ASSUME NEW t \in Slots, op'[t].want # Unknown, op'[t].kind = "stat",
             NEW u \in Slots \ {t}, Writes(u)', op'[u].key \in Near(op'[t].key)
      PROVE  FALSE
  <2>1. CASE t = s
    BY <1>1, <2>1 DEF Contention, Calm, Writing, Writes, Yields
  <2>2. CASE t # s /\ u = s
    BY <1>1, <2>2 DEF Contention, Writes, Yields
  <2>3. CASE t # s /\ u # s
    BY <1>1, <2>3 DEF Quiet, Calm, Writing, Writes, Yields
  <2> QED
    BY <2>1, <2>2, <2>3
<1>2. ASSUME NEW t \in Slots, op'[t].want # Unknown, op'[t].kind = "get",
             NEW u \in Slots, Writes(u)'
      PROVE  op'[u].open \cap op'[t].open = {}
  <2>1. CASE t = s
    BY <1>2, <2>1 DEF Contention, Writes, Yields
  <2>2. CASE t # s /\ u = s
    BY <1>2, <2>2 DEF Contention, Writes, Yields
  <2>3. CASE t # s /\ u # s
    BY <1>2, <2>3 DEF Quiet, Writes, Yields
  <2> QED
    BY <2>1, <2>2, <2>3
<1> QED
  BY <1>1, <1>2 DEF Quiet, Calm, Writing, Writes, Near, Files

\* What a step leaves of the claims and of the unspoilt keys.
Upholds(s) ==
  /\ \A t \in Slots : Writes(t)' => Near(op'[t].key) \subseteq spoilt'
  /\ \A k \in ValidKeys \ spoilt' : KeptAt(k)'
  /\ AnswersAsS3'

\* A step of slot s keeps the invariant when its own call is in order and the
\* others can go on.
LEMMA Preserved ==
  ASSUME StoreInv, NEW s \in Slots, Shapes', CallOK(op[s])', Underway(op[s])',
         Contention(s), Upholds(s), \A t \in Slots \ {s} : Yields(t)
  PROVE  StoreInv'
<1>1. \A t \in Slots : CallOK(op[t])' /\ Underway(op[t])'
  BY YieldsOn DEF StoreInv, Progress
<1>2. Base'
  <2>1. CallsOK'
    BY <1>1 DEF CallsOK
  <2> QED
    BY <2>1, BaseIsShapes, PTL
<1>3. Alone' /\ Quiet'
  BY AloneAfter, QuietAfter DEF StoreInv
<1> QED
  BY <1>1, <1>2, <1>3 DEF StoreInv, Upholds, Claimed, Progress, Kept

LEMMA CallType ==
  ASSUME NEW kind \in {"none", "put", "get", "stat", "delete"},
         NEW pc \in {"idle", "copy", "sum", "read", "readsum", "unsum"},
         NEW k \in ValidKeys \cup {<<>>}, NEW blob \in Seq(Chunks),
         NEW open \in SUBSET Inodes, NEW calm \in BOOLEAN,
         NEW want \in Blobs \cup {Absent, Unknown}
  PROVE  Call(kind, pc, k, blob, open, calm, want) \in Calls
BY DEF Call, Calls

LEMMA IdleFacts ==
  /\ Idle \in Calls /\ CallOK(Idle) /\ Idle.kind = "none" /\ Idle.key = <<>>
  /\ Idle.want = Unknown
<1>1. Idle \in Calls
  BY EmptySeq DEF Idle, Call, Calls
<1> QED
  BY <1>1 DEF Idle, Call, CallOK

LEMMA EmptyKey == <<>> \notin ValidKeys
BY DEF ValidKeys, validateKey

LEMMA ExpectedType ==
  ASSUME Base, NEW s \in Slots, NEW k \in ValidKeys
  PROVE  Expected(s, k) \in Blobs \cup {Absent, Unknown}
BY DEF Expected, Base, TypeOK

\* The calls are now D: those near k are no longer undisturbed.
Marked(D, s, k, i) ==
  /\ D \in [Slots -> Calls] /\ D[s] = op[s]
  /\ \A t \in Slots :
       /\ D[t].kind = op[t].kind /\ D[t].pc = op[t].pc
       /\ D[t].key = op[t].key /\ D[t].blob = op[t].blob
       /\ D[t].open = op[t].open /\ D[t].off = op[t].off
       /\ op[t].key \notin Near(k) => D[t] = op[t]
       /\ op[t].key \in Near(k) /\ t # s =>
            /\ D[t].calm = FALSE
            /\ D[t].want = IF op[t].kind = "get" /\ i \notin op[t].open
                           THEN op[t].want ELSE Unknown

LEMMA DisturbedFacts ==
  ASSUME Base, NEW s \in Slots, NEW k \in ValidKeys, NEW i
  PROVE  Marked(Disturbed(s, k, i), s, k, i)
<1> DEFINE D == Disturbed(s, k, i)
           E(c) == [c EXCEPT !.calm = FALSE,
                             !.want = IF c.kind = "get" /\ i \notin c.open
                                      THEN @ ELSE Unknown]
<1>1. op \in [Slots -> Calls]
  BY DEF Base, TypeOK
<1>2. ASSUME NEW c \in Calls
      PROVE  /\ E(c) \in Calls
             /\ E(c).kind = c.kind /\ E(c).pc = c.pc /\ E(c).key = c.key
             /\ E(c).blob = c.blob /\ E(c).open = c.open /\ E(c).off = c.off
             /\ E(c).calm = FALSE
             /\ E(c).want = IF c.kind = "get" /\ i \notin c.open
                            THEN c.want ELSE Unknown
  BY DEF Calls
<1>3. D = [t \in Slots |-> IF t = s \/ op[t].key \notin Near(k) THEN op[t] ELSE E(op[t])]
  BY DEF Disturbed
<1> HIDE DEF D, E
<1>4. D \in [Slots -> Calls] /\ D[s] = op[s]
  BY <1>1, <1>2, <1>3
<1>5. \A t \in Slots : D[t] = IF t = s \/ op[t].key \notin Near(k) THEN op[t] ELSE E(op[t])
  BY <1>3
<1>6. ASSUME NEW t \in Slots
      PROVE  /\ D[t].kind = op[t].kind /\ D[t].pc = op[t].pc
             /\ D[t].key = op[t].key /\ D[t].blob = op[t].blob
             /\ D[t].open = op[t].open /\ D[t].off = op[t].off
             /\ op[t].key \notin Near(k) => D[t] = op[t]
             /\ op[t].key \in Near(k) /\ t # s =>
                  /\ D[t].calm = FALSE
                  /\ D[t].want = IF op[t].kind = "get" /\ i \notin op[t].open
                                 THEN op[t].want ELSE Unknown
  <2>1. op[t] \in Calls
    BY <1>1
  <2>2. CASE t = s \/ op[t].key \notin Near(k)
    BY <1>5, <2>2, Zenon
  <2>3. CASE ~(t = s \/ op[t].key \notin Near(k))
    <3>1. D[t] = E(op[t])
      BY <1>5, <2>3, Zenon
    <3>2. /\ E(op[t]).kind = op[t].kind /\ E(op[t]).pc = op[t].pc
          /\ E(op[t]).key = op[t].key /\ E(op[t]).blob = op[t].blob
          /\ E(op[t]).open = op[t].open /\ E(op[t]).off = op[t].off
          /\ E(op[t]).calm = FALSE
          /\ E(op[t]).want = IF op[t].kind = "get" /\ i \notin op[t].open
                             THEN op[t].want ELSE Unknown
      BY <1>2, <2>1, Zenon
    <3> QED
      BY <2>3, <3>1, <3>2
  <2> QED
    BY <2>2, <2>3
<1>7. Marked(D, s, k, i)
  BY <1>4, <1>6 DEF Marked
<1> QED
  BY <1>7 DEF D

\* A step that changes no file leaves everybody else's call as it is.
LEMMA StillYields ==
  ASSUME Base, NEW s \in Slots, link' = link,
         \A p \in Paths : link[p] \in Inodes => data'[link[p]] = data[link[p]],
         \A t \in Slots \ {s} : \A i \in op[t].open : data'[i] = data[i],
         \A t \in Slots \ {s} : op'[t] = op[t]
  PROVE  /\ \A t \in Slots \ {s} : Yields(t)
         /\ \A k \in ValidKeys : Steady(k)
<1>1. \A k \in ValidKeys : Steady(k)
  BY PathFacts DEF Steady, Files, NotADirectory, IsFile
<1>2. \A t \in Slots : Writes(t) \/ op[t].kind = "stat" => op[t].key \in ValidKeys
  BY DEF Base, CallsOK, CallOK, Writes
<1> QED
  BY <1>1, <1>2 DEF Yields

LEMMA KeptOn ==
  ASSUME NEW k \in ValidKeys, KeptAt(k), Steady(k), stored'[k] = stored[k]
  PROVE  KeptAt(k)'
<1>1. path(k) \in Files(k) /\ sumPath(k) \in Files(k)
  BY DEF Files
<1> QED
  BY <1>1 DEF KeptAt, Steady, IsFile

LEMMA Answered ==
  ASSUME NEW kind \in {"put", "get", "stat", "delete"}, NEW result, NEW want,
         Answer(kind, result, want),
         want # Unknown /\ kind = "get" => result = S3Get(want),
         want # Unknown /\ kind = "stat" =>
           result = S3Stat(want) \/ (Faults /\ want # Absent /\ result = <<>>),
         want # Unknown /\ kind = "delete" =>
           result = IF want = Absent THEN NotFound ELSE Ok
  PROVE  AnswersAsS3'
<1>1. CASE want = Unknown
  BY <1>1 DEF Answer, AnswersAsS3, NoAnswer
<1>2. CASE want # Unknown
  <2>1. last' = [kind |-> kind, result |-> result, want |-> want]
    BY <1>2 DEF Answer
  <2>2. last'.kind = kind /\ last'.result = result /\ last'.want = want
    BY <2>1
  <2> QED
    BY <1>2, <2>2 DEF AnswersAsS3
<1> QED
  BY <1>1, <1>2

LEMMA Silently == Silent => AnswersAsS3'
BY DEF Silent, AnswersAsS3, NoAnswer

\* A step that replaces no object keeps what it does not spoil.
LEMMA Upheld ==
  ASSUME StoreInv, NEW s \in Slots, stored' = stored, spoilt \subseteq spoilt',
         \A k \in ValidKeys \ spoilt' : Steady(k),
         \A t \in Slots \ {s} : Yields(t),
         Writes(s)' => Near(op'[s].key) \subseteq spoilt',
         AnswersAsS3'
  PROVE  Upholds(s)
<1>1. \A t \in Slots : Writes(t)' => Near(op'[t].key) \subseteq spoilt'
  BY DEF StoreInv, Claimed, Writes, Yields
<1>2. \A k \in ValidKeys \ spoilt' : KeptAt(k)'
  BY KeptOn DEF StoreInv, Kept
<1> QED
  BY <1>1, <1>2 DEF Upholds

\* A writer begins on k, and i is the inode it truncates, if any: the calls it
\* disturbs stop expecting, the others have nothing to do with its files.
LEMMA DisturbYields ==
  ASSUME Base, NEW s \in Slots, NEW k \in ValidKeys, NEW i, LocalTo(k),
         i \in Inodes => i[1] \in Files(k),
         \A t \in Slots \ {s} : op'[t] = Disturbed(s, k, i)[t],
         \A t \in Slots \ {s} : \A j \in op[t].open \ {i} : data'[j] = data[j]
  PROVE  /\ \A t \in Slots \ {s} : Yields(t)
         /\ \A j \in ValidKeys \ Near(k) : Steady(j)
         /\ \A t \in Slots \ {s} :
              /\ Writes(t) /\ op'[t].calm = TRUE => k \notin Near(op[t].key)
              /\ op[t].kind = "stat" /\ op'[t].want # Unknown =>
                   k \notin Near(op[t].key)
              /\ op[t].kind = "get" /\ op'[t].want # Unknown =>
                   i \notin op[t].open
<1>1. \A j \in ValidKeys \ Near(k) : Steady(j)
  BY LocalSteady
<1>2. ASSUME NEW t \in Slots \ {s}
      PROVE  /\ Yields(t)
             /\ Writes(t) /\ op'[t].calm = TRUE => k \notin Near(op[t].key)
             /\ op[t].kind = "stat" /\ op'[t].want # Unknown =>
                  k \notin Near(op[t].key)
             /\ op[t].kind = "get" /\ op'[t].want # Unknown =>
                  i \notin op[t].open
  <2> DEFINE c == op[t]
             d == op'[t]
  <2>1. /\ d.kind = c.kind /\ d.pc = c.pc /\ d.key = c.key /\ d.blob = c.blob
        /\ d.open = c.open /\ d.off = c.off
        /\ c.key \notin Near(k) => d = c
        /\ c.key \in Near(k) =>
             /\ d.calm = FALSE
             /\ d.want = IF c.kind = "get" /\ i \notin c.open
                         THEN c.want ELSE Unknown
    <3>1. Marked(Disturbed(s, k, i), s, k, i) /\ d = Disturbed(s, k, i)[t]
      BY DisturbedFacts
    <3> HIDE DEF c, d
    <3> QED
      BY <3>1, ZenonT(40) DEF Marked, c
  <2>2. c.kind # "none" => c.key \in ValidKeys
    BY DEF Base, CallsOK, CallOK
  <2>3. c.kind # "none" /\ c.key \notin Near(k) =>
          Steady(c.key) /\ k \notin Near(c.key)
    BY <1>1, <2>2, NearFacts
  <2>4. c.kind = "get" /\ d.want # Unknown => i \notin c.open
    <3> SUFFICES ASSUME c.kind = "get", c.key \notin Near(k), c.open # {}
                 PROVE  i \notin c.open
      BY <2>1
    <3>1. PICK x \in Inodes : c.open = {x} /\ x[1] = path(c.key)
      BY DEF Base, CallsOK, CallOK, ReadsFrom, Opens
    <3>2. path(c.key) \notin Files(k)
      BY <2>2, Apart DEF Files
    <3> QED
      BY <3>1, <3>2
  <2> QED
    BY <2>1, <2>3, <2>4 DEF Yields, Writes
<1> QED
  BY <1>1, <1>2

LEMMA NoChunks == ASSUME NEW b PROVE SubSeq(b, 1, 0) = <<>>
OBVIOUS

LEMMA PutCreatePreserves ==
  ASSUME StoreInv, NEW s \in Slots, NEW k \in Keys, NEW blob \in Blobs,
         PutCreate(s, k, blob)
  PROVE  StoreInv'
<1> DEFINE p == path(k)
           i == Opened(p)
           l == [WithDirs(p) EXCEPT ![p] = i]
           c == Call("put", "copy", k, blob, {i}, Calm(s, k), Unknown)
           D == Disturbed(s, k, i)
           o == [D EXCEPT ![s] = c]
           d == [data EXCEPT ![i] = <<>>]
<1>1. /\ k \in ValidKeys /\ op[s] = Idle /\ ~NotADirectory(p) /\ link[p] # Dir
      /\ System(l, o, d)
      /\ spoilt' = spoilt \cup Near(k) /\ stored' = stored /\ Silent
  BY DEF PutCreate, BeginsWrite, Begins
<1>2. Base /\ data \in [Inodes -> Seq(Chunks)] /\ p \in Paths /\ p \in Files(k)
  BY <1>1, PathFacts DEF StoreInv, Base, TypeOK, Files
<1>3. i \in Inodes /\ i[1] = p
  BY <1>1, <1>2, OpenedFacts
<1>4. /\ GoodLinks(l) /\ l[p] = i
      /\ \A q \in Paths \ {p} : l[q] = IF q \in Above(p) THEN Dir ELSE link[q]
  BY <1>1, <1>2, CreateFacts
<1>5. c \in Calls /\ c.kind = "put" /\ c.pc = "copy" /\ c.key = k /\ c.blob = blob
      /\ c.open = {i} /\ c.off = 0 /\ c.calm = Calm(s, k) /\ c.want = Unknown
  <2>1. blob \in Seq(Chunks) /\ Calm(s, k) \in BOOLEAN /\ {i} \in SUBSET Inodes
    BY <1>3, LocalStoreAssumption DEF Calm
  <2> QED
    BY <1>1, <2>1, CallType DEF Call
<1>6. D \in [Slots -> Calls] /\ \A t \in Slots : D[t].open = op[t].open
  <2>1. Marked(Disturbed(s, k, i), s, k, i)
    BY <1>1, <1>2, DisturbedFacts
  <2> QED
    BY <2>1, Zenon DEF Marked
<1> HIDE DEF c, D
<1>7. o \in [Slots -> Calls] /\ o[s] = c /\ \A t \in Slots \ {s} : o[t] = D[t]
  BY <1>5, <1>6
<1>8. d \in [Inodes -> Seq(Chunks)] /\ d[i] = <<>>
      /\ \A j \in Inodes \ {i} : d[j] = data[j]
  BY <1>2, <1>3, EmptySeq
<1> HIDE DEF i, l, o, d
<1>9. /\ link' = l /\ op' = o /\ data' \in [Inodes -> Seq(Chunks)]
      /\ \A q \in Paths : l[q] \in Inodes => data'[l[q]] = d[l[q]]
      /\ \A t \in Slots : \A j \in o[t].open \cap Inodes : data'[j] = d[j]
  BY <1>1, <1>8, Reclaimed
<1>10. LocalTo(k)
  <2> SUFFICES ASSUME NEW q \in Paths \ Files(k)
               PROVE  /\ link'[q] = link[q] \/ (q \in Above(p) /\ link'[q] = Dir)
                      /\ link[q] \in Inodes /\ link'[q] = link[q] =>
                           data'[link[q]] = data[link[q]]
    BY DEF LocalTo
  <2>1. link[q] \in Inodes => link[q] # i
    BY <1>2, <1>3 DEF Base, Home, IsFile
  <2>2. q # p /\ link'[q] = IF q \in Above(p) THEN Dir ELSE link[q]
    BY <1>2, <1>4, <1>9
  <2>3. link[q] \in Inodes /\ link'[q] = link[q] => data'[link[q]] = d[link[q]]
    BY <1>9
  <2> QED
    BY <1>8, <2>1, <2>2, <2>3
<1>11. \A t \in Slots \ {s} : \A j \in op[t].open \ {i} : data'[j] = data[j]
  <2> SUFFICES ASSUME NEW t \in Slots \ {s}, NEW j \in op[t].open \ {i}
               PROVE  data'[j] = data[j]
    OBVIOUS
  <2>1. j \in Inodes /\ j # i
    BY <1>2 DEF Base, TypeOK, Calls
  <2>2. j \in o[t].open
    BY <1>6, <1>7, Zenon
  <2> QED
    BY <1>8, <1>9, <2>1, <2>2
<1>12. /\ \A t \in Slots \ {s} : Yields(t)
       /\ \A j \in ValidKeys \ Near(k) : Steady(j)
       /\ \A t \in Slots \ {s} :
            /\ Writes(t) /\ op'[t].calm = TRUE => k \notin Near(op[t].key)
            /\ op[t].kind = "stat" /\ op'[t].want # Unknown => k \notin Near(op[t].key)
            /\ op[t].kind = "get" /\ op'[t].want # Unknown => i \notin op[t].open
  <2>1. \A t \in Slots \ {s} : op'[t] = Disturbed(s, k, i)[t]
    BY <1>7, <1>9 DEF D
  <2>2. i \in Inodes => i[1] \in Files(k)
    BY <1>2, <1>3
  <2> QED
    BY <1>1, <1>2, <1>10, <1>11, <2>1, <2>2, DisturbYields
<1>13. Contention(s)
  BY <1>5, <1>7, <1>9, <1>12 DEF Contention
<1>14. Shapes'
  <2>1. stored \in [ValidKeys -> Blobs \cup {Absent}] /\ spoilt' \subseteq ValidKeys
    BY <1>1, <1>2 DEF Base, TypeOK, Near
  <2> QED
    BY <1>1, <1>4, <1>7, <1>9, <2>1 DEF Shapes
<1>15. CallOK(op[s])'
  <2>1. blob \in Blobs /\ 0 \in 0 .. Len(blob)
    BY LocalStoreAssumption, LenProperties
  <2> QED
    BY <1>1, <1>3, <1>5, <1>7, <1>9, <2>1 DEF CallOK, ReadsFrom, Opens
<1>16. Underway(op[s])'
  <2>1. link'[p] = i /\ data'[i] = <<>> /\ SubSeq(blob, 1, 0) = <<>>
    BY <1>2, <1>3, <1>4, <1>8, <1>9, NoChunks
  <2> QED
    BY <1>3, <1>5, <1>7, <1>9, <2>1
       DEF Underway, Copied, Removed, ReadSoFar, SumThere, Expects, IsFile
<1>17. Upholds(s)
  <2>1. Writes(s)' => Near(op'[s].key) \subseteq spoilt'
    BY <1>1, <1>5, <1>7, <1>9
  <2>2. spoilt \subseteq spoilt' /\ \A j \in ValidKeys \ spoilt' : Steady(j)
    BY <1>1, <1>12
  <2> QED
    BY <1>1, <1>12, <2>1, <2>2, Upheld, Silently
<1> QED
  BY <1>12, <1>13, <1>14, <1>15, <1>16, <1>17, Preserved

LEMMA AllChunks == ASSUME NEW b \in Seq(Chunks) PROVE SubSeq(b, 1, Len(b)) = b
<1> DEFINE n == Len(b)
           c == SubSeq(b, 1, n)
<1>1. n \in Nat /\ b = [i \in 1 .. n |-> b[i]]
  BY LenProperties
<1>2. 1 \in Int /\ n \in Int /\ \A i \in 1 .. n : b[i] \in Chunks
  BY <1>1, ElementOfSeq
<1> HIDE DEF n
<1>3. c \in Seq(Chunks) /\ Len(c) = (IF 1 <= n THEN n - 1 + 1 ELSE 0)
      /\ \A i \in 1 .. n - 1 + 1 : c[i] = b[1 + i - 1]
  BY <1>2, SubSeqProperties
<1> HIDE DEF c
<1>4. Len(c) = n /\ \A i \in 1 .. n : c[i] = b[i]
  <2>1. Len(c) = n
    BY <1>1, <1>3
  <2>2. ASSUME NEW i \in 1 .. n PROVE c[i] = b[i]
    <3>1. i \in 1 .. n - 1 + 1 /\ 1 + i - 1 = i
      BY <1>1
    <3> QED
      BY <1>3, <3>1
  <2> QED
    BY <2>1, <2>2
<1>5. c = [i \in 1 .. Len(c) |-> c[i]]
  BY <1>3
<1>6. c = b
  BY <1>1, <1>4, <1>5
<1> QED
  BY <1>6 DEF c, n

LEMMA PutSumPreserves ==
  ASSUME StoreInv, NEW s \in Slots, PutSum(s)
  PROVE  StoreInv'
<1> DEFINE c == op[s]
           k == c.key
           p == path(k)
           q == sumPath(k)
           i == Opened(q)
           l == [link EXCEPT ![q] = i]
           D == Disturbed(s, k, i)
           o == [D EXCEPT ![s].pc = "sum", ![s].open = {i}]
           d == [data EXCEPT ![i] = <<>>]
<1>1. /\ c.pc = "copy" /\ c.off = Len(c.blob) /\ ~Uncreatable(q)
      /\ System(l, o, d)
      /\ spoilt' = spoilt /\ stored' = stored /\ Silent
  BY DEF PutSum
<1>2. /\ Base /\ data \in [Inodes -> Seq(Chunks)] /\ op \in [Slots -> Calls]
      /\ c.kind = "put" /\ k \in ValidKeys /\ Opens(c, p) /\ c.blob \in Blobs
      /\ c.blob \in Seq(Chunks) /\ c.off \in 0 .. Len(c.blob)
  BY <1>1, LocalStoreAssumption DEF StoreInv, Base, CallsOK, CallOK, TypeOK
<1>3. /\ p \in Paths /\ p \in Files(k) /\ q \in Paths /\ q \in Files(k) /\ p # q
      /\ Near(k) \subseteq spoilt /\ k \in Near(k)
  BY <1>2, PathFacts, NearFacts DEF StoreInv, Files, Claimed, Writes
<1>4. link[q] # Dir /\ ~NotADirectory(q) /\ \A a \in Above(q) : link[a] = Dir
  BY <1>1, LocalStoreAssumption DEF Uncreatable, NotADirectory, IsFile
<1>5. i \in Inodes /\ i[1] = q
  BY <1>2, <1>3, <1>4, OpenedFacts
<1>6. GoodLinks(l) /\ l[q] = i /\ \A a \in Paths \ {q} : l[a] = link[a]
  <2>1. link \in [Paths -> Inodes \cup {Dir, NoFile}]
    BY <1>2 DEF Base, TypeOK
  <2>2. WithDirs(q) = link
    BY <1>4, <2>1 DEF WithDirs
  <2>3. GoodLinks(l)
    BY <1>2, <1>3, <1>4, <2>2, CreateFacts
  <2> QED
    BY <1>3, <2>1, <2>3
<1>7. Marked(D, s, k, i)
  BY <1>2, DisturbedFacts
<1>8. D \in [Slots -> Calls] /\ D[s] = c /\ \A t \in Slots : D[t].open = op[t].open
  BY <1>7, Zenon DEF Marked
<1> HIDE DEF D
<1>9. /\ o \in [Slots -> Calls] /\ \A t \in Slots \ {s} : o[t] = D[t]
      /\ o[s].kind = "put" /\ o[s].pc = "sum" /\ o[s].key = k /\ o[s].blob = c.blob
      /\ o[s].open = {i} /\ o[s].off = c.off /\ o[s].calm = c.calm /\ o[s].want = c.want
  <2>1. o = [D EXCEPT ![s] = [c EXCEPT !.pc = "sum", !.open = {i}]]
    BY <1>8
  <2>2. c \in Calls
    BY <1>2
  <2> DEFINE e == [c EXCEPT !.pc = "sum", !.open = {i}]
  <2>3. /\ e \in Calls /\ e.kind = "put" /\ e.pc = "sum" /\ e.key = k
        /\ e.blob = c.blob /\ e.open = {i} /\ e.off = c.off /\ e.calm = c.calm
        /\ e.want = c.want
    BY <1>2, <1>5, <2>2 DEF Calls
  <2> HIDE DEF e
  <2>4. o \in [Slots -> Calls] /\ o[s] = e /\ \A t \in Slots \ {s} : o[t] = D[t]
    BY <1>8, <2>1, <2>3 DEF e
  <2> QED
    BY <2>3, <2>4
<1>10. d \in [Inodes -> Seq(Chunks)] /\ d[i] = <<>>
       /\ \A j \in Inodes \ {i} : d[j] = data[j]
  BY <1>2, <1>5, EmptySeq
<1> HIDE DEF i, l, o, d
<1>11. /\ link' = l /\ op' = o /\ data' \in [Inodes -> Seq(Chunks)]
       /\ \A a \in Paths : l[a] \in Inodes => data'[l[a]] = d[l[a]]
       /\ \A t \in Slots : \A j \in o[t].open \cap Inodes : data'[j] = d[j]
  BY <1>1, <1>10, Reclaimed
<1>12. LocalTo(k)
  <2> SUFFICES ASSUME NEW a \in Paths \ Files(k)
               PROVE  link'[a] = link[a] /\ (link[a] \in Inodes => data'[link[a]] = data[link[a]])
    BY DEF LocalTo
  <2>1. link[a] \in Inodes => link[a] # i
    BY <1>2, <1>3, <1>5 DEF Base, Home, IsFile
  <2> QED
    BY <1>3, <1>6, <1>10, <1>11, <2>1
<1>13. \A t \in Slots \ {s} : \A j \in op[t].open \ {i} : data'[j] = data[j]
  <2> SUFFICES ASSUME NEW t \in Slots \ {s}, NEW j \in op[t].open \ {i}
               PROVE  data'[j] = data[j]
    OBVIOUS
  <2>1. j \in Inodes /\ j # i
    BY <1>2 DEF Calls
  <2>2. j \in o[t].open
    BY <1>8, <1>9, Zenon
  <2> QED
    BY <1>10, <1>11, <2>1, <2>2
<1>14. /\ \A t \in Slots \ {s} : Yields(t)
       /\ \A j \in ValidKeys \ Near(k) : Steady(j)
       /\ \A t \in Slots \ {s} :
            /\ Writes(t) /\ op'[t].calm = TRUE => k \notin Near(op[t].key)
            /\ op[t].kind = "stat" /\ op'[t].want # Unknown => k \notin Near(op[t].key)
            /\ op[t].kind = "get" /\ op'[t].want # Unknown => i \notin op[t].open
  <2>1. \A t \in Slots \ {s} : op'[t] = Disturbed(s, k, i)[t]
    BY <1>9, <1>11 DEF D
  <2>2. i \in Inodes => i[1] \in Files(k)
    BY <1>3, <1>5
  <2> QED
    BY <1>2, <1>12, <1>13, <2>1, <2>2, DisturbYields
<1>15. Contention(s)
  <2>1. c.calm = TRUE => Calm(s, k)
    BY <1>2 DEF StoreInv, Alone, Writes
  <2> QED
    BY <1>9, <1>11, <1>14, <2>1 DEF Contention
<1>16. Shapes'
  <2>1. stored \in [ValidKeys -> Blobs \cup {Absent}] /\ spoilt \subseteq ValidKeys
    BY <1>2 DEF Base, TypeOK
  <2> QED
    BY <1>1, <1>6, <1>9, <1>11, <2>1 DEF Shapes
<1>17. CallOK(op[s])'
  BY <1>2, <1>5, <1>9, <1>11 DEF CallOK, ReadsFrom, Opens
<1>18. Underway(op[s])'
  <2>1. link'[q] = i /\ data'[i] = <<>>
    BY <1>3, <1>5, <1>6, <1>10, <1>11
  <2>2. ASSUME c.calm = TRUE
        PROVE  link'[p] = link[p] /\ link[p] \in Inodes /\ data'[link[p]] = c.blob
    <3>1. IsFile(p) /\ data[link[p]] = SubSeq(c.blob, 1, c.off)
      BY <1>1, <1>2, <2>2 DEF StoreInv, Progress, Underway, Copied
    <3>2. data[link[p]] = c.blob
      BY <1>1, <1>2, <3>1, AllChunks
    <3>3. link[p] # i
      BY <1>2, <1>3, <1>5, <3>1 DEF Base, Home, IsFile
    <3> QED
      BY <1>3, <1>6, <1>10, <1>11, <3>1, <3>2, <3>3 DEF IsFile
  <2>3. Copied(op[s])'
    <3>1. /\ op'[s].pc = "sum" /\ op'[s].key = k /\ op'[s].blob = c.blob
          /\ op'[s].open = {i} /\ op'[s].calm = c.calm
      BY <1>9, <1>11
    <3> HIDE DEF c, k, p, q
    <3> QED
      BY <1>5, <2>1, <2>2, <3>1 DEF Copied, IsFile, p, q
  <2> QED
    BY <1>9, <1>11, <2>3 DEF Underway, Removed, ReadSoFar, SumThere, Expects
<1>19. Upholds(s)
  <2>1. Writes(s)' => Near(op'[s].key) \subseteq spoilt'
    BY <1>1, <1>3, <1>9, <1>11
  <2>2. spoilt \subseteq spoilt' /\ \A j \in ValidKeys \ spoilt' : Steady(j)
    BY <1>1, <1>3, <1>14
  <2> QED
    BY <1>1, <1>14, <2>1, <2>2, Upheld, Silently
<1> QED
  BY <1>14, <1>15, <1>16, <1>17, <1>18, <1>19, Preserved

\* A writer goes on: whoever is undisturbed or expects a version is away from
\* its files.
LEMMA WriterYields ==
  ASSUME StoreInv, NEW s \in Slots, Writes(s), LocalTo(op[s].key),
         \A t \in Slots \ {s} : op'[t] = op[t],
         \A t \in Slots \ {s} : \A j \in op[t].open \ op[s].open : data'[j] = data[j]
  PROVE  /\ op[s].key \in ValidKeys /\ Near(op[s].key) \subseteq spoilt
         /\ \A t \in Slots \ {s} : Yields(t)
         /\ \A j \in ValidKeys \ spoilt : Steady(j)
         /\ \A t \in Slots \ {s} :
              /\ Writes(t) /\ op'[t].calm = TRUE => op[s].key \notin Near(op[t].key)
              /\ op[t].kind = "stat" /\ op'[t].want # Unknown =>
                   op[s].key \notin Near(op[t].key)
              /\ op[t].kind = "get" /\ op'[t].want # Unknown =>
                   op[s].open \cap op[t].open = {}
<1> DEFINE k == op[s].key
<1>1. k \in ValidKeys /\ Near(k) \subseteq spoilt
  BY DEF StoreInv, Base, CallsOK, CallOK, Writes, Claimed
<1>2. \A j \in ValidKeys \ Near(k) : Steady(j)
  BY <1>1, LocalSteady
<1>3. ASSUME NEW t \in Slots \ {s}
      PROVE  /\ Yields(t)
             /\ Writes(t) /\ op'[t].calm = TRUE => k \notin Near(op[t].key)
             /\ op[t].kind = "stat" /\ op'[t].want # Unknown => k \notin Near(op[t].key)
             /\ op[t].kind = "get" /\ op'[t].want # Unknown =>
                  op[s].open \cap op[t].open = {}
  <2>1. op'[t] = op[t]
    BY <1>3
  <2>2. op[t].kind # "none" => op[t].key \in ValidKeys
    BY DEF StoreInv, Base, CallsOK, CallOK
  <2>3. ASSUME \/ Writes(t) /\ op[t].calm = TRUE
               \/ op[t].kind = "stat" /\ op[t].want # Unknown
        PROVE  k \notin Near(op[t].key) /\ Steady(op[t].key)
    <3>1. ~Writing(s, op[t].key)
      BY <2>3 DEF StoreInv, Alone, Quiet, Calm
    <3>2. k \notin Near(op[t].key)
      BY <3>1 DEF Writing, Writes
    <3>3. op[t].key \in ValidKeys
      BY <2>2, <2>3 DEF Writes
    <3> QED
      BY <1>1, <1>2, <3>2, <3>3, NearFacts
  <2>4. ASSUME op[t].kind = "get", op[t].want # Unknown
        PROVE  op[s].open \cap op[t].open = {} /\ \A i \in op[t].open : data'[i] = data[i]
    <3>1. op[s].open \cap op[t].open = {}
      BY <2>4 DEF StoreInv, Quiet
    <3> QED
      BY <3>1
  <2> QED
    BY <2>1, <2>3, <2>4 DEF Yields
<1> QED
  BY <1>1, <1>2, <1>3

LEMMA PutCopyPreserves ==
  ASSUME StoreInv, NEW s \in Slots, PutCopy(s)
  PROVE  StoreInv'
<1> DEFINE c == op[s]
           k == c.key
           p == path(k)
<1>1. PICK i \in c.open :
        data' = [data EXCEPT ![i] = WriteAt(data[i], c.off, c.blob[c.off + 1])]
  BY DEF PutCopy
<1>2. /\ c.pc = "copy" /\ c.off < Len(c.blob)
      /\ op' = [op EXCEPT ![s] = [c EXCEPT !.off = c.off + 1]]
      /\ link' = link /\ spoilt' = spoilt /\ stored' = stored /\ Silent
  BY DEF PutCopy
<1>3. /\ Base /\ data \in [Inodes -> Seq(Chunks)] /\ op \in [Slots -> Calls]
      /\ c.kind = "put" /\ k \in ValidKeys /\ Opens(c, p) /\ c.blob \in Blobs
      /\ c.blob \in Seq(Chunks) /\ c.off \in 0 .. Len(c.blob)
  BY <1>2, LocalStoreAssumption DEF StoreInv, Base, CallsOK, CallOK, TypeOK
<1>4. c.open = {i} /\ i \in Inodes /\ i[1] = p /\ p \in Files(k)
  BY <1>3 DEF Opens, Files
<1>5. Len(c.blob) \in Nat /\ c.off \in Nat /\ c.off + 1 \in 1 .. Len(c.blob)
      /\ c.blob[c.off + 1] \in Chunks
  BY <1>2, <1>3, LenProperties, ElementOfSeq
<1> DEFINE w == WriteAt(data[i], c.off, c.blob[c.off + 1])
           e == [c EXCEPT !.off = c.off + 1]
<1>6. w \in Seq(Chunks)
  BY <1>3, <1>4, <1>5, WriteAtType
<1> HIDE DEF w
<1>7. data' \in [Inodes -> Seq(Chunks)] /\ data'[i] = w
      /\ \A j \in Inodes \ {i} : data'[j] = data[j]
  BY <1>1, <1>3, <1>4, <1>6 DEF w
<1>8. /\ e \in Calls /\ e.kind = "put" /\ e.pc = "copy" /\ e.key = k
      /\ e.blob = c.blob /\ e.open = {i} /\ e.off = c.off + 1 /\ e.calm = c.calm
  <2>1. c \in Calls /\ c.off + 1 \in Nat
    BY <1>3, <1>5
  <2> QED
    BY <1>2, <1>3, <1>4, <2>1 DEF Calls
<1> HIDE DEF e
<1>9. op' \in [Slots -> Calls] /\ op'[s] = e /\ \A t \in Slots \ {s} : op'[t] = op[t]
  BY <1>2, <1>3, <1>8 DEF e
<1>10. LocalTo(k)
  BY <1>2, <1>3, <1>4, <1>7 DEF LocalTo, Base, Home, IsFile
<1>11. \A t \in Slots \ {s} : \A j \in op[t].open \ c.open : data'[j] = data[j]
  BY <1>3, <1>4, <1>7 DEF Calls
<1>12. /\ Near(k) \subseteq spoilt
       /\ \A t \in Slots \ {s} : Yields(t)
       /\ \A j \in ValidKeys \ spoilt : Steady(j)
       /\ \A t \in Slots \ {s} :
            /\ Writes(t) /\ op'[t].calm = TRUE => k \notin Near(op[t].key)
            /\ op[t].kind = "stat" /\ op'[t].want # Unknown => k \notin Near(op[t].key)
            /\ op[t].kind = "get" /\ op'[t].want # Unknown =>
                 c.open \cap op[t].open = {}
  BY <1>3, <1>9, <1>10, <1>11, WriterYields DEF Writes
<1>13. Contention(s)
  <2>1. c.calm = TRUE => Calm(s, k)
    BY <1>3 DEF StoreInv, Alone, Writes
  <2> QED
    BY <1>4, <1>8, <1>9, <1>12, <2>1 DEF Contention
<1>14. Shapes'
  <2>1. stored \in [ValidKeys -> Blobs \cup {Absent}] /\ spoilt \subseteq ValidKeys
        /\ GoodLinks(link)
    BY <1>3, LinksGood DEF Base, TypeOK
  <2> QED
    BY <1>2, <1>7, <1>9, <2>1 DEF Shapes, GoodLinks
<1>15. CallOK(op[s])'
  <2>1. c.off + 1 \in 0 .. Len(c.blob)
    BY <1>5
  <2> QED
    BY <1>3, <1>4, <1>8, <1>9, <2>1 DEF CallOK, ReadsFrom, Opens
<1>16. Underway(op[s])'
  <2>1. ASSUME c.calm = TRUE
        PROVE  link[p] = i /\ w = SubSeq(c.blob, 1, c.off + 1)
    <3>1. IsFile(p) /\ link[p] \in c.open /\ data[link[p]] = SubSeq(c.blob, 1, c.off)
      BY <1>2, <1>3, <2>1 DEF StoreInv, Progress, Underway, Copied
    <3>2. link[p] = i
      BY <1>4, <3>1
    <3>3. c.off \in 0 .. Len(c.blob) - 1
      BY <1>5
    <3> QED
      BY <1>3, <3>1, <3>2, <3>3, WriteNext DEF w
  <2>2. Copied(op[s])'
    <3>1. /\ op'[s].pc = "copy" /\ op'[s].key = k /\ op'[s].blob = c.blob
          /\ op'[s].open = {i} /\ op'[s].calm = c.calm /\ op'[s].off = c.off + 1
      BY <1>8, <1>9
    <3> HIDE DEF c, k, p
    <3> QED
      BY <1>2, <1>4, <1>7, <2>1, <3>1 DEF Copied, IsFile, p
  <2> QED
    BY <1>8, <1>9, <2>2 DEF Underway, Removed, ReadSoFar, SumThere, Expects
<1>17. Upholds(s)
  <2>1. Writes(s)' => Near(op'[s].key) \subseteq spoilt'
    BY <1>2, <1>8, <1>9, <1>12
  <2> QED
    BY <1>2, <1>12, <2>1, Upheld, Silently
<1> QED
  BY <1>12, <1>13, <1>14, <1>15, <1>16, <1>17, Preserved

\* A writer ends: nothing is left of its call, and its key is intact again if
\* nobody came near it.
LEMMA WriterEnds ==
  ASSUME StoreInv, NEW s \in Slots, Writes(s),
         NEW k \in ValidKeys, k = op[s].key, LocalTo(op[s].key),
         op' = [op EXCEPT ![s] = Idle], GoodLinks(link)',
         data' \in [Inodes -> Seq(Chunks)],
         \A t \in Slots \ {s} : \A j \in op[t].open \ op[s].open : data'[j] = data[j],
         NEW object \in Blobs \cup {Absent},
         stored' = [stored EXCEPT ![k] = object],
         spoilt' = IF op[s].calm THEN spoilt \ {k} ELSE spoilt,
         op[s].calm = TRUE => KeptAt(k)',
         AnswersAsS3'
  PROVE  StoreInv'
<1>1. /\ Base /\ op \in [Slots -> Calls] /\ spoilt \subseteq ValidKeys
      /\ stored \in [ValidKeys -> Blobs \cup {Absent}]
  BY DEF StoreInv, Base, TypeOK
<1>2. op' \in [Slots -> Calls] /\ op'[s] = Idle /\ \A t \in Slots \ {s} : op'[t] = op[t]
  BY <1>1, IdleFacts
<1>3. /\ k \in ValidKeys /\ Near(k) \subseteq spoilt
      /\ \A t \in Slots \ {s} : Yields(t)
      /\ \A j \in ValidKeys \ spoilt : Steady(j)
  BY <1>2, WriterYields
<1>4. Contention(s) /\ CallOK(op[s])' /\ Underway(op[s])'
  BY <1>2, IdleFacts DEF Contention, Writes, CallOK, Underway, Copied, Removed,
                         ReadSoFar, SumThere, Expects
<1>5. Shapes'
  BY <1>1, <1>2, <1>3 DEF Shapes
<1>6. ASSUME NEW t \in Slots, Writes(t)' PROVE Near(op'[t].key) \subseteq spoilt'
  <2>1. t # s /\ op'[t] = op[t] /\ Writes(t)
    BY <1>2, <1>6, IdleFacts DEF Writes
  <2>2. Near(op[t].key) \subseteq spoilt /\ op[t].key \in ValidKeys
    BY <2>1 DEF StoreInv, Claimed, Base, CallsOK, CallOK, Writes
  <2>3. ASSUME op[s].calm PROVE k \notin Near(op[t].key)
    <3>1. op[s].calm = TRUE
      BY <2>3
    <3>2. ~Writing(t, k)
      BY <2>1, <3>1 DEF StoreInv, Alone, Calm
    <3> QED
      BY <1>3, <2>1, <2>2, <3>2, NearFacts DEF Writing, Writes
  <2> QED
    BY <2>1, <2>2, <2>3
<1>7. ASSUME NEW j \in ValidKeys \ spoilt' PROVE KeptAt(j)'
  <2>1. k \in spoilt
    BY <1>3, NearFacts
  <2>2. CASE j = k
    BY <1>7, <2>1, <2>2
  <2>3. CASE j # k
    <3>1. j \notin spoilt /\ stored'[j] = stored[j]
      BY <1>1, <1>3, <1>7, <2>3
    <3> QED
      BY <1>3, <1>7, <3>1, KeptOn DEF StoreInv, Kept
  <2> QED
    BY <2>2, <2>3
<1>8. Upholds(s)
  BY <1>6, <1>7 DEF Upholds
<1> QED
  BY <1>3, <1>4, <1>5, <1>8, Preserved

LEMMA PutDonePreserves ==
  ASSUME StoreInv, NEW s \in Slots, PutDone(s)
  PROVE  StoreInv'
<1> DEFINE c == op[s]
<1>0. PICK k \in ValidKeys : k = c.key
  BY DEF PutDone, StoreInv, Base, CallsOK, CallOK
<1> DEFINE p == path(k)
           q == sumPath(k)
           o == [op EXCEPT ![s] = Idle]
           x == Digest(c.blob)[1]
<1>1. PICK i \in c.open : System(link, o, [data EXCEPT ![i] = WriteAt(data[i], 0, x)])
  BY DEF PutDone
<1>2. /\ c.pc = "sum" /\ stored' = [stored EXCEPT ![k] = c.blob]
      /\ spoilt' = IF c.calm THEN spoilt \ {k} ELSE spoilt
      /\ Silent
  BY <1>0 DEF PutDone
<1>3. /\ Base /\ data \in [Inodes -> Seq(Chunks)] /\ op \in [Slots -> Calls]
      /\ stored \in [ValidKeys -> Blobs \cup {Absent}]
      /\ k \in ValidKeys /\ k = c.key /\ c.kind = "put" /\ Opens(c, q) /\ c.blob \in Blobs
  BY <1>0, <1>2 DEF StoreInv, Base, CallsOK, CallOK, TypeOK
<1>4. /\ c.open = {i} /\ i \in Inodes /\ i[1] = q /\ p # q
      /\ p \in Files(k) /\ q \in Files(k) /\ p \in Paths /\ q \in Paths
  BY <1>3, PathFacts DEF Opens, Files
<1> DEFINE w == WriteAt(data[i], 0, x)
           d == [data EXCEPT ![i] = w]
<1>5. x \in Chunks
  BY <1>3 DEF Digest, Chunks
<1> HIDE DEF x
<1>6. w \in Seq(Chunks)
  BY <1>3, <1>4, <1>5, WriteAtType
<1> HIDE DEF w
<1>7. /\ d \in [Inodes -> Seq(Chunks)] /\ d[i] = w
      /\ \A j \in Inodes \ {i} : d[j] = data[j]
  BY <1>3, <1>4, <1>6
<1>8. System(link, o, d)
  BY <1>1 DEF w
<1> HIDE DEF d
<1>9. o[s] = Idle /\ \A t \in Slots \ {s} : o[t] = op[t]
  BY <1>3
<1> HIDE DEF o
<1>10. /\ link' = link /\ op' = o /\ data' \in [Inodes -> Seq(Chunks)]
       /\ \A a \in Paths : link[a] \in Inodes => data'[link[a]] = d[link[a]]
       /\ \A t \in Slots : \A j \in o[t].open \cap Inodes : data'[j] = d[j]
  BY <1>7, <1>8, Reclaimed
<1>11. LocalTo(k)
  BY <1>3, <1>4, <1>7, <1>10 DEF LocalTo, Base, Home, IsFile
<1>12. \A t \in Slots \ {s} : \A j \in op[t].open \ c.open : data'[j] = data[j]
  BY <1>3, <1>4, <1>7, <1>9, <1>10 DEF Calls
<1>13. ASSUME c.calm = TRUE PROVE KeptAt(k)'
  <2>1. /\ IsFile(p) /\ data[link[p]] = c.blob
        /\ IsFile(q) /\ link[q] \in c.open /\ data[link[q]] = <<>>
    BY <1>2, <1>3, <1>13 DEF StoreInv, Progress, Underway, Copied
  <2>2. link[q] = i /\ link[p] \in Inodes \ {i}
    BY <1>3, <1>4, <2>1 DEF Base, Home, IsFile
  <2>3. w = Digest(c.blob)
    BY <1>3, <2>1, <2>2, WriteSum DEF w, x
  <2>4. data'[link'[p]] = c.blob /\ data'[link'[q]] = Digest(c.blob)
    BY <1>4, <1>7, <1>10, <2>1, <2>2, <2>3
  <2>5. ~NotADirectory(p)
    BY <1>3, <1>4, <2>1, PathFacts, LocalStoreAssumption
       DEF NotADirectory, IsFile, Base, TypeOK
  <2>6. stored'[k] = c.blob /\ c.blob # Absent
    BY <1>2, <1>3, LocalStoreAssumption
  <2> QED
    BY <1>10, <2>1, <2>4, <2>5, <2>6, LocalStoreAssumption
       DEF KeptAt, NotADirectory, IsFile
<1>14. GoodLinks(link)'
  BY <1>3, <1>10, LinksGood DEF GoodLinks
<1> QED
  BY <1>2, <1>3, <1>10, <1>11, <1>12, <1>13, <1>14, WriterEnds, Silently DEF Writes, o

LEMMA DeleteSumPreserves ==
  ASSUME StoreInv, NEW s \in Slots, DeleteSum(s)
  PROVE  StoreInv'
<1> DEFINE c == op[s]
<1>0. PICK k \in ValidKeys : k = c.key
  BY DEF DeleteSum, StoreInv, Base, CallsOK, CallOK
<1> DEFINE p == path(k)
           q == sumPath(k)
           o == [op EXCEPT ![s] = Idle]
           removed == [link EXCEPT ![q] = IF DirectoryInUse(q) THEN link[q] ELSE NoFile]
<1>1. PICK l \in {removed, link} : System(l, o, data)
  BY <1>0 DEF DeleteSum
<1>2. /\ c.pc = "unsum" /\ stored' = [stored EXCEPT ![k] = Absent]
      /\ spoilt' = IF c.calm THEN spoilt \ {k} ELSE spoilt
      /\ Answer("delete", Ok, c.want)
  BY <1>0 DEF DeleteSum
<1>3. /\ Base /\ data \in [Inodes -> Seq(Chunks)] /\ op \in [Slots -> Calls]
      /\ link \in [Paths -> Inodes \cup {Dir, NoFile}]
      /\ k \in ValidKeys /\ k = c.key /\ c.kind = "delete" /\ c.open = {}
  BY <1>0, <1>2 DEF StoreInv, Base, CallsOK, CallOK, TypeOK
<1>4. /\ p # q /\ p \in Files(k) /\ q \in Files(k) /\ p \in Paths /\ q \in Paths
      /\ q \notin Above(p) /\ Above(p) \subseteq Paths
  BY <1>3, PathFacts, AboveOrder DEF Files
<1>5. /\ GoodLinks(l) /\ \A a \in Paths \ {q} : l[a] = link[a]
      /\ l[q] \in {link[q], NoFile}
  <2>1. CASE l = link
    BY <1>3, <2>1, LinksGood
  <2>2. CASE DirectoryInUse(q)
    <3>1. l = link
      BY <1>3, <1>4, <2>2
    <3> QED
      BY <1>3, <3>1, LinksGood
  <2>3. CASE l = removed /\ ~DirectoryInUse(q)
    <3>1. l = [link EXCEPT ![q] = NoFile]
      BY <2>3
    <3>2. LET r == [link EXCEPT ![q] = NoFile]
          IN  /\ GoodLinks(r) /\ r[q] = NoFile
              /\ \A a \in Paths \ {q} : r[a] = link[a]
      BY <1>3, <1>4, <2>3, RemoveFacts
    <3> QED
      BY <3>1, <3>2
  <2> QED
    BY <2>1, <2>2, <2>3
<1> HIDE DEF removed
<1>6. o[s] = Idle /\ \A t \in Slots \ {s} : o[t] = op[t]
  BY <1>3
<1> HIDE DEF o
<1>7. /\ link' = l /\ op' = o /\ data' \in [Inodes -> Seq(Chunks)]
      /\ \A a \in Paths : l[a] \in Inodes => data'[l[a]] = data[l[a]]
      /\ \A t \in Slots : \A j \in o[t].open \cap Inodes : data'[j] = data[j]
  BY <1>1, <1>3, Reclaimed
<1>8. LocalTo(k)
  BY <1>4, <1>5, <1>7 DEF LocalTo
<1>9. \A t \in Slots \ {s} : \A j \in op[t].open \ c.open : data'[j] = data[j]
  BY <1>3, <1>6, <1>7 DEF Calls
<1>10. ASSUME c.calm = TRUE PROVE KeptAt(k)'
  <2>1. link[p] = NoFile /\ ~NotADirectory(p)
    BY <1>3, <1>10 DEF StoreInv, Progress, Underway, Removed
  <2>2. link'[p] = NoFile /\ ~NotADirectory(p)'
    BY <1>4, <1>5, <1>7, <2>1 DEF NotADirectory, IsFile
  <2>3. stored'[k] = Absent
    BY <1>2, <1>3 DEF Base, TypeOK
  <2> QED
    BY <2>2, <2>3, LocalStoreAssumption DEF KeptAt, IsFile
<1>11. AnswersAsS3'
  <2>1. c.want # Unknown => c.want # Absent
    BY <1>3, LocalStoreAssumption DEF StoreInv, Progress, Underway, Expects
  <2> QED
    BY <1>2, <2>1, Answered
<1>12. GoodLinks(link)'
  BY <1>5, <1>7 DEF GoodLinks
<1> QED
  BY <1>2, <1>3, <1>7, <1>8, <1>9, <1>10, <1>11, <1>12, WriterEnds DEF Writes, o

LEMMA DeleteFilePreserves ==
  ASSUME StoreInv, NEW s \in Slots, NEW k \in Keys, DeleteFile(s, k)
  PROVE  StoreInv'
<1> DEFINE p == path(k)
           l == [link EXCEPT ![p] = NoFile]
           c == Call("delete", "unsum", k, <<>>, {}, Calm(s, k), Expected(s, k))
           D == Disturbed(s, k, NoFile)
           o == [D EXCEPT ![s] = c]
<1>1. /\ k \in ValidKeys /\ op[s] = Idle /\ link[p] # NoFile /\ ~DirectoryInUse(p)
      /\ System(l, o, data)
      /\ spoilt' = spoilt \cup Near(k) /\ stored' = stored /\ Silent
  BY DEF DeleteFile, BeginsWrite, Begins
<1>2. /\ Base /\ data \in [Inodes -> Seq(Chunks)] /\ op \in [Slots -> Calls]
      /\ p \in Paths /\ p \in Files(k) /\ Above(p) \subseteq Paths /\ p \notin Above(p)
  BY <1>1, PathFacts, AboveOrder DEF StoreInv, Base, TypeOK, Files
<1>3. GoodLinks(l) /\ l[p] = NoFile /\ \A q \in Paths \ {p} : l[q] = link[q]
  BY <1>1, <1>2, RemoveFacts
<1>4. /\ c \in Calls /\ c.kind = "delete" /\ c.pc = "unsum" /\ c.key = k /\ c.open = {}
      /\ c.calm = Calm(s, k) /\ c.want = Expected(s, k)
  <2>1. <<>> \in Seq(Chunks) /\ Calm(s, k) \in BOOLEAN /\ {} \in SUBSET Inodes
    BY EmptySeq DEF Calm
  <2>2. c \in Calls
    BY <1>1, <1>2, <2>1, CallType, ExpectedType
  <2> QED
    BY <2>2 DEF Call
<1>5. Marked(D, s, k, NoFile)
  BY <1>1, <1>2, DisturbedFacts
<1>6. D \in [Slots -> Calls] /\ \A t \in Slots : D[t].open = op[t].open
  BY <1>5, Zenon DEF Marked
<1> HIDE DEF c, D
<1>7. o \in [Slots -> Calls] /\ o[s] = c /\ \A t \in Slots \ {s} : o[t] = D[t]
  BY <1>4, <1>6
<1> HIDE DEF l, o
<1>8. /\ link' = l /\ op' = o /\ data' \in [Inodes -> Seq(Chunks)]
      /\ \A q \in Paths : l[q] \in Inodes => data'[l[q]] = data[l[q]]
      /\ \A t \in Slots : \A j \in o[t].open \cap Inodes : data'[j] = data[j]
  BY <1>1, <1>2, Reclaimed
<1>9. LocalTo(k)
  BY <1>2, <1>3, <1>8 DEF LocalTo
<1>10. \A t \in Slots \ {s} : \A j \in op[t].open \ {NoFile} : data'[j] = data[j]
  <2> SUFFICES ASSUME NEW t \in Slots \ {s}, NEW j \in op[t].open
               PROVE  data'[j] = data[j]
    OBVIOUS
  <2>1. j \in Inodes
    BY <1>2 DEF Calls
  <2>2. j \in o[t].open
    BY <1>6, <1>7, Zenon
  <2> QED
    BY <1>8, <2>1, <2>2
<1>11. /\ \A t \in Slots \ {s} : Yields(t)
       /\ \A j \in ValidKeys \ Near(k) : Steady(j)
       /\ \A t \in Slots \ {s} :
            /\ Writes(t) /\ op'[t].calm = TRUE => k \notin Near(op[t].key)
            /\ op[t].kind = "stat" /\ op'[t].want # Unknown => k \notin Near(op[t].key)
            /\ op[t].kind = "get" /\ op'[t].want # Unknown => NoFile \notin op[t].open
  <2>1. \A t \in Slots \ {s} : op'[t] = Disturbed(s, k, NoFile)[t]
    BY <1>7, <1>8 DEF D
  <2>2. NoFile \in Inodes => NoFile[1] \in Files(k)
    BY LocalStoreAssumption
  <2> QED
    BY <1>1, <1>2, <1>9, <1>10, <2>1, <2>2, DisturbYields
<1>12. Contention(s)
  BY <1>4, <1>7, <1>8, <1>11 DEF Contention
<1>13. Shapes'
  <2>1. stored \in [ValidKeys -> Blobs \cup {Absent}] /\ spoilt' \subseteq ValidKeys
    BY <1>1, <1>2 DEF Base, TypeOK, Near
  <2> QED
    BY <1>1, <1>3, <1>7, <1>8, <2>1 DEF Shapes
<1>14. CallOK(op[s])'
  BY <1>1, <1>4, <1>7, <1>8 DEF CallOK
<1>15. Underway(op[s])'
  <2>1. ~NotADirectory(p)'
    <3>1. \A q \in Above(p) : link[q] = Dir
      BY <1>1, <1>2 DEF Base, TypeOK
    <3> QED
      BY <1>2, <1>3, <1>8, <3>1, LocalStoreAssumption DEF NotADirectory, IsFile
  <2>2. c.want # Unknown => c.want \in Blobs
    <3> SUFFICES ASSUME Expected(s, k) # Unknown PROVE Expected(s, k) \in Blobs
      BY <1>4
    <3>1. k \notin spoilt /\ Expected(s, k) = stored[k]
      BY DEF Expected
    <3>2. KeptAt(k) /\ link[p] \in Inodes
      BY <1>1, <1>2, <3>1 DEF StoreInv, Kept, KeptAt, Base, TypeOK
    <3> QED
      BY <1>1, <1>2, <3>1, <3>2 DEF KeptAt, IsFile, Base, TypeOK
  <2>3. Removed(op[s])' /\ Expects(op[s])'
    BY <1>3, <1>4, <1>7, <1>8, <2>1, <2>2 DEF Removed, Expects
  <2> QED
    BY <1>4, <1>7, <1>8, <2>3 DEF Underway, Copied, ReadSoFar, SumThere
<1>16. Upholds(s)
  <2>1. Writes(s)' => Near(op'[s].key) \subseteq spoilt'
    BY <1>1, <1>4, <1>7, <1>8
  <2>2. spoilt \subseteq spoilt' /\ \A j \in ValidKeys \ spoilt' : Steady(j)
    BY <1>1, <1>11
  <2> QED
    BY <1>1, <1>11, <2>1, <2>2, Upheld, Silently
<1> QED
  BY <1>11, <1>12, <1>13, <1>14, <1>15, <1>16, Preserved

\* Nothing changes but the answer.
LEMMA Unmoved ==
  ASSUME StoreInv, UNCHANGED <<link, data, op, stored, spoilt>>, AnswersAsS3'
  PROVE  StoreInv'
<1>1. Base'
  BY DEF StoreInv, Base, TypeOK, IsFile, CallsOK, CallOK, ReadsFrom, Opens, Home
<1>2. Claimed' /\ Alone' /\ Quiet'
  BY DEF StoreInv, Claimed, Alone, Quiet, Calm, Writing, Writes, Near, Files
<1>3. Progress'
  BY DEF StoreInv, Progress, Underway, Copied, Removed, ReadSoFar, SumThere, Expects,
         IsFile, NotADirectory
<1>4. Kept'
  BY DEF StoreInv, Kept, KeptAt, IsFile, NotADirectory
<1> QED
  BY <1>1, <1>2, <1>3, <1>4 DEF StoreInv

LEMMA PutRefusedPreserves ==
  ASSUME StoreInv, NEW s \in Slots, NEW k \in Keys, PutRefused(s, k)
  PROVE  StoreInv'
<1> DEFINE p == path(k)
<1>1. /\ k \in ValidKeys /\ op[s] = Idle /\ Silent
      /\ data' = data /\ stored' = stored
  BY DEF PutRefused, BeginsWrite, Begins
<1>2. CASE UNCHANGED <<link, op, spoilt>>
  BY <1>1, <1>2, Unmoved, Silently
<1>3. CASE /\ ~NotADirectory(p) /\ link' = WithDirs(p)
           /\ op' = Disturbed(s, k, NoFile) /\ spoilt' = spoilt \cup Near(k)
  <2>1. /\ Base /\ data \in [Inodes -> Seq(Chunks)] /\ p \in Paths /\ p \in Files(k)
        /\ stored \in [ValidKeys -> Blobs \cup {Absent}] /\ spoilt' \subseteq ValidKeys
    BY <1>1, <1>3, PathFacts DEF StoreInv, Base, TypeOK, Files, Near
  <2>2. /\ GoodLinks(WithDirs(p))
        /\ \A q \in Paths : WithDirs(p)[q] = IF q \in Above(p) THEN Dir ELSE link[q]
    BY <1>3, <2>1, WithDirsFacts
  <2>3. Marked(Disturbed(s, k, NoFile), s, k, NoFile)
    BY <1>1, <2>1, DisturbedFacts
  <2>4. op' \in [Slots -> Calls] /\ op'[s] = Idle
    BY <1>1, <1>3, <2>3, Zenon DEF Marked
  <2>5. LocalTo(k)
    BY <1>1, <1>3, <2>2 DEF LocalTo
  <2>6. /\ \A t \in Slots \ {s} : Yields(t)
        /\ \A j \in ValidKeys \ Near(k) : Steady(j)
    BY <1>1, <1>3, <2>1, <2>5, DisturbYields, LocalStoreAssumption
  <2>7. Contention(s) /\ CallOK(op[s])' /\ Underway(op[s])'
    BY <2>4, IdleFacts DEF Contention, Writes, CallOK, Underway, Copied, Removed,
                           ReadSoFar, SumThere, Expects
  <2>8. Shapes'
    BY <1>1, <1>3, <2>1, <2>2, <2>4 DEF Shapes, GoodLinks
  <2>9. Upholds(s)
    <3>1. ~Writes(s)'
      BY <2>4, IdleFacts DEF Writes
    <3>2. spoilt \subseteq spoilt' /\ \A j \in ValidKeys \ spoilt' : Steady(j)
      BY <1>3, <2>6
    <3> QED
      BY <1>1, <2>6, <3>1, <3>2, Upheld, Silently
  <2> QED
    BY <2>6, <2>7, <2>8, <2>9, Preserved
<1> QED
  BY <1>1, <1>2, <1>3 DEF PutRefused

\* A step that leaves the files and the other calls alone.
LEMMA OwnStep ==
  ASSUME StoreInv, NEW s \in Slots, link' = link,
         \A p \in Paths : link[p] \in Inodes => data'[link[p]] = data[link[p]],
         \A t \in Slots \ {s} : \A i \in op[t].open : data'[i] = data[i],
         data' \in [Inodes -> Seq(Chunks)],
         NEW c \in Calls, op' = [op EXCEPT ![s] = c],
         c.kind \in {"none", "get", "stat"},
         stored' = stored, spoilt' = spoilt, AnswersAsS3',
         CallOK(c), Underway(op[s])',
         c.want # Unknown =>
           /\ c.kind = "stat" => Calm(s, c.key)
           /\ c.kind = "get" =>
                \A t \in Slots \ {s} : Writes(t) => op[t].open \cap c.open = {}
  PROVE  StoreInv'
<1>1. /\ Base /\ op \in [Slots -> Calls] /\ spoilt \subseteq ValidKeys
      /\ stored \in [ValidKeys -> Blobs \cup {Absent}]
  BY DEF StoreInv, Base, TypeOK
<1>2. op' \in [Slots -> Calls] /\ op'[s] = c /\ \A t \in Slots \ {s} : op'[t] = op[t]
  BY <1>1
<1>3. /\ \A t \in Slots \ {s} : Yields(t)
      /\ \A k \in ValidKeys : Steady(k)
  BY <1>1, <1>2, StillYields
<1>4. Contention(s) /\ CallOK(op[s])' /\ ~Writes(s)'
  BY <1>2 DEF Contention, Writes, CallOK, ReadsFrom, Opens
<1>5. Shapes'
  BY <1>1, <1>2, LinksGood DEF Shapes, GoodLinks
<1>6. Upholds(s)
  BY <1>3, <1>4, Upheld
<1> QED
  BY <1>3, <1>4, <1>5, <1>6, Preserved

\* A call that wrote no more returns.
LEMMA Returns ==
  ASSUME StoreInv, NEW s \in Slots, System(link, [op EXCEPT ![s] = Idle], data),
         stored' = stored, spoilt' = spoilt, AnswersAsS3'
  PROVE  StoreInv'
<1> DEFINE o == [op EXCEPT ![s] = Idle]
<1>1. data \in [Inodes -> Seq(Chunks)] /\ op \in [Slots -> Calls]
  BY DEF StoreInv, Base, TypeOK
<1>2. System(link, o, data) /\ \A t \in Slots \ {s} : o[t] = op[t]
  BY <1>1
<1> HIDE DEF o
<1>3. /\ link' = link /\ op' = o /\ data' \in [Inodes -> Seq(Chunks)]
      /\ \A p \in Paths : link[p] \in Inodes => data'[link[p]] = data[link[p]]
      /\ \A t \in Slots : \A i \in o[t].open \cap Inodes : data'[i] = data[i]
  BY <1>1, <1>2, Reclaimed
<1>4. \A t \in Slots \ {s} : \A i \in op[t].open : data'[i] = data[i]
  <2> SUFFICES ASSUME NEW t \in Slots \ {s}, NEW i \in op[t].open
               PROVE  data'[i] = data[i]
    OBVIOUS
  <2>1. i \in Inodes
    BY <1>1 DEF Calls
  <2> QED
    BY <1>2, <1>3, <2>1
<1>5. Idle \in Calls /\ CallOK(Idle) /\ Idle.kind = "none" /\ Idle.want = Unknown
  BY IdleFacts
<1>6. op'[s] = Idle
  BY <1>1, <1>3 DEF o
<1>7. Underway(op[s])'
  BY <1>5, <1>6 DEF Underway, Copied, Removed, ReadSoFar, SumThere, Expects
<1> QED
  BY <1>3, <1>4, <1>5, <1>7, OwnStep DEF o

LEMMA PutFailsPreserves ==
  ASSUME StoreInv, NEW s \in Slots, PutFails(s)
  PROVE  StoreInv'
<1>1. /\ op[s].kind = "put" /\ System(link, [op EXCEPT ![s] = Idle], data)
      /\ Answer(op[s].kind, Error, op[s].want)
      /\ stored' = stored /\ spoilt' = spoilt
  BY DEF PutFails, Return
<1>2. AnswersAsS3'
  BY <1>1, Answered
<1> QED
  BY <1>1, <1>2, Returns

\* What a call that begins on k may count on when it expects a version.
LEMMA Expecting ==
  ASSUME StoreInv, NEW s \in Slots, NEW k \in ValidKeys, Expected(s, k) # Unknown
  PROVE  /\ Calm(s, k) /\ Expected(s, k) = stored[k] /\ KeptAt(k)
         /\ stored[k] \in Blobs \cup {Absent}
         /\ link[path(k)] \in Inodes \cup {NoFile}
         /\ ~IsFile(path(k)) => Expected(s, k) = Absent /\ Miss(path(k)) = NotFound
         /\ IsFile(path(k)) => Expected(s, k) \in Blobs
<1>1. Calm(s, k) /\ k \notin spoilt /\ Expected(s, k) = stored[k]
  BY DEF Expected
<1>2. KeptAt(k) /\ stored[k] \in Blobs \cup {Absent}
      /\ link[path(k)] \in Inodes \cup {NoFile, Dir}
  BY <1>1, PathFacts DEF StoreInv, Kept, Base, TypeOK
<1> QED
  BY <1>1, <1>2 DEF KeptAt, Miss, IsFile

LEMMA GetOpenPreserves ==
  ASSUME StoreInv, NEW s \in Slots, NEW k \in Keys, GetOpen(s, k)
  PROVE  StoreInv'
<1> DEFINE p == path(k)
           v == Expected(s, k)
<1>1. /\ k \in ValidKeys /\ op[s] = Idle
      /\ link' = link /\ data' = data /\ stored' = stored /\ spoilt' = spoilt
  BY DEF GetOpen, Begins
<1>2. /\ Base /\ data \in [Inodes -> Seq(Chunks)] /\ p \in Paths
  BY <1>1, PathFacts DEF StoreInv, Base, TypeOK
<1>3. CASE link[p] = NoFile /\ op' = op /\ Answer("get", Miss(p), v)
  <2>1. ASSUME v # Unknown PROVE Miss(p) = S3Get(v)
    BY <1>1, <1>3, <2>1, Expecting, LocalStoreAssumption DEF IsFile, S3Get
  <2>2. AnswersAsS3'
    BY <1>3, <2>1, Answered
  <2> QED
    BY <1>1, <1>3, <2>2, Unmoved
<1>4. CASE /\ link[p] # NoFile /\ Silent
           /\ op' = [op EXCEPT ![s] =
                       Call("get", "read", k, <<>>, {link[p]} \ {Dir}, FALSE, v)]
  <2> DEFINE o == {link[p]} \ {Dir}
             c == Call("get", "read", k, <<>>, o, FALSE, v)
  <2>1. /\ o \in SUBSET Inodes
        /\ \/ IsFile(p) /\ o = {link[p]} /\ link[p] \in Inodes /\ link[p][1] = p
           \/ ~IsFile(p) /\ link[p] = Dir /\ o = {} /\ v = Unknown
    <3>1. link[p] \in Inodes \cup {Dir}
      BY <1>2, <1>4 DEF Base, TypeOK
    <3>2. link[p] = Dir => ~IsFile(p) /\ v = Unknown
      BY <1>1, <3>1, Expecting, LocalStoreAssumption DEF KeptAt, IsFile
    <3> QED
      BY <1>2, <3>1, <3>2, LocalStoreAssumption DEF Base, Home, IsFile
  <2> HIDE DEF o
  <2>2. /\ c \in Calls /\ c.kind = "get" /\ c.pc = "read" /\ c.key = k
        /\ c.blob = <<>> /\ c.open = o /\ c.off = 0 /\ c.want = v
    <3>1. <<>> \in Seq(Chunks)
      BY EmptySeq
    <3>2. c \in Calls
      BY <1>1, <1>2, <2>1, <3>1, CallType, ExpectedType
    <3> QED
      BY <3>2 DEF Call
  <2> HIDE DEF c
  <2>3. op'[s] = c
    BY <1>2, <1>4 DEF Base, TypeOK, c, o
  <2>4. CallOK(c)
    BY <1>1, <2>1, <2>2 DEF CallOK, ReadsFrom, Opens
  <2>5. ASSUME v # Unknown
        PROVE  /\ o = {link[p]} /\ data[link[p]] = v /\ v \in Blobs /\ 0 \in 0 .. Len(v)
               /\ SubSeq(v, 1, 0) = <<>>
               /\ \A t \in Slots \ {s} : Writes(t) => op[t].open \cap c.open = {}
    <3>0. IsFile(p) /\ o = {link[p]} /\ link[p] \in Inodes /\ link[p][1] = p
      BY <2>1, <2>5
    <3>1. /\ Calm(s, k) /\ v = stored[k] /\ KeptAt(k) /\ v \in Blobs
      BY <1>1, <2>5, <3>0, Expecting
    <3>2. data[link[p]] = v
      BY <3>0, <3>1 DEF KeptAt
    <3>3. 0 \in 0 .. Len(v)
      BY <3>1, LocalStoreAssumption, LenProperties
    <3>4. ASSUME NEW t \in Slots \ {s}, Writes(t) PROVE link[p] \notin op[t].open
      <4>1. op[t].key \in ValidKeys /\ op[t].key \notin Near(k)
        BY <1>2, <3>1, <3>4 DEF Calm, Writing, Writes, Base, CallsOK, CallOK
      <4>2. \A x \in op[t].open : x[1] \in Files(op[t].key)
        BY <1>2, <3>4 DEF Base, CallsOK, CallOK, ReadsFrom, Opens, Writes, Files
      <4>3. p \notin Files(op[t].key)
        BY <1>1, <4>1, Apart DEF Files
      <4> QED
        BY <3>0, <4>2, <4>3
    <3> QED
      BY <2>2, <3>0, <3>1, <3>2, <3>3, <3>4, NoChunks
  <2>6. Underway(op[s])'
    <3>1. ReadSoFar(op[s])' /\ Expects(op[s])'
      BY <1>1, <2>2, <2>3, <2>5 DEF ReadSoFar, Expects
    <3> QED
      BY <2>2, <2>3, <3>1 DEF Underway, Copied, Removed, SumThere
  <2>7. op' = [op EXCEPT ![s] = c]
    BY <1>4 DEF c, o
  <2> QED
    BY <1>1, <1>2, <1>4, <2>2, <2>4, <2>5, <2>6, <2>7, OwnStep, Silently
<1> QED
  BY <1>3, <1>4 DEF GetOpen

LEMMA StatFilePreserves ==
  ASSUME StoreInv, NEW s \in Slots, NEW k \in Keys, StatFile(s, k)
  PROVE  StoreInv'
<1> DEFINE p == path(k)
           v == Expected(s, k)
<1>1. /\ k \in ValidKeys /\ op[s] = Idle
      /\ link' = link /\ data' = data /\ stored' = stored /\ spoilt' = spoilt
  BY DEF StatFile, Begins
<1>2. /\ Base /\ data \in [Inodes -> Seq(Chunks)] /\ p \in Paths
  BY <1>1, PathFacts DEF StoreInv, Base, TypeOK
<1>3. CASE link[p] = NoFile /\ op' = op /\ Answer("stat", Miss(p), v)
  <2>1. ASSUME v # Unknown PROVE Miss(p) = S3Stat(v)
    BY <1>1, <1>3, <2>1, Expecting, LocalStoreAssumption DEF IsFile, S3Stat
  <2>2. AnswersAsS3'
    BY <1>3, <2>1, Answered
  <2> QED
    BY <1>1, <1>3, <2>2, Unmoved
<1>4. CASE /\ link[p] # NoFile /\ Silent
           /\ op' = [op EXCEPT ![s] = Call("stat", "readsum", k, <<>>, {}, FALSE, v)]
  <2> DEFINE c == Call("stat", "readsum", k, <<>>, {}, FALSE, v)
  <2>1. /\ c \in Calls /\ c.kind = "stat" /\ c.pc = "readsum" /\ c.key = k
        /\ c.open = {} /\ c.want = v
    <3>1. <<>> \in Seq(Chunks) /\ {} \in SUBSET Inodes
      BY EmptySeq
    <3>2. c \in Calls
      BY <1>1, <1>2, <3>1, CallType, ExpectedType
    <3> QED
      BY <3>2 DEF Call
  <2> HIDE DEF c
  <2>2. op'[s] = c
    BY <1>2, <1>4 DEF Base, TypeOK, c
  <2>3. CallOK(c)
    BY <1>1, <2>1 DEF CallOK
  <2>4. ASSUME v # Unknown
        PROVE  /\ v \in Blobs /\ IsFile(sumPath(k)) /\ Calm(s, k)
               /\ data[link[sumPath(k)]] = Digest(v)
    <3>1. Calm(s, k) /\ v = stored[k] /\ KeptAt(k) /\ link[p] \in Inodes /\ v \in Blobs
      BY <1>1, <1>4, <2>4, Expecting DEF IsFile
    <3> QED
      BY <3>1, LocalStoreAssumption DEF KeptAt
  <2>5. Underway(op[s])'
    <3>1. SumThere(op[s])' /\ Expects(op[s])'
      BY <1>1, <2>1, <2>2, <2>4 DEF SumThere, Expects, IsFile
    <3> QED
      BY <2>1, <2>2, <3>1 DEF Underway, Copied, Removed, ReadSoFar
  <2>6. op' = [op EXCEPT ![s] = c]
    BY <1>4 DEF c
  <2> QED
    BY <1>1, <1>2, <1>4, <2>1, <2>3, <2>4, <2>5, <2>6, OwnStep, Silently
<1> QED
  BY <1>3, <1>4 DEF StatFile

LEMMA StatSumPreserves ==
  ASSUME StoreInv, NEW s \in Slots, StatSum(s)
  PROVE  StoreInv'
<1> DEFINE c == op[s]
           q == sumPath(c.key)
<1>1. /\ c.kind = "stat" /\ stored' = stored /\ spoilt' = spoilt
  BY DEF StatSum, StoreInv, Base, CallsOK, CallOK
<1>2. ASSUME NEW result, Return(s, result),
             c.want # Unknown => \/ result = S3Stat(c.want)
                                 \/ Faults /\ c.want # Absent /\ result = <<>>
      PROVE  StoreInv'
  <2>1. /\ System(link, [op EXCEPT ![s] = Idle], data)
        /\ Answer(c.kind, result, c.want)
    BY <1>2 DEF Return
  <2>2. AnswersAsS3'
    BY <1>1, <1>2, <2>1, Answered
  <2> QED
    BY <1>1, <2>1, <2>2, Returns
<1>3. ASSUME c.want # Unknown
      PROVE  /\ IsFile(q) /\ data[link[q]] = Digest(c.want)
             /\ c.want # Absent /\ S3Stat(c.want) = Digest(c.want)
  <2>1. IsFile(q) /\ data[link[q]] = Digest(c.want) /\ c.want \in Blobs
    BY <1>1, <1>3 DEF StoreInv, Progress, Underway, SumThere, Expects
  <2> QED
    BY <2>1, LocalStoreAssumption DEF S3Stat
<1>4. CASE IsFile(q) /\ Return(s, data[link[q]])
  BY <1>2, <1>3, <1>4
<1>5. CASE (Faults \/ ~IsFile(q)) /\ Return(s, <<>>)
  BY <1>2, <1>3, <1>5
<1> QED
  BY <1>4, <1>5 DEF StatSum

LEMMA DeleteRefusedPreserves ==
  ASSUME StoreInv, NEW s \in Slots, NEW k \in Keys, DeleteRefused(s, k)
  PROVE  StoreInv'
<1> DEFINE p == path(k)
           v == Expected(s, k)
<1>1. k \in ValidKeys /\ UNCHANGED <<link, data, op, stored, spoilt>>
  BY DEF DeleteRefused, BeginsWrite, Begins
<1>2. CASE link[p] = NoFile /\ Answer("delete", Miss(p), v)
  <2>1. v # Unknown => Miss(p) = IF v = Absent THEN NotFound ELSE Ok
    BY <1>1, <1>2, Expecting, LocalStoreAssumption DEF IsFile
  <2> QED
    BY <1>1, <1>2, <2>1, Answered, Unmoved
<1>3. CASE DirectoryInUse(p) /\ Answer("delete", Error, v)
  <2>1. v = Unknown
    BY <1>1, <1>3, Expecting DEF DirectoryInUse, KeptAt
  <2> QED
    BY <1>1, <1>3, <2>1, Answered, Unmoved
<1>4. CASE Answer("delete", Error, Unknown)
  BY <1>1, <1>4, Answered, Unmoved
<1> QED
  BY <1>2, <1>3, <1>4 DEF DeleteRefused

LEMMA ReadNext ==
  ASSUME NEW b \in Seq(Chunks), NEW off \in 0 .. Len(b) - 1
  PROVE  Append(SubSeq(b, 1, off), b[off + 1]) = SubSeq(b, 1, off + 1)
<1> DEFINE c == SubSeq(b, 1, off)
           d == SubSeq(b, 1, off + 1)
           a == Append(c, b[off + 1])
<1>1. Len(b) \in Nat /\ \A i \in 1 .. Len(b) : b[i] \in Chunks
  BY LenProperties, ElementOfSeq
<1>2. c \in Seq(Chunks) /\ Len(c) = off /\ \A i \in 1 .. off : c[i] = b[i]
  <2>1. off \in Int /\ 1 \in Int /\ \A i \in 1 .. off : b[i] \in Chunks
    BY <1>1
  <2> QED
    BY <2>1, SubSeqProperties
<1>3. d \in Seq(Chunks) /\ Len(d) = off + 1 /\ \A i \in 1 .. off + 1 : d[i] = b[i]
  <2>1. off + 1 \in Int /\ 1 \in Int /\ \A i \in 1 .. off + 1 : b[i] \in Chunks
    BY <1>1
  <2> QED
    BY <2>1, SubSeqProperties
<1> HIDE DEF c, d
<1>4. /\ a \in Seq(Chunks) /\ Len(a) = off + 1 /\ a[off + 1] = b[off + 1]
      /\ \A i \in 1 .. off : a[i] = c[i]
  BY <1>1, <1>2, AppendProperties
<1> HIDE DEF a
<1>5. a = [i \in 1 .. off + 1 |-> a[i]] /\ d = [i \in 1 .. off + 1 |-> d[i]]
  <2>1. a = [i \in 1 .. Len(a) |-> a[i]] /\ d = [i \in 1 .. Len(d) |-> d[i]]
    BY <1>3, <1>4
  <2> QED
    BY <1>3, <1>4, <2>1
<1>6. \A i \in 1 .. off + 1 : a[i] = d[i]
  <2> SUFFICES ASSUME NEW i \in 1 .. off + 1 PROVE a[i] = d[i]
    OBVIOUS
  <2>1. i = off + 1 \/ i \in 1 .. off
    OBVIOUS
  <2> QED
    BY <1>2, <1>3, <1>4, <2>1
<1>7. a = d
  BY <1>5, <1>6
<1> QED
  BY <1>7 DEF a, c, d

LEMMA GetReadPreserves ==
  ASSUME StoreInv, NEW s \in Slots, GetRead(s)
  PROVE  StoreInv'
<1> DEFINE c == op[s]
           v == c.want
<1>1. /\ c.pc = "read" /\ stored' = stored /\ spoilt' = spoilt
  BY DEF GetRead
<1>2. /\ Base /\ data \in [Inodes -> Seq(Chunks)] /\ op \in [Slots -> Calls]
      /\ c \in Calls /\ CallOK(c) /\ c.kind = "get" /\ c.key \in ValidKeys
  BY <1>1 DEF StoreInv, Base, CallsOK, CallOK, TypeOK
<1>3. ASSUME NEW i \in c.open, v # Unknown
      PROVE  /\ data[i] = v /\ v \in Blobs /\ v \in Seq(Chunks) /\ v # Absent
             /\ c.off \in 0 .. Len(v) /\ c.blob = SubSeq(v, 1, c.off)
             /\ \A t \in Slots \ {s} : Writes(t) => op[t].open \cap c.open = {}
  <2>1. ReadSoFar(c) /\ Expects(c)
    BY DEF StoreInv, Progress, Underway
  <2> QED
    BY <1>2, <1>3, <2>1, LocalStoreAssumption
       DEF ReadSoFar, Expects, StoreInv, Quiet
<1>4. ASSUME NEW i \in c.open, c.off < Len(data[i]), link' = link, data' = data, Silent,
             op' = [op EXCEPT ![s].off = c.off + 1,
                              ![s].blob = Append(c.blob, data[i][c.off + 1])]
      PROVE  StoreInv'
  <2> DEFINE x == data[i][c.off + 1]
             y == Append(c.blob, x)
             e == [c EXCEPT !.off = c.off + 1, !.blob = y]
  <2>1. i \in Inodes /\ data[i] \in Seq(Chunks) /\ c.off \in Nat /\ c.blob \in Seq(Chunks)
    BY <1>2, <1>4 DEF Calls
  <2>2. c.off + 1 \in 1 .. Len(data[i]) /\ c.off \in 0 .. Len(data[i]) - 1
        /\ x \in Chunks /\ y \in Seq(Chunks)
    BY <1>4, <2>1, LenProperties, ElementOfSeq, AppendProperties
  <2> HIDE DEF x, y
  <2>3. op' = [op EXCEPT ![s] = e]
    BY <1>2, <1>4 DEF x, y
  <2>4. /\ e \in Calls /\ e.kind = "get" /\ e.pc = "read" /\ e.key = c.key
        /\ e.open = c.open /\ e.off = c.off + 1 /\ e.blob = y /\ e.want = v
    <3>1. c.off + 1 \in Nat
      BY <2>1
    <3>2. /\ e.kind = c.kind /\ e.pc = c.pc /\ e.key = c.key /\ e.open = c.open
          /\ e.off = c.off + 1 /\ e.blob = y /\ e.want = c.want /\ e \in Calls
      BY <1>2, <2>2, <3>1 DEF Calls
    <3> QED
      BY <1>1, <1>2, <3>2
  <2> HIDE DEF e
  <2>5. op'[s] = e
    BY <1>2, <2>3
  <2>6. CallOK(e)
    BY <1>2, <2>4 DEF CallOK, ReadsFrom, Opens
  <2>7. ASSUME v # Unknown
        PROVE  /\ \A j \in e.open : data[j] = v
               /\ e.off \in 0 .. Len(v) /\ e.blob = SubSeq(v, 1, e.off)
    <3>1. data[i] = v /\ v \in Seq(Chunks) /\ c.blob = SubSeq(v, 1, c.off)
          /\ \A j \in c.open : data[j] = v
      BY <1>3, <2>7
    <3>2. Append(SubSeq(v, 1, c.off), v[c.off + 1]) = SubSeq(v, 1, c.off + 1)
      BY <2>2, <3>1, ReadNext
    <3>3. c.off + 1 \in 0 .. Len(v)
      BY <2>1, <2>2, <3>1, LenProperties
    <3> QED
      BY <2>4, <3>1, <3>2, <3>3 DEF x, y
  <2>8. Underway(op[s])'
    <3>1. ReadSoFar(op[s])' /\ Expects(op[s])'
      BY <1>3, <1>4, <2>4, <2>5, <2>7 DEF ReadSoFar, Expects
    <3> QED
      BY <2>4, <2>5, <3>1 DEF Underway, Copied, Removed, SumThere
  <2> QED
    BY <1>1, <1>2, <1>3, <1>4, <2>3, <2>4, <2>6, <2>8, OwnStep, Silently
<1>5. ASSUME NEW i \in c.open, c.off >= Len(data[i]), Return(s, c.blob)
      PROVE  StoreInv'
  <2>1. System(link, [op EXCEPT ![s] = Idle], data) /\ Answer("get", c.blob, v)
    BY <1>2, <1>5 DEF Return
  <2>2. ASSUME v # Unknown PROVE c.blob = S3Get(v)
    <3>1. c.off = Len(v) /\ c.blob = SubSeq(v, 1, Len(v)) /\ v # Absent
          /\ v \in Seq(Chunks)
      BY <1>3, <1>5, <2>2, LenProperties
    <3> QED
      BY <3>1, AllChunks DEF S3Get
  <2>3. AnswersAsS3'
    BY <2>1, <2>2, Answered
  <2> QED
    BY <1>1, <2>1, <2>3, Returns
<1>6. ASSUME c.open = {}, Return(s, Error)
      PROVE  StoreInv'
  <2>1. System(link, [op EXCEPT ![s] = Idle], data) /\ Answer("get", Error, v)
    BY <1>2, <1>6 DEF Return
  <2>2. v = Unknown
    BY <1>2, <1>6 DEF CallOK, ReadsFrom, Opens
  <2>3. AnswersAsS3'
    BY <2>1, <2>2, Answered
  <2> QED
    BY <1>1, <2>1, <2>3, Returns
<1> QED
  BY <1>4, <1>5, <1>6 DEF GetRead

LEMMA CrashPreserves ==
  ASSUME StoreInv, Crash
  PROVE  StoreInv'
<1> DEFINE o == [t \in Slots |-> Idle]
<1>1. System(link, o, data) /\ stored' = stored /\ spoilt' = spoilt /\ Silent
  BY DEF Crash
<1>2. /\ Base /\ GoodLinks(link) /\ data \in [Inodes -> Seq(Chunks)]
      /\ stored \in [ValidKeys -> Blobs \cup {Absent}] /\ spoilt \subseteq ValidKeys
  BY LinksGood DEF StoreInv, Base, TypeOK
<1>3. o \in [Slots -> Calls] /\ \A t \in Slots : o[t] = Idle
  BY IdleFacts
<1> HIDE DEF o
<1>4. /\ link' = link /\ op' = o /\ data' \in [Inodes -> Seq(Chunks)]
      /\ \A p \in Paths : link[p] \in Inodes => data'[link[p]] = data[link[p]]
  BY <1>1, <1>2, Reclaimed
<1>5. \A k \in ValidKeys : Steady(k)
  BY <1>4, PathFacts DEF Steady, Files, NotADirectory, IsFile
<1>6. Kept'
  BY <1>1, <1>5, KeptOn DEF StoreInv, Kept
<1>7. \A t \in Slots : op'[t] = Idle
  BY <1>3, <1>4
<1>8. CallsOK' /\ Claimed' /\ Alone' /\ Quiet' /\ Progress'
  BY <1>7, IdleFacts DEF CallsOK, CallOK, Claimed, Alone, Quiet, Progress, Writes,
       Underway, Copied, Removed, ReadSoFar, SumThere, Expects
<1>9. Shapes'
  BY <1>1, <1>2, <1>3, <1>4 DEF Shapes, GoodLinks
<1>10. Base'
  BY <1>8, <1>9, BaseIsShapes, PTL
<1> QED
  BY <1>1, <1>6, <1>8, <1>10, Silently DEF StoreInv

-----------------------------------------------------------------------------
(* The theorems *)

LEMMA InitStore == Init => StoreInv
<1> SUFFICES ASSUME Init PROVE StoreInv
  OBVIOUS
<1>1. /\ link = [p \in Paths |-> IF p = Root THEN Dir ELSE NoFile]
      /\ data = [i \in Inodes |-> <<>>]
      /\ op = [s \in Slots |-> Idle] /\ stored = [k \in ValidKeys |-> Absent]
      /\ spoilt = {k \in ValidKeys : path(k) = Root} /\ last = NoAnswer
  BY DEF Init
<1>2. Shapes
  <2>1. Above(Root) = {}
    BY DEF Above, Root
  <2>2. \A p \in Paths : link[p] = IF p = Root THEN Dir ELSE NoFile
    BY <1>1
  <2>3. link \in [Paths -> Inodes \cup {Dir, NoFile}]
    BY <1>1
  <2>4. GoodLinks(link)
    BY <2>1, <2>2, <2>3, LocalStoreAssumption DEF GoodLinks
  <2> QED
    BY <1>1, <2>4, IdleFacts, EmptySeq DEF Shapes
<1>3. \A s \in Slots : op[s] = Idle
  BY <1>1
<1>4. CallsOK /\ Claimed /\ Alone /\ Quiet /\ Progress
  BY <1>3, IdleFacts DEF CallsOK, CallOK, Claimed, Alone, Quiet, Progress, Writes,
       Underway, Copied, Removed, ReadSoFar, SumThere, Expects
<1>5. Kept
  BY <1>1, PathFacts, LocalStoreAssumption DEF Kept, KeptAt, NotADirectory, IsFile
<1>6. AnswersAsS3
  BY <1>1 DEF AnswersAsS3, NoAnswer
<1> QED
  BY <1>2, <1>4, <1>5, <1>6, BaseIsShapes DEF StoreInv

LEMMA NextStore == StoreInv /\ [Next]_vars => StoreInv'
<1> SUFFICES ASSUME StoreInv, [Next]_vars PROVE StoreInv'
  OBVIOUS
<1>1. ASSUME NEW s \in Slots, NEW k \in Keys,
             \/ \E blob \in Blobs : PutCreate(s, k, blob)
             \/ PutRefused(s, k) \/ GetOpen(s, k) \/ StatFile(s, k)
             \/ DeleteFile(s, k) \/ DeleteRefused(s, k)
      PROVE  StoreInv'
  BY <1>1, PutCreatePreserves, PutRefusedPreserves, GetOpenPreserves,
     StatFilePreserves, DeleteFilePreserves, DeleteRefusedPreserves
<1>2. ASSUME NEW s \in Slots,
             \/ PutCopy(s) \/ PutSum(s) \/ PutDone(s) \/ PutFails(s)
             \/ GetRead(s) \/ StatSum(s) \/ DeleteSum(s)
      PROVE  StoreInv'
  BY <1>2, PutCopyPreserves, PutSumPreserves, PutDonePreserves, PutFailsPreserves,
     GetReadPreserves, StatSumPreserves, DeleteSumPreserves
<1>3. CASE Crash
  BY <1>3, CrashPreserves
<1>4. CASE UNCHANGED vars
  BY <1>4, Unmoved DEF vars, AnswersAsS3, StoreInv
<1> QED
  BY <1>1, <1>2, <1>3, <1>4 DEF Next

LEMMA Invariance == Spec => []StoreInv
BY InitStore, NextStore, PTL DEF Spec

(* Every variable of the local store keeps its type: no two paths share an *)
(* inode, and what exists lies in directories (local.go:34).               *)
THEOREM TypeCorrect == Spec => []TypeOK
<1>1. StoreInv => TypeOK
  BY DEF StoreInv, Base
<1> QED
  BY <1>1, Invariance, PTL

LEMMA KeptIsIntact == StoreInv => IntactUnlessSpoilt
BY DEF StoreInv, Kept, KeptAt, IntactUnlessSpoilt, Object

(* However many goroutines put, read and delete objects of whatever keys,  *)
(* and however their calls fail or the process dies: a key whose last      *)
(* writer ran to its end alone shows that writer's object and its sum      *)
(* (local.go:34).                                                          *)
THEOREM IntactSafe == Spec => []IntactUnlessSpoilt
BY KeptIsIntact, Invariance, PTL

(* A Get, Stat or Delete that met no other writer answers what S3 answers  *)
(* for the version it found, except that Local reports the deletion of     *)
(* nothing (local.go:61, local.go:92, local.go:76).                        *)
THEOREM AnswersSafe == Spec => []AnswersAsS3
<1>1. StoreInv => AnswersAsS3
  BY DEF StoreInv
<1> QED
  BY <1>1, Invariance, PTL

-----------------------------------------------------------------------------
(* What the sums vouch for.  A sum lies only in a file beside the path that *)
(* its content was put under: every byte of every file that is a sum was    *)
(* written by PutDone, as long as no caller puts sums as objects.           *)

\* No content, and no hole in a file, is itself a sum.
NoSumsPut ==
  \A c \in Seq(Chunks) :
    Hole # [sha256 |-> c] /\ \A b \in Blobs : [sha256 |-> c] \notin Range(b)

\* If chunk is a sum, then of content that was put under the path inode i is
\* the sum file of.
Backs(i, chunk) ==
  \A c \in Seq(Chunks) : chunk = [sha256 |-> c] =>
    \E k \in ValidKeys : i[1] = sumPath(k) /\ <<path(k), c>> \in offered

Backed == \A i \in Inodes : \A n \in DOMAIN data[i] : Backs(i, data[i][n])

Offering ==
  \A s \in Slots : op[s].kind = "put" => <<path(op[s].key), op[s].blob>> \in offered

VouchInv == Backed /\ Offering

LEMMA SumPathTells ==
  ASSUME NEW j \in ValidKeys, NEW k \in ValidKeys, sumPath(j) = sumPath(k)
  PROVE  path(j) = path(k)
<1> DEFINE p == path(j)
           q == path(k)
           a == Append(Last(p), ".sum")
           b == Append(Last(q), ".sum")
<1>1. /\ p \in Seq(Seq(Pieces)) /\ q \in Seq(Seq(Pieces)) /\ Len(p) \in Nat
      /\ Len(p) > 0 /\ Last(p) = p[Len(p)] /\ Last(p) \in Seq(Pieces)
      /\ Last(q) = q[Len(q)] /\ Last(q) \in Seq(Pieces)
  BY SumPathShape
<1>2. /\ Len(sumPath(k)) = Len(p) /\ sumPath(k)[Len(p)] = a
      /\ \A n \in 1 .. Len(p) - 1 : sumPath(k)[n] = p[n]
  BY SumPathShape
<1>3. /\ Len(sumPath(k)) = Len(q) /\ sumPath(k)[Len(q)] = b
      /\ \A n \in 1 .. Len(q) - 1 : sumPath(k)[n] = q[n]
  BY SumPathShape
<1>4. ".sum" \in Pieces
  BY DEF Pieces
<1> HIDE DEF p, q, a, b
<1>9. Len(p) = Len(q) /\ a = b /\ \A n \in 1 .. Len(p) - 1 : p[n] = q[n]
  BY <1>2, <1>3
<1>10. Last(p) = Last(q)
  <2>1. Len(a) = Len(Last(p)) + 1 /\ Len(b) = Len(Last(q)) + 1
        /\ (\A n \in 1 .. Len(Last(p)) : a[n] = Last(p)[n])
        /\ (\A n \in 1 .. Len(Last(q)) : b[n] = Last(q)[n])
    BY <1>1, <1>4, AppendProperties DEF a, b
  <2>2. Len(Last(p)) \in Nat /\ Len(Last(q)) \in Nat
    BY <1>1, LenProperties
  <2>3. /\ Len(Last(p)) = Len(Last(q))
        /\ \A n \in 1 .. Len(Last(p)) : Last(p)[n] = Last(q)[n]
    BY <1>9, <2>1, <2>2
  <2> QED
    BY <1>1, <2>3, SeqEqual
<1>11. \A n \in 1 .. Len(p) : p[n] = q[n]
  <2> SUFFICES ASSUME NEW n \in 1 .. Len(p) PROVE p[n] = q[n]
    OBVIOUS
  <2>1. n = Len(p) \/ n \in 1 .. Len(p) - 1
    BY <1>1
  <2> QED
    BY <1>1, <1>9, <1>10, <2>1
<1> QED
  BY <1>1, <1>9, <1>11, SeqEqual DEF p, q

LEMMA WrittenChunks ==
  ASSUME NEW c \in Seq(Chunks), NEW off \in Nat, NEW chunk \in Chunks,
         NEW n \in DOMAIN WriteAt(c, off, chunk)
  PROVE  \/ WriteAt(c, off, chunk)[n] \in {chunk, Hole}
         \/ n \in DOMAIN c /\ WriteAt(c, off, chunk)[n] = c[n]
<1> DEFINE m == IF off >= Len(c) THEN off + 1 ELSE Len(c)
<1>1. WriteAt(c, off, chunk) = [i \in 1 .. m |-> IF i = off + 1 THEN chunk
                                  ELSE IF i <= Len(c) THEN c[i] ELSE Hole]
  BY DEF WriteAt
<1>2. Len(c) \in Nat /\ DOMAIN c = 1 .. Len(c) /\ m \in Nat
  BY LenProperties
<1> HIDE DEF m
<1>3. n \in 1 .. m
  BY <1>1
<1> QED
  BY <1>1, <1>2, <1>3

\* Files that keep their chunks, lose them all or gain backed ones are backed.
LEMMA BackedOn ==
  ASSUME Backed, offered \subseteq offered',
         \A i \in Inodes : \A n \in DOMAIN data'[i] :
           \/ n \in DOMAIN data[i] /\ data'[i][n] = data[i][n]
           \/ Backs(i, data[i][n])'
  PROVE  Backed'
<1>1. ASSUME NEW i \in Inodes, NEW chunk, Backs(i, chunk)
      PROVE  \A c \in Seq(Chunks) : chunk = [sha256 |-> c] =>
               \E k \in ValidKeys : i[1] = sumPath(k) /\ <<path(k), c>> \in offered'
  BY <1>1, Zenon DEF Backs
<1> QED
  BY <1>1 DEF Backed, Backs

LEMMA NothingNew ==
  ASSUME Backed, NEW l, NEW o, NEW d, System(l, o, d), offered \subseteq offered',
         \A i \in Inodes : d[i] = data[i] \/ d[i] = <<>>
  PROVE  Backed'
<1>1. data' = [i \in Inodes |-> IF i \in Live(l, o) THEN d[i] ELSE <<>>]
  BY DEF System, Reclaim
<1>2. \A i \in Inodes : data'[i] = data[i] \/ data'[i] = <<>>
  BY <1>1
<1>3. ASSUME NEW i \in Inodes, NEW n \in DOMAIN data'[i]
      PROVE  n \in DOMAIN data[i] /\ data'[i][n] = data[i][n]
  <2>1. data'[i] # <<>>
    BY <1>3
  <2> QED
    BY <1>2, <1>3, <2>1
<1> QED
  BY <1>3, BackedOn

\* A call of slot s that changes no content, and no Put but its own.
LEMMA VouchOn ==
  ASSUME VouchInv, NEW s \in Slots, offered \subseteq offered', Backed',
         \A t \in Slots \ {s} : /\ op'[t].kind = op[t].kind
                                /\ op'[t].key = op[t].key /\ op'[t].blob = op[t].blob,
         op'[s].kind = "put" => <<path(op'[s].key), op'[s].blob>> \in offered'
  PROVE  VouchInv'
<1>1. Offering'
  BY DEF VouchInv, Offering
<1> QED
  BY <1>1 DEF VouchInv

LEMMA VouchReturn ==
  ASSUME StoreInv, VouchInv, NEW s \in Slots, NEW l, NEW d,
         System(l, [op EXCEPT ![s] = Idle], d), offered' = offered,
         \A i \in Inodes : \A n \in DOMAIN d[i] :
           \/ n \in DOMAIN data[i] /\ d[i][n] = data[i][n]
           \/ Backs(i, d[i][n])
  PROVE  VouchInv'
<1> DEFINE o == [op EXCEPT ![s] = Idle]
<1>1. op' = o /\ o[s] = Idle /\ \A t \in Slots \ {s} : o[t] = op[t]
  BY DEF System, StoreInv, Base, TypeOK
<1>2. data' = [i \in Inodes |-> IF i \in Live(l, o) THEN d[i] ELSE <<>>]
  BY DEF System, Reclaim
<1> HIDE DEF o
<1>3. ASSUME NEW i \in Inodes, NEW n \in DOMAIN data'[i]
      PROVE  \/ n \in DOMAIN data[i] /\ data'[i][n] = data[i][n]
             \/ Backs(i, data[i][n])'
  <2>1. data'[i] = d[i]
    BY <1>2, <1>3
  <2>2. Backs(i, d[i][n]) => Backs(i, data[i][n])'
    BY <2>1 DEF Backs
  <2> QED
    BY <1>3, <2>1, <2>2
<1>4. Backed'
  BY <1>3, BackedOn DEF VouchInv
<1> QED
  BY <1>1, <1>4, VouchOn, IdleFacts

LEMMA VouchDisturb ==
  ASSUME StoreInv, VouchInv, NEW s \in Slots, NEW k \in ValidKeys, NEW i, NEW c,
         op' = [Disturbed(s, k, i) EXCEPT ![s] = c], offered \subseteq offered', Backed',
         c.kind = "put" => <<path(c.key), c.blob>> \in offered'
  PROVE  VouchInv'
<1> DEFINE D == Disturbed(s, k, i)
<1>1. Marked(D, s, k, i)
  BY DisturbedFacts DEF StoreInv
<1> HIDE DEF D
<1>2. op' = [D EXCEPT ![s] = c] /\ D \in [Slots -> Calls]
  BY <1>1 DEF Marked, D
<1>3. op'[s] = c /\ \A t \in Slots \ {s} : op'[t] = D[t]
  BY <1>2
<1>4. \A t \in Slots : D[t].kind = op[t].kind /\ D[t].key = op[t].key /\ D[t].blob = op[t].blob
  BY <1>1 DEF Marked
<1> QED
  BY <1>3, <1>4, VouchOn

LEMMA VouchStart ==
  ASSUME StoreInv, VouchInv, NEW s \in Slots, NEW c, c.kind # "put",
         op' = op \/ op' = [op EXCEPT ![s] = c], data' = data, offered' = offered
  PROVE  VouchInv'
<1>1. Backed'
  BY BackedOn DEF VouchInv
<1>2. CASE op' = op
  BY <1>1, <1>2 DEF VouchInv, Offering
<1>3. CASE op' = [op EXCEPT ![s] = c]
  <2>1. op'[s] = c /\ \A t \in Slots \ {s} : op'[t] = op[t]
    BY <1>3 DEF StoreInv, Base, TypeOK
  <2> QED
    BY <1>1, <2>1, VouchOn
<1> QED
  BY <1>2, <1>3

LEMMA PutCreateVouches ==
  ASSUME StoreInv, VouchInv, NEW s \in Slots, NEW k \in Keys, NEW blob \in Blobs,
         PutCreate(s, k, blob)
  PROVE  VouchInv'
<1> DEFINE i == Opened(path(k))
           l == [WithDirs(path(k)) EXCEPT ![path(k)] = i]
           c == Call("put", "copy", k, blob, {i}, Calm(s, k), Unknown)
           o == [Disturbed(s, k, i) EXCEPT ![s] = c]
           d == [data EXCEPT ![i] = <<>>]
<1>1. /\ k \in ValidKeys /\ System(l, o, d)
      /\ offered' = offered \cup {<<path(k), blob>>}
  BY DEF PutCreate, BeginsWrite, Begins
<1>2. c.kind = "put" /\ c.key = k /\ c.blob = blob
  BY DEF Call
<1>3. \A j \in Inodes : d[j] = data[j] \/ d[j] = <<>>
  BY DEF StoreInv, Base, TypeOK
<1>4. op' = o
  BY <1>1 DEF System
<1> HIDE DEF d, l, c
<1>5. Backed'
  BY <1>1, <1>3, NothingNew DEF VouchInv
<1> QED
  BY <1>1, <1>2, <1>4, <1>5, VouchDisturb

LEMMA PutRefusedVouches ==
  ASSUME StoreInv, VouchInv, NEW s \in Slots, NEW k \in Keys, PutRefused(s, k)
  PROVE  VouchInv'
<1>1. /\ k \in ValidKeys /\ data' = data /\ offered' = offered
      /\ op' = op \/ op' = Disturbed(s, k, NoFile)
  BY DEF PutRefused, BeginsWrite, Begins
<1>2. Backed'
  BY <1>1, BackedOn DEF VouchInv
<1>3. CASE op' = op
  BY <1>1, <1>2, <1>3 DEF VouchInv, Offering
<1>4. CASE op' = Disturbed(s, k, NoFile)
  <2>1. Marked(op', s, k, NoFile)
    BY <1>1, <1>4, DisturbedFacts DEF StoreInv
  <2>2. \A t \in Slots : op'[t].kind = op[t].kind /\ op'[t].key = op[t].key
                         /\ op'[t].blob = op[t].blob
    BY <2>1 DEF Marked
  <2> QED
    BY <1>1, <1>2, <2>2 DEF VouchInv, Offering
<1> QED
  BY <1>1, <1>3, <1>4

LEMMA PutCopyVouches ==
  ASSUME NoSumsPut, StoreInv, VouchInv, NEW s \in Slots, PutCopy(s)
  PROVE  VouchInv'
<1> DEFINE b == op[s].blob
           off == op[s].off
<1>1. PICK i \in op[s].open : data' = [data EXCEPT ![i] = WriteAt(@, off, b[off + 1])]
  BY DEF PutCopy
<1>2. /\ op' = [op EXCEPT ![s].off = off + 1] /\ off < Len(b) /\ op[s].pc = "copy"
      /\ offered' = offered
  BY DEF PutCopy
<1>3. /\ i \in Inodes /\ op \in [Slots -> Calls] /\ op[s] \in Calls /\ b \in Blobs
      /\ off \in 0 .. Len(b) /\ op[s].kind = "put" /\ data \in [Inodes -> Seq(Chunks)]
  BY <1>2 DEF StoreInv, Base, CallsOK, CallOK, TypeOK, Calls
<1>4. b \in Seq(Chunks)
  BY <1>3, LocalStoreAssumption
<1> HIDE DEF b, off
<1>5. /\ off \in Nat /\ off + 1 \in DOMAIN b /\ b[off + 1] \in Chunks
      /\ b[off + 1] \in Range(b)
  BY <1>2, <1>3, <1>4, LenProperties, ElementOfSeq DEF Range
<1> DEFINE w == WriteAt(data[i], off, b[off + 1])
<1>6. ASSUME NEW j \in Inodes, NEW n \in DOMAIN data'[j]
      PROVE  \/ n \in DOMAIN data[j] /\ data'[j][n] = data[j][n]
             \/ Backs(j, data[j][n])'
  <2>1. CASE j # i
    BY <1>1, <1>3, <1>6, <2>1
  <2>2. CASE j = i
    <3>1. data'[j] = w /\ data[i] \in Seq(Chunks)
      BY <1>1, <1>3, <2>2
    <3>2. n \in DOMAIN WriteAt(data[i], off, b[off + 1])
      BY <1>6, <3>1
    <3>2a. \/ w[n] \in {b[off + 1], Hole}
           \/ n \in DOMAIN data[i] /\ w[n] = data[i][n]
      BY <1>5, <3>1, <3>2, WrittenChunks
    <3>3. ASSUME w[n] \in {b[off + 1], Hole} PROVE Backs(j, data[j][n])'
      <4>1. \A c \in Seq(Chunks) : w[n] # [sha256 |-> c]
        BY <1>3, <1>5, <3>3 DEF NoSumsPut
      <4> QED
        BY <3>1, <4>1 DEF Backs
    <3> QED
      BY <2>2, <3>1, <3>2a, <3>3
  <2> QED
    BY <2>1, <2>2
<1>7. Backed'
  BY <1>2, <1>6, BackedOn DEF VouchInv
<1>8. \A t \in Slots : op'[t].kind = op[t].kind /\ op'[t].key = op[t].key
                       /\ op'[t].blob = op[t].blob
  BY <1>2, <1>3 DEF Calls
<1> QED
  BY <1>2, <1>7, <1>8 DEF VouchInv, Offering

LEMMA PutSumVouches ==
  ASSUME StoreInv, VouchInv, NEW s \in Slots, PutSum(s)
  PROVE  VouchInv'
<1> DEFINE p == sumPath(op[s].key)
           i == Opened(p)
           D == Disturbed(s, op[s].key, i)
           l == [link EXCEPT ![p] = i]
           o == [D EXCEPT ![s].pc = "sum", ![s].open = {i}]
           d == [data EXCEPT ![i] = <<>>]
           c == [D[s] EXCEPT !.pc = "sum", !.open = {i}]
<1>1. System(l, o, d) /\ offered' = offered /\ op[s].pc = "copy"
  BY DEF PutSum
<1>2. op[s].kind = "put" /\ op[s].key \in ValidKeys /\ op[s] \in Calls
  BY <1>1 DEF StoreInv, Base, CallsOK, CallOK, TypeOK
<1>3. \A j \in Inodes : d[j] = data[j] \/ d[j] = <<>>
  BY DEF StoreInv, Base, TypeOK
<1>4. Marked(D, s, op[s].key, i)
  BY <1>2, DisturbedFacts DEF StoreInv
<1>5. op' = o
  BY <1>1 DEF System
<1> HIDE DEF d, l, D
<1>6. Backed'
  BY <1>1, <1>3, NothingNew DEF VouchInv
<1>7. c.key = op[s].key /\ c.blob = op[s].blob
  BY <1>2, <1>4 DEF Marked, Calls
<1>8. op' = [D EXCEPT ![s] = c]
  BY <1>4, <1>5 DEF Marked
<1>9. <<path(c.key), c.blob>> \in offered'
  BY <1>1, <1>2, <1>7 DEF VouchInv, Offering
<1> HIDE DEF c
<1> QED
  BY <1>1, <1>2, <1>6, <1>8, <1>9, VouchDisturb DEF D

LEMMA PutDoneVouches ==
  ASSUME NoSumsPut, StoreInv, VouchInv, NEW s \in Slots, PutDone(s)
  PROVE  VouchInv'
<1> DEFINE b == op[s].blob
           k == op[s].key
           chunk == [sha256 |-> b]
<1>1. PICK i \in op[s].open :
        System(link, [op EXCEPT ![s] = Idle],
              [data EXCEPT ![i] = WriteAt(@, 0, Digest(b)[1])])
  BY DEF PutDone
<1>2. /\ op[s].kind = "put" /\ b \in Blobs /\ k \in ValidKeys /\ i \in Inodes
      /\ i[1] = sumPath(k) /\ data \in [Inodes -> Seq(Chunks)] /\ offered' = offered
  BY DEF PutDone, StoreInv, Base, CallsOK, CallOK, Opens, TypeOK
<1>3. <<path(k), b>> \in offered
  BY <1>2 DEF VouchInv, Offering
<1>4. chunk \in Chunks /\ Digest(b)[1] = chunk
  BY <1>2 DEF Chunks, Digest
<1>5. Backs(i, chunk) /\ Backs(i, Hole)
  <2>1. \A c \in Seq(Chunks) : chunk = [sha256 |-> c] => c = b
    BY Zenon
  <2>2. Backs(i, chunk)
    BY <1>2, <1>3, <2>1 DEF Backs
  <2> QED
    BY <2>2 DEF Backs, NoSumsPut
<1> HIDE DEF chunk
<1> DEFINE d == [data EXCEPT ![i] = WriteAt(@, 0, chunk)]
<1>6. ASSUME NEW j \in Inodes, NEW n \in DOMAIN d[j]
      PROVE  \/ n \in DOMAIN data[j] /\ d[j][n] = data[j][n]
             \/ Backs(j, d[j][n])
  <2>1. CASE j # i
    BY <1>2, <1>6, <2>1
  <2>2. CASE j = i
    <3>1. d[j] = WriteAt(data[i], 0, chunk) /\ data[i] \in Seq(Chunks)
      BY <1>2, <2>2
    <3>2. n \in DOMAIN WriteAt(data[i], 0, chunk)
      BY <1>6, <3>1
    <3>3. \/ WriteAt(data[i], 0, chunk)[n] \in {chunk, Hole}
          \/ n \in DOMAIN data[i] /\ WriteAt(data[i], 0, chunk)[n] = data[i][n]
      BY <1>4, <3>1, <3>2, WrittenChunks
    <3> QED
      BY <1>5, <2>2, <3>1, <3>3
  <2> QED
    BY <2>1, <2>2
<1>7. System(link, [op EXCEPT ![s] = Idle], d)
  BY <1>1, <1>4
<1> HIDE DEF d
<1> QED
  BY <1>2, <1>6, <1>7, VouchReturn

LEMMA DeleteFileVouches ==
  ASSUME StoreInv, VouchInv, NEW s \in Slots, NEW k \in Keys, DeleteFile(s, k)
  PROVE  VouchInv'
<1> DEFINE l == [link EXCEPT ![path(k)] = NoFile]
           c == Call("delete", "unsum", k, <<>>, {}, Calm(s, k), Expected(s, k))
           o == [Disturbed(s, k, NoFile) EXCEPT ![s] = c]
<1>1. k \in ValidKeys /\ System(l, o, data) /\ offered' = offered
  BY DEF DeleteFile, BeginsWrite, Begins
<1>2. c.kind = "delete" /\ op' = o
  BY <1>1 DEF Call, System
<1> HIDE DEF l, c
<1>3. Backed'
  BY <1>1, NothingNew DEF VouchInv
<1> QED
  BY <1>1, <1>2, <1>3, VouchDisturb

LEMMA NextVouches == NoSumsPut /\ StoreInv /\ VouchInv /\ [Next]_vars => VouchInv'
<1> SUFFICES ASSUME NoSumsPut, StoreInv, VouchInv, [Next]_vars PROVE VouchInv'
  OBVIOUS
<1>1. ASSUME NEW s \in Slots, NEW k \in Keys,
             \/ \E blob \in Blobs : PutCreate(s, k, blob)
             \/ PutRefused(s, k) \/ DeleteFile(s, k)
      PROVE  VouchInv'
  BY <1>1, PutCreateVouches, PutRefusedVouches, DeleteFileVouches
<1>2. ASSUME NEW s \in Slots, NEW k \in Keys,
             GetOpen(s, k) \/ StatFile(s, k) \/ DeleteRefused(s, k)
      PROVE  VouchInv'
  <2>1. data' = data /\ offered' = offered
    BY <1>2 DEF GetOpen, StatFile, DeleteRefused
  <2>2. CASE op' = op
    BY <2>1, <2>2, VouchStart, IdleFacts
  <2>3. ASSUME NEW open,
               op' = [op EXCEPT ![s] =
                        Call("get", "read", k, <<>>, open, FALSE, Expected(s, k))]
        PROVE  VouchInv'
    <3>1. Call("get", "read", k, <<>>, open, FALSE, Expected(s, k)).kind # "put"
      BY DEF Call
    <3> QED
      BY <2>1, <2>3, <3>1, VouchStart
  <2>4. CASE op' = [op EXCEPT ![s] =
                      Call("stat", "readsum", k, <<>>, {}, FALSE, Expected(s, k))]
    <3>1. Call("stat", "readsum", k, <<>>, {}, FALSE, Expected(s, k)).kind # "put"
      BY DEF Call
    <3> QED
      BY <2>1, <2>4, <3>1, VouchStart
  <2> QED
    BY <1>2, <2>2, <2>3, <2>4 DEF GetOpen, StatFile, DeleteRefused
<1>3. ASSUME NEW s \in Slots, PutCopy(s) \/ PutSum(s) \/ PutDone(s)
      PROVE  VouchInv'
  BY <1>3, PutCopyVouches, PutSumVouches, PutDoneVouches
<1>4. ASSUME NEW s \in Slots, NEW l, System(l, [op EXCEPT ![s] = Idle], data),
             offered' = offered
      PROVE  VouchInv'
  BY <1>4, VouchReturn
<1>5. ASSUME NEW s \in Slots, NEW result, Return(s, result), offered' = offered
      PROVE  VouchInv'
  BY <1>4, <1>5 DEF Return
<1>6. ASSUME NEW s \in Slots, PutFails(s) \/ StatSum(s) PROVE VouchInv'
  BY <1>5, <1>6 DEF PutFails, StatSum
<1>7. ASSUME NEW s \in Slots, GetRead(s) PROVE VouchInv'
  <2>1. offered' = offered
    BY <1>7 DEF GetRead
  <2>2. ASSUME NEW off, NEW blob, data' = data,
               op' = [op EXCEPT ![s].off = off, ![s].blob = blob]
        PROVE  VouchInv'
    <3> DEFINE c == [op[s] EXCEPT !.off = off, !.blob = blob]
    <3>1. op[s] \in Calls /\ op[s].kind # "put"
      BY <1>7 DEF GetRead, StoreInv, Base, CallsOK, CallOK, TypeOK
    <3>2. c.kind # "put" /\ op' = [op EXCEPT ![s] = c]
      BY <2>2, <3>1 DEF Calls
    <3> HIDE DEF c
    <3> QED
      BY <2>1, <2>2, <3>2, VouchStart
  <2> QED
    BY <1>5, <1>7, <2>1, <2>2 DEF GetRead
<1>8. ASSUME NEW s \in Slots, DeleteSum(s) PROVE VouchInv'
  BY <1>4, <1>8 DEF DeleteSum
<1>9. CASE Crash
  <2>1. System(link, [s \in Slots |-> Idle], data) /\ offered' = offered
    BY <1>9 DEF Crash
  <2>2. Backed'
    BY <2>1, NothingNew DEF VouchInv
  <2>3. \A s \in Slots : op'[s] = Idle
    BY <2>1 DEF System
  <2> QED
    BY <2>2, <2>3, IdleFacts DEF VouchInv, Offering
<1>10. CASE UNCHANGED vars
  BY <1>10 DEF vars, VouchInv, Backed, Backs, Offering
<1> QED
  BY <1>1, <1>2, <1>3, <1>6, <1>7, <1>8, <1>9, <1>10 DEF Next

LEMMA VouchImplies == StoreInv /\ VouchInv => SumVouches
<1> SUFFICES ASSUME StoreInv, VouchInv, NEW k \in ValidKeys,
                    SumFits(path(k), sumPath(k))
             PROVE  <<path(k), Object(k)>> \in offered
  BY DEF SumVouches
<1> DEFINE i == link[sumPath(k)]
           c == data[link[path(k)]]
<1>1. /\ i \in Inodes /\ i[1] = sumPath(k) /\ c \in Seq(Chunks) /\ Object(k) = c
      /\ data[i] = <<[sha256 |-> c]>>
  BY PathFacts DEF SumFits, IsFile, Digest, Object, StoreInv, Base, TypeOK, Home
<1> HIDE DEF i, c
<1>2. 1 \in DOMAIN data[i] /\ data[i][1] = [sha256 |-> c]
  BY <1>1
<1>3. Backs(i, [sha256 |-> c])
  BY <1>1, <1>2 DEF VouchInv, Backed
<1>4. PICK j \in ValidKeys : sumPath(k) = sumPath(j) /\ <<path(j), c>> \in offered
  BY <1>1, <1>3, Zenon DEF Backs
<1> QED
  BY <1>1, <1>4, SumPathTells

(* Whoever wrote at once, failed or died half-way: content that the sum    *)
(* beside it fits is one that a caller put under this key, as long as no   *)
(* caller puts a sum as an object (local.go:44, local.go:54).              *)
THEOREM VouchSafe == NoSumsPut => (Spec => []SumVouches)
<1> SUFFICES ASSUME NoSumsPut PROVE Spec => []SumVouches
  OBVIOUS
<1>1. Init => VouchInv
  <2> SUFFICES ASSUME Init PROVE VouchInv
    OBVIOUS
  <2>1. (\A i \in Inodes : data[i] = <<>>) /\ \A s \in Slots : op[s] = Idle
    BY DEF Init
  <2> QED
    BY <2>1, IdleFacts DEF VouchInv, Backed, Offering
<1>2. StoreInv /\ VouchInv /\ [Next]_vars => VouchInv'
  BY NextVouches
<1> QED
  BY <1>1, <1>2, Invariance, VouchImplies, PTL DEF Spec
=============================================================================
