------------------------------ MODULE LocalStore ------------------------------
(***************************************************************************)
(* The development back end of the object store: Local of internal/        *)
(* persistence/objectstore/local.go over a POSIX file system.              *)
(*                                                                         *)
(* An object is a file and its sum a second file beside it.  Nothing locks *)
(* them and nothing is renamed into place, so calls of several goroutines  *)
(* interleave at every system call, and a call that fails or a process     *)
(* that dies leaves what it has written.                                   *)
(*                                                                         *)
(* Keys and paths are sequences of segments, a segment a sequence of       *)
(* pieces; contents are sequences of chunks.                               *)
(***************************************************************************)
EXTENDS Integers, SequencesExt

CONSTANTS
  Slots,      \* goroutines in a call
  Keys,       \* keys the callers use
  Blobs,      \* contents they put
  NoFile, Dir, Hole,             \* no entry, a directory, bytes never written
  Absent, Unknown,               \* no object, any
  Ok, NotFound, Error,           \* answers
  MaxWrites,  \* bound on the calls of Put and Delete
  Faults      \* system calls and readers may fail, the process may die

-----------------------------------------------------------------------------
(* Keys and paths *)

\* A key that is not empty, not absolute, without "\" and without "..".
validateKey(k) ==
  /\ k # <<>> /\ k[1] # <<>>
  /\ \A i \in DOMAIN k : ~Contains(k[i], "\\") /\ ~Contains(k[i], "..")

\* The directory NewLocal was given.
Root == << <<"dir">> >>

\* filepath.Join cleans: empty and "." segments vanish, and the key "." names
\* the root itself.
path(k) == Root \o SelectSeq(k, LAMBDA seg : seg \notin {<<>>, <<".">>})

sumPath(k) == Front(path(k)) \o <<Append(Last(path(k)), ".sum")>>

ValidKeys == {k \in Keys : validateKey(k)}

Above(p) == {SubSeq(p, 1, n) : n \in 1 .. Len(p) - 1}

Files(k) == {path(k), sumPath(k)}

Paths == UNION {Files(k) \cup Above(path(k)) : k \in ValidKeys}

\* Keys that share a file, or need a directory where the other has a file.
Collide(j, k) ==
  \E p \in Files(j), q \in Files(k) : p = q \/ p \in Above(q) \/ q \in Above(p)

Digest(c) == <<[sha256 |-> c]>>

-----------------------------------------------------------------------------
VARIABLES
  link,     \* link[p]: the inode at path p, Dir or NoFile
  data,     \* data[i]: the content of inode i
  op,       \* op[s]: the call of slot s
  stored,   \* history: what the calls so far should have left under a key
  spoilt,   \* history: keys whose files calls in each other's way, or cut
            \* short, may have left in another state, and the key of the root
  offered,  \* history: the contents put under each path
  writes,   \* calls of Put and Delete, for the bound
  last      \* history: what the last step answered to a call that could expect it

vars == <<link, data, op, stored, spoilt, offered, writes, last>>

\* An inode is named by the path it was created at: at most one is linked
\* there, and every call may hold one more that was removed since.
Inodes == Paths \X (0 .. Cardinality(Slots))

\* What a file is made of: the chunks of the objects, bytes never written,
\* and the sums in the files beside them.
Chunks ==
  {Hole} \cup {[sha256 |-> b] : b \in Blobs} \cup (UNION {Range(b) : b \in Blobs})

ASSUME LocalStoreAssumption ==
  /\ IsFiniteSet(Slots)
  /\ NoFile # Dir /\ NoFile \notin Inodes /\ Dir \notin Inodes
  /\ Blobs \subseteq Seq(Chunks) /\ Absent \notin Blobs
  /\ \A k \in ValidKeys : path(k) \in Seq(Seq(STRING)) \ {<<>>}

\* Inodes some path or some open file refers to; the others are free.
Live(l, o) == {l[p] : p \in Paths} \cup UNION {o[s].open : s \in Slots}

Reclaim(d, l, o) == [i \in Inodes |-> IF i \in Live(l, o) THEN d[i] ELSE <<>>]

\* The paths and the calls are now l and o.
System(l, o, d) == link' = l /\ op' = o /\ data' = Reclaim(d, l, o)

\* open(O_CREATE|O_TRUNC): the inode that p refers to, or a new one.
Opened(p) ==
  IF link[p] # NoFile THEN link[p]
  ELSE CHOOSE i \in Inodes : i[1] = p /\ i \notin Live(link, op)

\* write(2) at the offset of the file description.
WriteAt(content, off, chunk) ==
  [i \in 1 .. (IF off >= Len(content) THEN off + 1 ELSE Len(content)) |->
     IF i = off + 1 THEN chunk
     ELSE IF i <= Len(content) THEN content[i] ELSE Hole]

IsFile(p) == link[p] \in Inodes

\* open(O_CREATE) fails: a directory, or none to hold the file.
Uncreatable(p) == link[p] = Dir \/ \E q \in Above(p) : link[q] # Dir

NotADirectory(p) == \E q \in Above(p) : IsFile(q)

DirectoryInUse(p) ==
  link[p] = Dir /\ \E q \in Paths : p \in Above(q) /\ link[q] # NoFile

Near(k) == {j \in ValidKeys : Collide(j, k)}

Writing(t, k) ==
  op[t].kind \in {"put", "delete"} /\ op[t].key \in Near(k)

Calm(s, k) == \A t \in Slots \ {s} : ~Writing(t, k)

\* The calls while slot s begins to write the files of k: no other call near
\* k is undisturbed any more, and readers of a truncated inode see a mixture.
Disturbed(s, k, truncated) ==
  [t \in Slots |->
     IF t = s \/ op[t].key \notin Near(k) THEN op[t]
     ELSE [op[t] EXCEPT !.calm = FALSE,
                        !.want = IF op[t].kind = "get" /\ truncated \notin op[t].open
                                 THEN @ ELSE Unknown]]

\* The version a call on k can expect to find, when no other gets in its way.
Expected(s, k) == IF Calm(s, k) /\ k \notin spoilt THEN stored[k] ELSE Unknown

Call(kind, pc, k, blob, open, calm, want) ==
  [kind |-> kind, pc |-> pc, key |-> k, blob |-> blob, open |-> open, off |-> 0,
   calm |-> calm, want |-> want]

Idle == Call("none", "idle", <<>>, <<>>, {}, FALSE, Unknown)

NoAnswer == [kind |-> "none", result |-> Ok, want |-> Unknown]

Silent == last' = NoAnswer

Answer(kind, result, want) ==
  last' = IF want = Unknown THEN NoAnswer
          ELSE [kind |-> kind, result |-> result, want |-> want]

Return(s, result) ==
  /\ System(link, [op EXCEPT ![s] = Idle], data)
  /\ Answer(op[s].kind, result, op[s].want)

Begins(s, k) == op[s] = Idle /\ k \in ValidKeys

BeginsWrite(s, k) ==
  /\ Begins(s, k)
  /\ writes < MaxWrites
  /\ writes' = writes + 1

Init ==
  /\ link = [p \in Paths |-> IF p = Root THEN Dir ELSE NoFile]
  /\ data = [i \in Inodes |-> <<>>]
  /\ op = [s \in Slots |-> Idle]
  /\ stored = [k \in ValidKeys |-> Absent]
  /\ spoilt = {k \in ValidKeys : path(k) = Root}
  /\ offered = {}
  /\ writes = 0
  /\ last = NoAnswer

-----------------------------------------------------------------------------
(* Local.Put *)

WithDirs(p) ==
  [q \in Paths |-> IF q \in Above(p) /\ link[q] = NoFile THEN Dir ELSE link[q]]

(* MkdirAll and os.Create *)
PutCreate(s, k, blob) ==
  /\ BeginsWrite(s, k)
  /\ LET p == path(k)
         i == Opened(p)
     IN  /\ ~NotADirectory(p) /\ link[p] # Dir
         /\ System([WithDirs(p) EXCEPT ![p] = i],
                  [Disturbed(s, k, i) EXCEPT ![s] =
                     Call("put", "copy", k, blob, {i}, Calm(s, k), Unknown)],
                  [data EXCEPT ![i] = <<>>])
  /\ spoilt' = spoilt \cup Near(k)
  /\ offered' = offered \cup {<<path(k), blob>>}
  /\ UNCHANGED stored /\ Silent

PutRefused(s, k) ==
  /\ BeginsWrite(s, k)
  /\ LET p == path(k)
     IN  \/ /\ NotADirectory(p) \/ link[p] = Dir
            /\ UNCHANGED <<link, op, spoilt>>
         \/ /\ Faults /\ ~NotADirectory(p)
            /\ link' = WithDirs(p)
            /\ IF link' = link THEN UNCHANGED <<op, spoilt>>
               ELSE op' = Disturbed(s, k, NoFile) /\ spoilt' = spoilt \cup Near(k)
  /\ Silent
  /\ UNCHANGED <<data, stored, offered>>

(* One round of io.Copy *)
PutCopy(s) ==
  /\ op[s].pc = "copy" /\ op[s].off < Len(op[s].blob)
  /\ \E i \in op[s].open :
       data' = [data EXCEPT ![i] =
                  WriteAt(@, op[s].off, op[s].blob[op[s].off + 1])]
  /\ op' = [op EXCEPT ![s].off = @ + 1]
  /\ UNCHANGED <<link, stored, spoilt, offered, writes>> /\ Silent

\* Mutant: the sum is written beside a copy that goes on.
PutSumEarly(s) ==
  /\ op[s].pc = "copy"
  /\ LET p == sumPath(op[s].key)
         i == Opened(p)
     IN  /\ ~Uncreatable(p)
         /\ System([link EXCEPT ![p] = i],
                  [Disturbed(s, op[s].key, i) EXCEPT ![s].pc = "sum",
                                                     ![s].open = {i}],
                  [data EXCEPT ![i] = <<>>])
  /\ UNCHANGED <<stored, spoilt, offered, writes>> /\ Silent

(* os.WriteFile of the sum: create or truncate, then one write. *)
PutSum(s) ==
  /\ op[s].pc = "copy" /\ op[s].off = Len(op[s].blob)
  /\ LET p == sumPath(op[s].key)
         i == Opened(p)
     IN  /\ ~Uncreatable(p)
         /\ System([link EXCEPT ![p] = i],
                  [Disturbed(s, op[s].key, i) EXCEPT ![s].pc = "sum",
                                                     ![s].open = {i}],
                  [data EXCEPT ![i] = <<>>])
  /\ UNCHANGED <<stored, spoilt, offered, writes>> /\ Silent

\* Mutant: the sum is taken of what the file holds by now.
PutDoneRereads(s) ==
  /\ op[s].pc = "sum"
  /\ LET p == path(op[s].key)
     IN  \E i \in op[s].open :
           System(link, [op EXCEPT ![s] = Idle],
                 [data EXCEPT ![i] =
                    WriteAt(@, 0, Digest(IF IsFile(p) THEN data[link[p]]
                                         ELSE op[s].blob)[1])])
  /\ stored' = [stored EXCEPT ![op[s].key] = op[s].blob]
  /\ spoilt' = IF op[s].calm THEN spoilt \ {op[s].key} ELSE spoilt
  /\ Silent
  /\ UNCHANGED <<offered, writes>>

PutDone(s) ==
  /\ op[s].pc = "sum"
  /\ \E i \in op[s].open :
       System(link, [op EXCEPT ![s] = Idle],
             [data EXCEPT ![i] = WriteAt(@, 0, Digest(op[s].blob)[1])])
  /\ stored' = [stored EXCEPT ![op[s].key] = op[s].blob]
  /\ spoilt' = IF op[s].calm THEN spoilt \ {op[s].key} ELSE spoilt
  /\ Silent
  /\ UNCHANGED <<offered, writes>>

(* The reader or a system call fails, or the sum has no place. *)
PutFails(s) ==
  /\ op[s].kind = "put"
  /\ Faults \/ (op[s].pc = "copy" /\ Uncreatable(sumPath(op[s].key)))
  /\ Return(s, Error)
  /\ UNCHANGED <<stored, spoilt, offered, writes>>

-----------------------------------------------------------------------------
(* Local.Get: the caller reads from the open file until its end. *)

\* errors.Is(err, os.ErrNotExist) does not hold of ENOTDIR.
Miss(p) == IF NotADirectory(p) THEN Error ELSE NotFound

\* open(2) takes a directory too; reading one fails.
GetOpen(s, k) ==
  /\ Begins(s, k)
  /\ LET p == path(k)
     IN  \/ /\ link[p] # NoFile
            /\ op' = [op EXCEPT ![s] =
                 Call("get", "read", k, <<>>, {link[p]} \ {Dir}, FALSE, Expected(s, k))]
            /\ Silent
         \/ /\ link[p] = NoFile
            /\ Answer("get", Miss(p), Expected(s, k))
            /\ UNCHANGED op
  /\ UNCHANGED <<link, data, stored, spoilt, offered, writes>>

GetRead(s) ==
  /\ op[s].pc = "read"
  /\ \/ \E i \in op[s].open :
          \/ /\ op[s].off < Len(data[i])
             /\ op' = [op EXCEPT ![s].off = @ + 1,
                                 ![s].blob = Append(@, data[i][op[s].off + 1])]
             /\ UNCHANGED <<link, data>> /\ Silent
          \/ /\ op[s].off >= Len(data[i])
             /\ Return(s, op[s].blob)
     \/ op[s].open = {} /\ Return(s, Error)
  /\ UNCHANGED <<stored, spoilt, offered, writes>>

-----------------------------------------------------------------------------
(* Local.Stat: the file, then the sum beside it, or "" when that is not    *)
(* there or cannot be read.                                                *)

StatFile(s, k) ==
  /\ Begins(s, k)
  /\ LET p == path(k)
     IN  \/ /\ link[p] # NoFile
            /\ op' = [op EXCEPT ![s] =
                 Call("stat", "readsum", k, <<>>, {}, FALSE, Expected(s, k))]
            /\ Silent
         \/ /\ link[p] = NoFile
            /\ Answer("stat", Miss(p), Expected(s, k))
            /\ UNCHANGED op
  /\ UNCHANGED <<link, data, stored, spoilt, offered, writes>>

StatSum(s) ==
  /\ op[s].pc = "readsum"
  /\ LET p == sumPath(op[s].key)
     IN  \/ IsFile(p) /\ Return(s, data[link[p]])
         \/ (Faults \/ ~IsFile(p)) /\ Return(s, <<>>)
  /\ UNCHANGED <<stored, spoilt, offered, writes>>

-----------------------------------------------------------------------------
(* Local.Delete *)

\* Mutant: a directory is moved away with what it holds.
DeleteFileAny(s, k) ==
  /\ BeginsWrite(s, k)
  /\ LET p == path(k)
     IN  /\ link[p] # NoFile
         /\ System([link EXCEPT ![p] = NoFile],
                  [Disturbed(s, k, NoFile) EXCEPT ![s] =
                     Call("delete", "unsum", k, <<>>, {}, Calm(s, k), Expected(s, k))],
                  data)
  /\ spoilt' = spoilt \cup Near(k)
  /\ UNCHANGED <<stored, offered>> /\ Silent

DeleteFile(s, k) ==
  /\ BeginsWrite(s, k)
  /\ LET p == path(k)
     IN  /\ link[p] # NoFile /\ ~DirectoryInUse(p)
         /\ System([link EXCEPT ![p] = NoFile],
                  [Disturbed(s, k, NoFile) EXCEPT ![s] =
                     Call("delete", "unsum", k, <<>>, {}, Calm(s, k), Expected(s, k))],
                  data)
  /\ spoilt' = spoilt \cup Near(k)
  /\ UNCHANGED <<stored, offered>> /\ Silent

DeleteRefused(s, k) ==
  /\ BeginsWrite(s, k)
  /\ LET p == path(k)
     IN  \/ link[p] = NoFile /\ Answer("delete", Miss(p), Expected(s, k))
         \/ DirectoryInUse(p) /\ Answer("delete", Error, Expected(s, k))
         \/ Faults /\ Answer("delete", Error, Unknown)
  /\ UNCHANGED <<link, data, op, stored, spoilt, offered>>

\* Mutant: the error of the second Remove is returned.
DeleteSumReports(s) ==
  /\ op[s].pc = "unsum"
  /\ LET p == sumPath(op[s].key)
         removed == [link EXCEPT ![p] = IF DirectoryInUse(p) THEN @ ELSE NoFile]
     IN  \E l \in {removed} \cup IF Faults THEN {link} ELSE {} :
           /\ System(l, [op EXCEPT ![s] = Idle], data)
           /\ Answer("delete", IF l = removed THEN Ok ELSE Error, op[s].want)
  /\ stored' = [stored EXCEPT ![op[s].key] = Absent]
  /\ spoilt' = IF op[s].calm THEN spoilt \ {op[s].key} ELSE spoilt
  /\ UNCHANGED <<offered, writes>>

(* The sum is removed as far as possible; what that answers is dropped. *)
DeleteSum(s) ==
  /\ op[s].pc = "unsum"
  /\ LET p == sumPath(op[s].key)
         removed == [link EXCEPT ![p] = IF DirectoryInUse(p) THEN @ ELSE NoFile]
     IN  \E l \in {removed} \cup IF Faults THEN {link} ELSE {} :
           System(l, [op EXCEPT ![s] = Idle], data)
  /\ stored' = [stored EXCEPT ![op[s].key] = Absent]
  /\ spoilt' = IF op[s].calm THEN spoilt \ {op[s].key} ELSE spoilt
  /\ Answer("delete", Ok, op[s].want)
  /\ UNCHANGED <<offered, writes>>

-----------------------------------------------------------------------------
Crash ==
  /\ Faults /\ \E s \in Slots : op[s] # Idle
  /\ System(link, [s \in Slots |-> Idle], data)
  /\ UNCHANGED <<stored, spoilt, offered, writes>> /\ Silent

Next ==
  \/ \E s \in Slots, k \in Keys :
       \/ \E blob \in Blobs : PutCreate(s, k, blob)
       \/ PutRefused(s, k) \/ GetOpen(s, k) \/ StatFile(s, k)
       \/ DeleteFile(s, k) \/ DeleteRefused(s, k)
  \/ \E s \in Slots :
       \/ PutCopy(s) \/ PutSum(s) \/ PutDone(s) \/ PutFails(s)
       \/ GetRead(s) \/ StatSum(s) \/ DeleteSum(s)
  \/ Crash

Spec == Init /\ [][Next]_vars

-----------------------------------------------------------------------------
(* The production back end: what s3.go's Get and Stat, one request each,   *)
(* answer when the bucket holds object v, or none: isS3NotFound, the body, *)
(* the sum as the server reports it (one that reports none unasked leaves  *)
(* Stat's sum empty).                                                      *)
S3Get(v) == IF v = Absent THEN NotFound ELSE v

S3Stat(v) == IF v = Absent THEN NotFound ELSE Digest(v)

-----------------------------------------------------------------------------
(* Properties *)

\* The locals of a call.
Calls ==
  [kind : {"none", "put", "get", "stat", "delete"},
   pc   : {"idle", "copy", "sum", "read", "readsum", "unsum"},
   key  : ValidKeys \cup {<<>>}, blob : Seq(Chunks), open : SUBSET Inodes,
   off  : Nat, calm : BOOLEAN, want : Blobs \cup {Absent, Unknown}]

(* Every variable keeps its type, no two paths share an inode, and what    *)
(* exists lies in directories.                                             *)
TypeOK ==
  /\ link \in [Paths -> Inodes \cup {Dir, NoFile}]
  /\ data \in [Inodes -> Seq(Chunks)]
  /\ op \in [Slots -> Calls]
  /\ \A p, q \in Paths : IsFile(p) /\ link[p] = link[q] => p = q
  /\ \A p \in Paths, q \in Paths :
       q \in Above(p) /\ link[p] # NoFile => link[q] = Dir
  /\ stored \in [ValidKeys -> Blobs \cup {Absent}]
  /\ spoilt \subseteq ValidKeys

\* What the files show of key k.
Object(k) == IF IsFile(path(k)) THEN data[link[path(k)]] ELSE Absent

(* A key whose last writer ran to its end without another writer near it   *)
(* shows that writer's object, and beside it the object's own sum, however *)
(* reads, failed calls and crashes fell (local.go:34).                     *)
IntactUnlessSpoilt ==
  \A k \in ValidKeys \ spoilt :
    /\ Object(k) = stored[k]
    /\ stored[k] # Absent =>
         /\ IsFile(sumPath(k))
         /\ data[link[sumPath(k)]] = Digest(stored[k])

\* The sum beside path p is that of the content of p.
SumFits(p, q) ==
  IsFile(p) /\ IsFile(q) /\ data[link[q]] = Digest(data[link[p]])

(* The sum beside an object vouches for it, whoever wrote at once, failed   *)
(* or died half-way: content that its sum fits is one that a caller put     *)
(* under this key, never a part of one or a mixture of two, for the sum is  *)
(* taken of what was read, not of what the file holds (local.go:44, :54).   *)
SumVouches ==
  \A k \in ValidKeys :
    SumFits(path(k), sumPath(k)) => <<path(k), Object(k)>> \in offered

(* A call that met no other writer answers what S3 answers for the version *)
(* it found; a read goes on with that version while others delete or       *)
(* replace the object.  Two differences are left: S3 deletes what is not   *)
(* there without a word, Local reports ErrNotFound (s3.go:100); and Local  *)
(* answers an object without its sum when the sum cannot be read           *)
(* (local.go:104).                                                         *)
AnswersAsS3 ==
  LET v == last.want
  IN  v # Unknown =>
        CASE last.kind = "get"    -> last.result = S3Get(v)
          [] last.kind = "stat"   -> \/ last.result = S3Stat(v)
                                     \/ Faults /\ v # Absent /\ last.result = <<>>
          [] last.kind = "delete" ->
               last.result = IF v = Absent THEN NotFound ELSE Ok
          [] OTHER -> TRUE
=============================================================================
