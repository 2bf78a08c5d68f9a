--------------------------- MODULE UploadsProofs ----------------------------
(***************************************************************************)
(* Theorems about Uploads, for any number of requests, paths and lengths:  *)
(* no helper loses a file handle, what a path leads to when the saves to   *)
(* it are over was saved, a JSON body is accepted only if it is one value, *)
(* and an integer the type asked for has comes out unchanged.              *)
(***************************************************************************)
EXTENDS Uploads, FiniteSetTheorems, SequenceTheorems, WellFoundedInduction, TLAPS

States == {"new", "create", "copy", "close", "settle", "opening", "done"}

\* A helper at work has no result yet.
Progress ==
    /\ pc \in [Requests -> States]
    /\ parts \in [Requests -> Seq(Nat)]
    /\ DOMAIN open = Requests /\ DOMAIN result = Requests
    /\ \A r \in Requests : pc[r] # "done" => result[r] = Pending

(***************************************************************************)
(* Handles.  FormFiles has the first files of the field open.              *)
(***************************************************************************)
Opened ==
    \A r \in Requests :
        /\ pc[r] = "new" => open[r] = {}
        /\ pc[r] = "opening" => \E n \in Nat : n <= Len(parts[r]) /\ open[r] = 1..n

HandleInv == Progress /\ Opened /\ HandlesAreReturned

\* What the steps of r do to the handles and the result of r.
Moves(r) ==
    \/ /\ \E s \in States \ {"new", "opening", "done"} : pc' = [pc EXCEPT ![r] = s]
       /\ pc[r] # "done" /\ UNCHANGED result
    \/ \E answer : answer.is # "files" /\ Return(r, answer, {})

LEMMA MovesKeep ==
    ASSUME HandleInv, NEW r \in Requests, Moves(r),
           parts' \in [Requests -> Seq(Nat)], \A q \in Requests \ {r} : parts'[q] = parts[q],
           UNCHANGED open \/ \E h : open' = [open EXCEPT ![r] = h]
    PROVE  HandleInv'
  <1> USE DEF HandleInv
  <1>1. \A q \in Requests \ {r} : pc'[q] = pc[q] /\ open'[q] = open[q] /\ result'[q] = result[q]
    BY DEF Moves, Return, Progress
  <1>2. Progress'
    BY DEF Progress, Moves, Return, States
  <1>3. Opened'
    <2>1. pc'[r] \notin {"new", "opening"}
      BY DEF Moves, Return, Progress, States
    <2>. QED  BY <1>1, <2>1 DEF Opened
  <1>4. HandlesAreReturned'
    BY <1>1 DEF HandlesAreReturned, Progress, Moves, Return, States
  <1>. QED  BY <1>2, <1>3, <1>4

LEMMA FieldTaken ==
    ASSUME Progress, NEW r \in Requests, parts' \in {[parts EXCEPT ![r] = field] : field \in Fields}
    PROVE  parts' \in [Requests -> Seq(Nat)] /\ \A q \in Requests \ {r} : parts'[q] = parts[q]
  BY UploadsAssumption DEF Progress

LEMMA HandlesStep == HandleInv /\ [Next]_vars => HandleInv'
  <1> SUFFICES ASSUME HandleInv, [Next]_vars PROVE HandleInv'
    OBVIOUS
  <1>1. ASSUME NEW r \in Requests, Save(r) PROVE HandleInv'
    <2>1. CASE FormFile(r)
      <3>1. pc[r] = "new" /\ Moves(r) /\ \E h : open' = [open EXCEPT ![r] = h]
        BY <2>1 DEF FormFile, Moves, Return, Failure, States
      <3>2. parts' \in [Requests -> Seq(Nat)] /\ \A q \in Requests \ {r} : parts'[q] = parts[q]
        BY <2>1, FieldTaken DEF FormFile, HandleInv
      <3>. QED  BY <3>1, <3>2, MovesKeep
    <2>2. CASE \E p \in Paths : OpenFile(r, p)
      <3>1. Moves(r) /\ UNCHANGED parts /\ \E h : open' = [open EXCEPT ![r] = h]
        BY <2>2 DEF OpenFile, Moves, Return, Failure, States
      <3>. QED  BY <3>1, MovesKeep DEF HandleInv, Progress
    <2>3. CASE CopyByte(r)
      <3>1. Moves(r) /\ UNCHANGED <<parts, open>>
        <4>1. pc' = [pc EXCEPT ![r] = "copy"]
          BY <2>3 DEF CopyByte, HandleInv, Progress
        <4>. QED  BY <2>3, <4>1 DEF CopyByte, Moves, States
      <3>. QED  BY <3>1, MovesKeep DEF HandleInv, Progress
    <2>4. CASE CopyEnds(r)
      <3>1. Moves(r) /\ UNCHANGED <<parts, open>>
        BY <2>4 DEF CopyEnds, Moves, States
      <3>. QED  BY <3>1, MovesKeep DEF HandleInv, Progress
    <2>5. CASE Close(r)
      <3>1. Moves(r) /\ UNCHANGED parts /\ open' = [open EXCEPT ![r] = open[r] \ {Dst}]
        BY <2>5 DEF Close, Moves, States
      <3>. QED  BY <3>1, MovesKeep DEF HandleInv, Progress
    <2>6. CASE Settle(r)
      <3>1. \E answer : answer.is # "files" /\ Return(r, answer, {})
        BY <2>6 DEF Settle, Failure
      <3>2. UNCHANGED parts /\ \E h : open' = [open EXCEPT ![r] = h]
        BY <2>6, <3>1 DEF Settle, Return
      <3>. QED  BY <3>1, <3>2, MovesKeep DEF HandleInv, Progress, Moves
    <2>. QED  BY <1>1, <2>1, <2>2, <2>3, <2>4, <2>5, <2>6 DEF Save
  <1>2. ASSUME NEW r \in Requests, FormFiles(r) PROVE HandleInv'
    <2>1. pc[r] = "new" /\ parts' \in [Requests -> Seq(Nat)] /\ \A q \in Requests \ {r} : parts'[q] = parts[q]
      BY <1>2, FieldTaken DEF FormFiles, HandleInv
    <2>2. CASE \E answer : answer.is # "files" /\ Return(r, answer, {})
      <3>1. Moves(r) /\ \E h : open' = [open EXCEPT ![r] = h]
        BY <2>2 DEF Moves, Return
      <3>. QED  BY <2>1, <3>1, MovesKeep
    <2>3. CASE pc' = [pc EXCEPT ![r] = "opening"] /\ UNCHANGED <<open, result>>
      <3>1. open[r] = 1..0 /\ Len(parts'[r]) \in Nat
        BY <2>1 DEF HandleInv, Opened
      <3>2. Progress'
        BY <2>1, <2>3 DEF HandleInv, Progress, States
      <3>3. \A q \in Requests \ {r} : pc'[q] = pc[q] /\ open'[q] = open[q] /\ result'[q] = result[q]
        BY <2>3 DEF HandleInv, Progress
      <3>4. Opened'
        <4>1. pc'[r] = "opening" /\ 0 <= Len(parts'[r]) /\ open'[r] = 1..0
          BY <2>3, <3>1 DEF HandleInv, Progress
        <4>. QED  BY <2>1, <3>3, <4>1 DEF HandleInv, Opened
      <3>5. HandlesAreReturned'
        BY <2>3 DEF HandleInv, HandlesAreReturned, Progress
      <3>. QED  BY <3>2, <3>4, <3>5 DEF HandleInv
    <2>. QED  BY <1>2, <2>2, <2>3 DEF FormFiles, Failure
  <1>3. ASSUME NEW r \in Requests, OpenNext(r) PROVE HandleInv'
    <2>1. PICK n \in Nat : n <= Len(parts[r]) /\ open[r] = 1..n
      BY <1>3 DEF OpenNext, HandleInv, Opened
    <2>2. Cardinality(open[r]) + 1 = n + 1
      <3>1. Cardinality(1..n) = n
        BY FS_Interval
      <3>. QED  BY <2>1, <3>1
    <2>3. pc[r] = "opening" /\ UNCHANGED parts /\ Len(parts[r]) \in Nat
      BY <1>3 DEF OpenNext, HandleInv, Progress
    <2>4. CASE n + 1 > Len(parts[r]) /\ Return(r, [is |-> "files", count |-> Len(parts[r])], open[r])
      <3>1. n = Len(parts[r])
        BY <2>1, <2>3, <2>4
      <3>2. \A q \in Requests \ {r} : pc'[q] = pc[q] /\ open'[q] = open[q] /\ result'[q] = result[q]
        BY <2>4 DEF Return, HandleInv, Progress
      <3>3. Progress'
        BY <2>3, <2>4 DEF Return, HandleInv, Progress, States
      <3>4. pc'[r] = "done" /\ open'[r] = 1..Len(parts[r]) /\ result'[r] = [is |-> "files", count |-> Len(parts[r])]
        BY <2>1, <2>4, <3>1 DEF Return, HandleInv, Progress
      <3>5. Opened'
        BY <2>3, <3>2, <3>4 DEF HandleInv, Opened
      <3>6. HandlesAreReturned'
        BY <3>2, <3>4 DEF HandleInv, HandlesAreReturned
      <3>. QED  BY <3>3, <3>5, <3>6 DEF HandleInv
    <2>5. CASE n + 1 <= Len(parts[r]) /\ open' = [open EXCEPT ![r] = @ \cup {n + 1}] /\ UNCHANGED <<pc, result>>
      <3>1. open'[r] = 1..(n + 1) /\ \A q \in Requests \ {r} : open'[q] = open[q]
        BY <2>1, <2>5 DEF HandleInv, Progress
      <3>2. Progress'
        BY <2>3, <2>5 DEF HandleInv, Progress
      <3>3. Opened'
        <4>1. n + 1 \in Nat /\ n + 1 <= Len(parts'[r]) /\ pc'[r] = "opening"
          BY <2>3, <2>5
        <4>. QED  BY <2>3, <2>5, <3>1, <4>1 DEF HandleInv, Opened
      <3>4. HandlesAreReturned'
        BY <2>3, <2>5, <3>1 DEF HandleInv, HandlesAreReturned
      <3>. QED  BY <3>2, <3>3, <3>4 DEF HandleInv
    <2>6. CASE Return(r, Failure("open"), LeftOpen(r))
      <3>1. Moves(r) /\ \E h : open' = [open EXCEPT ![r] = h]
        BY <2>6 DEF Moves, Return, Failure, LeftOpen
      <3>. QED  BY <2>3, <3>1, MovesKeep DEF HandleInv, Progress
    <2>. QED  BY <1>3, <2>2, <2>4, <2>5, <2>6 DEF OpenNext
  <1>4. ASSUME NEW r \in Requests,
               \/ \E body \in Bodies : DecodeJSON(r, body)
               \/ \E k \in Kinds, n \in -Wide..Wide : QueryInt(r, n, k)
        PROVE  HandleInv'
    <2>1. UNCHANGED parts
      BY <1>4 DEF DecodeJSON, QueryInt
    <2>2. \E answer : answer.is # "files" /\ Return(r, answer, {})
      <3>1. ASSUME NEW body \in Bodies, DecodeJSON(r, body)
            PROVE  \E answer : answer.is # "files" /\ Return(r, answer, {})
        <4>1. PICK a : Return(r, [[is |-> "json", body |-> body, answer |-> "read"] EXCEPT !.answer = a], {})
                       \/ Return(r, [is |-> "json", body |-> body, answer |-> "read"], {})
          BY <3>1 DEF DecodeJSON
        <4>. QED  BY <4>1
      <3>2. ASSUME NEW k, NEW n, QueryInt(r, n, k)
            PROVE  \E answer : answer.is # "files" /\ Return(r, answer, {})
        BY <3>2 DEF QueryInt
      <3>. QED  BY <1>4, <3>1, <3>2
    <2>3. Moves(r) /\ \E h : open' = [open EXCEPT ![r] = h]
      BY <2>2 DEF Moves, Return
    <2>. QED  BY <2>1, <2>3, MovesKeep DEF HandleInv, Progress
  <1>5. CASE UNCHANGED vars
    BY <1>5 DEF vars, HandleInv, Progress, Opened, HandlesAreReturned
  <1>. QED  BY <1>1, <1>2, <1>3, <1>4, <1>5 DEF Next

\* For any number of files in a field and wherever opening one fails: a helper
\* that has returned holds the handles it returned and no other.
THEOREM NoHandleLost == Spec => []HandlesAreReturned
  <1>1. Init => HandleInv
    BY DEF Init, HandleInv, Progress, Opened, HandlesAreReturned, States
  <1>2. HandleInv => HandlesAreReturned
    BY DEF HandleInv
  <1>. QED  BY <1>1, <1>2, HandlesStep, PTL DEF Spec
-----------------------------------------------------------------------------
(***************************************************************************)
(* Bytes.  An inode is named after the request that made it and belongs to *)
(* the path that request saves to, so that whoever writes to what a path   *)
(* leads to is a save to that path.  A byte there is from before, or of a  *)
(* finished save, or of one that will remove the path if it fails; and the *)
(* same for bytes beyond the limit.                                        *)
(***************************************************************************)
Inodes == Requests \cup {Old}
Bytes == {Hole} \cup ({Old} \cup Requests) \X Nat

Disk ==
    /\ pc \in [Requests -> States]
    /\ DOMAIN result = Requests
    /\ path \in [Requests -> Paths \cup {None}]
    /\ ino \in [Requests -> Inodes \cup {None}]
    /\ written \in [Requests -> Nat]
    /\ failed \in [Requests -> BOOLEAN]
    /\ disk \in [Paths -> Inodes \cup {None}]
    /\ content \in [Inodes -> Seq(Bytes)]

Owned ==
    /\ \A p, q \in Paths : disk[p] = disk[q] /\ disk[p] # None => p = q
    /\ \A r \in Requests, p \in Paths : ino[r] = disk[p] /\ disk[p] # None => path[r] = p
    /\ \A r \in Requests : Saving(r) => path[r] \in Paths /\ ino[r] # None
    /\ \A r \in Requests : pc[r] \in {"new", "create"} =>
          ino[r] = None /\ (\A p \in Paths : disk[p] # r) /\ (\A q \in Requests : ino[q] # r)

\* r will settle, or has saved, what it wrote to i.
Vouched(r, i) == (Saving(r) /\ ino[r] = i) \/ (pc[r] = "done" /\ result[r].is = "saved")

Accounted ==
    \A p \in Paths : disk[p] # None =>
        /\ \A k \in DOMAIN content[disk[p]] :
              LET byte == content[disk[p]][k]
              IN  byte = Hole \/ byte[1] = Old \/ (byte[1] \in Requests /\ Vouched(byte[1], disk[p]))
        /\ \/ Len(content[disk[p]]) <= MaxBytes
           \/ \E r \in Requests : Saving(r) /\ ino[r] = disk[p] /\ written[r] > MaxBytes

ByteInv == Disk /\ Owned /\ Accounted

LEMMA Distinct == None \notin Inodes /\ Old \notin Requests /\ None \notin Requests /\ None \notin Paths
  BY UploadsAssumption DEF None, Old, Inodes

\* What WriteAt makes of a sequence.
LEMMA WriteAtSeq ==
    ASSUME NEW bytes \in Seq(Bytes), NEW at \in Nat, NEW byte \in Bytes
    PROVE  /\ WriteAt(bytes, at, byte) \in Seq(Bytes)
           /\ Len(WriteAt(bytes, at, byte)) = IF at < Len(bytes) THEN Len(bytes) ELSE at + 1
           /\ \A k \in DOMAIN WriteAt(bytes, at, byte) :
                 \/ WriteAt(bytes, at, byte)[k] \in {byte, Hole}
                 \/ k \in DOMAIN bytes /\ WriteAt(bytes, at, byte)[k] = bytes[k]
  <1> DEFINE n == IF at < Len(bytes) THEN Len(bytes) ELSE at + 1
             w == [k \in 1..n |-> IF k = at + 1 THEN byte ELSE IF k \in DOMAIN bytes THEN bytes[k] ELSE Hole]
  <1>1. n \in Nat
    OBVIOUS
  <1>2. WriteAt(bytes, at, byte) = w
    BY DEF WriteAt
  <1>3. \A k \in 1..n : w[k] \in Bytes
    BY DEF Bytes
  <1> HIDE DEF n
  <1>4. w \in Seq(Bytes) /\ Len(w) = n
    BY <1>1, <1>3
  <1>5. \A k \in DOMAIN w : w[k] \in {byte, Hole} \/ (k \in DOMAIN bytes /\ w[k] = bytes[k])
    OBVIOUS
  <1>. QED  BY <1>2, <1>4, <1>5 DEF n

LEMMA ByteInit == Init => ByteInv
  <1> SUFFICES ASSUME Init PROVE ByteInv
    OBVIOUS
  <1> USE Distinct
  <1>1. content \in [Inodes -> Seq(Bytes)]
    <2>1. <<<<Old, 1>>>> \in Seq(Bytes) /\ <<>> \in Seq(Bytes)
      BY DEF Bytes
    <2>. QED  BY <2>1 DEF Init, Inodes
  <1>2. Disk
    BY <1>1 DEF Init, Disk, States, Inodes
  <1>3. Owned
    BY DEF Init, Owned, Saving, Inodes
  <1>4. Accounted
    <2>1. ASSUME NEW p \in Paths, disk[p] # None PROVE content[disk[p]] = <<<<Old, 1>>>>
      BY <2>1 DEF Init
    <2>2. MaxBytes >= 1 /\ MaxBytes \in Nat
      BY UploadsAssumption
    <2>3. Len(<<<<Old, 1>>>>) = 1 /\ \A k \in DOMAIN <<<<Old, 1>>>> : <<<<Old, 1>>>>[k][1] = Old
      OBVIOUS
    <2>. QED  BY <2>1, <2>2, <2>3 DEF Accounted
  <1>. QED  BY <1>2, <1>3, <1>4 DEF ByteInv

\* Steps that touch no file: nobody stops saving who has to settle.
LEMMA FilesUntouched ==
    ASSUME ByteInv, Disk', UNCHANGED fileVars,
           \A r \in Requests : Saving(r)' = Saving(r) /\ (pc'[r] \in {"new", "create"} => pc[r] \in {"new", "create"}),
           \A r \in Requests : Saving(r) => path'[r] = path[r],
           \A r \in Requests : path'[r] = path[r] \/ ino[r] = None,
           \A r \in Requests : written'[r] = written[r],
           \A r \in Requests : pc[r] = "done" => pc'[r] = "done" /\ result'[r] = result[r]
    PROVE  ByteInv'
  <1> USE Distinct
  <1>1. Owned'
    BY DEF ByteInv, Owned, fileVars, Disk
  <1>2. \A r \in Requests : \A i : Vouched(r, i) => Vouched(r, i)'
    BY DEF Vouched, fileVars
  <1>3. Accounted'
    BY <1>2 DEF ByteInv, Accounted, fileVars
  <1>. QED  BY <1>1, <1>3 DEF ByteInv

LEMMA OpenFileBytes ==
    ASSUME ByteInv, NEW r \in Requests, NEW p \in Paths, OpenFile(r, p)
    PROVE  ByteInv'
  <1> USE Distinct
  <1>1. pc[r] = "create" /\ ino[r] = None /\ ~Saving(r)
    BY DEF OpenFile, ByteInv, Owned, Saving
  <1>2. CASE Return(r, Failure("create"), {}) /\ UNCHANGED fileVars
    <2>1. Disk'
      BY <1>2 DEF OpenFile, Return, ByteInv, Disk, fileVars, States
    <2>2. \A q \in Requests : Saving(q)' = Saving(q) /\ (pc'[q] \in {"new", "create"} => pc[q] \in {"new", "create"})
      BY <1>1, <1>2 DEF Return, ByteInv, Disk, Saving
    <2>3. \A q \in Requests : /\ (Saving(q) => path'[q] = path[q]) /\ (path'[q] = path[q] \/ ino[q] = None)
                              /\ written'[q] = written[q]
                              /\ (pc[q] = "done" => pc'[q] = "done" /\ result'[q] = result[q])
      BY <1>1, <1>2 DEF OpenFile, Return, ByteInv, Disk
    <2>. QED  BY <1>2, <2>1, <2>2, <2>3, FilesUntouched
  <1>3. ASSUME pc' = [pc EXCEPT ![r] = "copy"], UNCHANGED <<result, written, failed>>,
               path' = [path EXCEPT ![r] = p],
               NEW i, i = IF disk[p] = None THEN r ELSE disk[p],
               disk' = [disk EXCEPT ![p] = i], ino' = [ino EXCEPT ![r] = i],
               content' = [content EXCEPT ![i] = <<>>]
        PROVE  ByteInv'
    <2>1. i \in Inodes /\ i # None
      BY <1>3 DEF ByteInv, Disk, Inodes
    <2>2. Disk'
      BY <1>3, <2>1 DEF ByteInv, Disk, States
    <2>3. \A q \in Paths \ {p} : disk'[q] = disk[q] /\ disk[q] # i
      <3>1. TAKE q \in Paths \ {p}
      <3>2. CASE disk[p] = None
        BY <1>1, <1>3, <3>2 DEF ByteInv, Disk, Owned
      <3>3. CASE disk[p] # None
        BY <1>3, <3>3 DEF ByteInv, Disk, Owned
      <3>. QED  BY <3>2, <3>3
    <2>4. \A q \in Requests \ {r} : /\ pc'[q] = pc[q] /\ path'[q] = path[q] /\ ino'[q] = ino[q]
                                    /\ (ino[q] = i => path[q] = p) /\ (pc[q] \in {"new", "create"} => q # i)
      <3>1. TAKE q \in Requests \ {r}
      <3>2. pc'[q] = pc[q] /\ path'[q] = path[q] /\ ino'[q] = ino[q]
        BY <1>3 DEF ByteInv, Disk
      <3>3. CASE disk[p] = None
        BY <1>1, <1>3, <3>2, <3>3 DEF ByteInv, Disk, Owned
      <3>4. CASE disk[p] # None
        BY <1>1, <1>3, <3>2, <3>4 DEF ByteInv, Disk, Owned
      <3>. QED  BY <3>3, <3>4
    <2>5. disk'[p] = i /\ ino'[r] = i /\ path'[r] = p /\ pc'[r] = "copy" /\ content'[i] = <<>>
      BY <1>3, <2>1 DEF ByteInv, Disk
    <2>6. Owned'
      BY <2>1, <2>3, <2>4, <2>5 DEF ByteInv, Owned, Saving
    <2>7. \A q \in Requests : \A j : Vouched(q, j) => Vouched(q, j)'
      BY <1>1, <1>3, <2>4 DEF Vouched, Saving
    <2>8. Accounted'
      <3>1. SUFFICES ASSUME NEW q \in Paths, disk'[q] # None
                     PROVE  (/\ \A k \in DOMAIN content[disk[q]] :
                                    LET byte == content[disk[q]][k]
                                    IN  byte = Hole \/ byte[1] = Old \/ (byte[1] \in Requests /\ Vouched(byte[1], disk[q]))
                             /\ \/ Len(content[disk[q]]) <= MaxBytes
                                \/ \E s \in Requests : Saving(s) /\ ino[s] = disk[q] /\ written[s] > MaxBytes)'
        BY DEF Accounted
      <3>2. CASE q = p
        <4>1. content'[disk'[q]] = <<>>
          BY <3>2, <2>5
        <4>2. 0 <= MaxBytes
          BY UploadsAssumption
        <4>. QED  BY <4>1, <4>2
      <3>3. CASE q # p
        <4>1. disk'[q] = disk[q] /\ content'[disk'[q]] = content[disk[q]] /\ disk[q] # None
          BY <1>3, <3>1, <3>3, <2>3 DEF ByteInv, Disk
        <4>2. \A s \in Requests : Saving(s) /\ ino[s] = disk[q] =>
                  Saving(s)' /\ ino'[s] = ino[s] /\ written'[s] = written[s]
          BY <1>1, <1>3, <2>4 DEF Saving
        <4>. QED  BY <4>1, <4>2, <2>7 DEF ByteInv, Accounted
      <3>. QED  BY <3>2, <3>3
    <2>. QED  BY <2>2, <2>6, <2>8 DEF ByteInv
  <1>. QED  BY <1>2, <1>3 DEF OpenFile, Truncated

LEMMA CopyByteBytes ==
    ASSUME ByteInv, NEW r \in Requests, CopyByte(r)
    PROVE  ByteInv'
  <1> USE Distinct
  <1> DEFINE i == ino[r]
             byte == <<r, written[r] + 1>>
  <1>1. /\ pc[r] = "copy" /\ UNCHANGED <<pc, path, ino, failed, disk, result>>
        /\ content' = [content EXCEPT ![i] = WriteAt(@, written[r], byte)]
        /\ written' = [written EXCEPT ![r] = @ + 1]
    BY DEF CopyByte
  <1>2. i \in Inodes /\ Saving(r) /\ written[r] \in Nat /\ content[i] \in Seq(Bytes)
    BY <1>1 DEF ByteInv, Disk, Owned, Saving
  <1>3. byte \in Bytes /\ byte[1] = r
    BY <1>2 DEF Bytes
  <1> HIDE DEF byte
  <1> DEFINE new == WriteAt(content[i], written[r], byte)
  <1>4. content'[i] = new /\ \A j \in Inodes \ {i} : content'[j] = content[j]
    BY <1>1, <1>2 DEF ByteInv, Disk
  <1>5. written'[r] = written[r] + 1 /\ \A q \in Requests \ {r} : written'[q] = written[q]
    BY <1>1, <1>2 DEF ByteInv, Disk
  <1>10. /\ new \in Seq(Bytes)
         /\ Len(new) = IF written[r] < Len(content[i]) THEN Len(content[i]) ELSE written[r] + 1
         /\ \A k \in DOMAIN new : new[k] \in {byte, Hole} \/ (k \in DOMAIN content[i] /\ new[k] = content[i][k])
    <2> DEFINE bytes == content[i]
               at == written[r]
    <2>1. bytes \in Seq(Bytes) /\ at \in Nat
      BY <1>2
    <2> HIDE DEF bytes, at
    <2>2. /\ WriteAt(bytes, at, byte) \in Seq(Bytes)
          /\ Len(WriteAt(bytes, at, byte)) = IF at < Len(bytes) THEN Len(bytes) ELSE at + 1
          /\ \A k \in DOMAIN WriteAt(bytes, at, byte) :
                \/ WriteAt(bytes, at, byte)[k] \in {byte, Hole}
                \/ k \in DOMAIN bytes /\ WriteAt(bytes, at, byte)[k] = bytes[k]
      BY <2>1, <1>3, WriteAtSeq
    <2>. QED  BY <2>2 DEF bytes, at
  <1> HIDE DEF new
  <1>6. Disk'
    <2>1. written' \in [Requests -> Nat]
      BY <1>1, <1>2 DEF ByteInv, Disk
    <2>2. content' = [content EXCEPT ![i] = new]
      BY <1>1 DEF new
    <2>3. content' \in [Inodes -> Seq(Bytes)]
      BY <1>10, <2>2 DEF ByteInv, Disk
    <2>. QED  BY <1>1, <2>1, <2>3 DEF ByteInv, Disk
  <1>7. Owned'
    BY <1>1 DEF ByteInv, Owned, Saving
  <1>8. \A q \in Requests : Saving(q)' = Saving(q) /\ \A j : Vouched(q, j)' = Vouched(q, j)
    BY <1>1 DEF Saving, Vouched
  <1>9. Accounted'
    <2>1. SUFFICES ASSUME NEW p \in Paths, disk[p] # None
                   PROVE  /\ \A k \in DOMAIN content'[disk[p]] :
                                LET b == content'[disk[p]][k]
                                IN  b = Hole \/ b[1] = Old \/ (b[1] \in Requests /\ Vouched(b[1], disk[p]))
                          /\ \/ Len(content'[disk[p]]) <= MaxBytes
                             \/ \E s \in Requests : Saving(s) /\ ino[s] = disk[p] /\ written'[s] > MaxBytes
      BY <1>1, <1>8 DEF Accounted
    <2>2. disk[p] \in Inodes
      BY <2>1 DEF ByteInv, Disk
    <2>3. CASE disk[p] # i
      <3>1. content'[disk[p]] = content[disk[p]]
        BY <1>4, <2>2, <2>3
      <3>2. MaxBytes \in Nat /\ \A q \in Requests : written[q] \in Nat /\ written'[q] \in Nat
        BY <1>6, UploadsAssumption DEF ByteInv, Disk
      <3>. QED  BY <2>1, <3>1, <3>2, <1>5 DEF ByteInv, Accounted
    <2>4. CASE disk[p] = i
      <3>2. byte[1] = r /\ Vouched(r, i)
        BY <1>2, <1>3 DEF Vouched
      <3>8. \A k \in DOMAIN content[i] :
                \/ content[i][k] = Hole \/ content[i][k][1] = Old
                \/ content[i][k][1] \in Requests /\ Vouched(content[i][k][1], i)
        BY <2>1, <2>4 DEF ByteInv, Accounted
      <3>3. \A k \in DOMAIN new :
                \/ new[k] = Hole \/ new[k][1] = Old
                \/ new[k][1] \in Requests /\ Vouched(new[k][1], i)
        BY <1>10, <3>2, <3>8
      <3>4. Len(content'[i]) = IF written[r] < Len(content[i]) THEN Len(content[i]) ELSE written[r] + 1
        BY <1>4, <1>10
      <3>5. MaxBytes \in Nat /\ Len(content[i]) \in Nat /\ \A q \in Requests : written[q] \in Nat /\ written'[q] \in Nat
        BY <1>2, <1>6, UploadsAssumption DEF ByteInv, Disk
      <3>6. \/ Len(content[i]) <= MaxBytes
            \/ \E s \in Requests : Saving(s) /\ ino[s] = i /\ written[s] > MaxBytes
        BY <2>1, <2>4 DEF ByteInv, Accounted
      <3>7. \/ Len(content'[i]) <= MaxBytes
            \/ \E s \in Requests : Saving(s) /\ ino[s] = i /\ written'[s] > MaxBytes
        <4>1. CASE written[r] < Len(content[i])
          BY <3>4, <3>5, <3>6, <1>5, <4>1
        <4>2. CASE ~(written[r] < Len(content[i]))
          BY <3>4, <3>5, <1>2, <1>5, <4>2
        <4>. QED  BY <4>1, <4>2
      <3>. QED  BY <2>4, <3>3, <3>7, <1>4
    <2>. QED  BY <2>3, <2>4
  <1>. QED  BY <1>6, <1>7, <1>9 DEF ByteInv

\* Settling removes the path, or vouches for the bytes.
LEMMA SettleBytes ==
    ASSUME ByteInv, NEW r \in Requests, Settle(r)
    PROVE  ByteInv'
  <1> USE Distinct
  <1>1. /\ Saving(r) /\ path[r] \in Paths /\ pc[r] = "settle"
        /\ UNCHANGED <<path, ino, written, failed, content>>
        /\ disk' = [disk EXCEPT ![path[r]] = IF Unwanted(r) THEN None ELSE @]
        /\ pc' = [pc EXCEPT ![r] = "done"]
    BY DEF Settle, Saving, ByteInv, Owned, Return
  <1>2. ~Unwanted(r) => result'[r].is = "saved"
    BY DEF Settle, Unwanted, Return, Failure, ByteInv, Disk
  <1>3. DOMAIN result' = Requests /\ \A q \in Requests \ {r} : result'[q] = result[q] /\ pc'[q] = pc[q]
    BY <1>1 DEF Settle, Return, ByteInv, Disk
  <1>4. Disk'
    BY <1>1, <1>3 DEF ByteInv, Disk, States
  <1>5. \A p \in Paths : disk'[p] # None => disk'[p] = disk[p] /\ (p = path[r] => ~Unwanted(r))
    BY <1>1 DEF ByteInv, Disk
  <1>6. pc'[r] = "done" /\ \A q \in Requests \ {r} : Saving(q)' = Saving(q)
    BY <1>1, <1>3 DEF Saving, ByteInv, Disk
  <1>7. Owned'
    BY <1>1, <1>3, <1>5, <1>6 DEF ByteInv, Owned, Saving
  <1>8. ASSUME NEW p \in Paths, disk'[p] # None, NEW q \in Requests, Vouched(q, disk[p])
        PROVE  Vouched(q, disk[p])'
    <2>1. disk'[p] = disk[p] /\ disk[p] # None
      BY <1>5, <1>8
    <2>2. CASE q # r
      BY <1>1, <1>3, <1>6, <1>8, <2>1, <2>2 DEF Vouched
    <2>3. CASE q = r
      <3>1. ino[r] = disk[p]
        BY <1>1, <1>8, <2>3 DEF Vouched
      <3>2. p = path[r]
        BY <2>1, <3>1 DEF ByteInv, Owned
      <3>. QED  BY <1>2, <1>5, <1>6, <1>8, <2>3, <3>2 DEF Vouched
    <2>. QED  BY <2>2, <2>3
  <1>9. Accounted'
    <2>1. SUFFICES ASSUME NEW p \in Paths, disk'[p] # None
                   PROVE  (/\ \A k \in DOMAIN content[disk[p]] :
                                LET byte == content[disk[p]][k]
                                IN  byte = Hole \/ byte[1] = Old \/ (byte[1] \in Requests /\ Vouched(byte[1], disk[p]))
                           /\ \/ Len(content[disk[p]]) <= MaxBytes
                              \/ \E s \in Requests : Saving(s) /\ ino[s] = disk[p] /\ written[s] > MaxBytes)'
      BY DEF Accounted
    <2>2. disk'[p] = disk[p] /\ content'[disk'[p]] = content[disk[p]] /\ disk[p] # None
      BY <1>1, <1>5, <2>1
    <2>3. \A k \in DOMAIN content[disk[p]] :
                LET byte == content[disk[p]][k]
                IN  byte = Hole \/ byte[1] = Old \/ (byte[1] \in Requests /\ Vouched(byte[1], disk[p])')
      BY <2>1, <2>2, <1>8 DEF ByteInv, Accounted
    <2>4. \/ Len(content[disk[p]]) <= MaxBytes
          \/ \E s \in Requests : Saving(s)' /\ ino[s] = disk[p] /\ written[s] > MaxBytes
      <3>1. ASSUME NEW s \in Requests, Saving(s), ino[s] = disk[p], written[s] > MaxBytes
            PROVE  Saving(s)'
        <4>1. CASE s # r
          BY <1>6, <3>1, <4>1
        <4>2. CASE s = r
          <5>1. p = path[r] /\ Unwanted(r)
            BY <2>2, <3>1, <4>2 DEF ByteInv, Owned, Unwanted
          <5>. QED  BY <1>5, <2>1, <5>1
        <4>. QED  BY <4>1, <4>2
      <3>. QED  BY <2>2, <3>1 DEF ByteInv, Accounted
    <2>. QED  BY <1>1, <2>2, <2>3, <2>4 DEF Vouched
  <1>. QED  BY <1>4, <1>7, <1>9 DEF ByteInv

LEMMA ByteStep == ByteInv /\ [Next]_vars => ByteInv'
  <1> SUFFICES ASSUME ByteInv, [Next]_vars PROVE ByteInv'
    OBVIOUS
  <1>1. ASSUME NEW r \in Requests, CopyEnds(r) \/ Close(r) PROVE ByteInv'
    <2>1. Disk' /\ UNCHANGED <<fileVars, path, written, result>>
      BY <1>1 DEF CopyEnds, Close, ByteInv, Disk, fileVars, States
    <2>2. \A q \in Requests : /\ Saving(q)' = Saving(q)
                              /\ (pc'[q] \in {"new", "create"} => pc[q] \in {"new", "create"})
                              /\ (pc[q] = "done" => pc'[q] = "done")
      BY <1>1 DEF CopyEnds, Close, Saving, ByteInv, Disk
    <2>. QED  BY <2>1, <2>2, FilesUntouched
  <1>2. ASSUME NEW r \in Requests, UNCHANGED <<path, written, failed, fileVars>>,
               pc[r] \in {"new", "opening"},
               \/ \E answer, h : Return(r, answer, h)
               \/ pc[r] = "new" /\ pc' \in {[pc EXCEPT ![r] = s] : s \in {"create", "opening"}} /\ UNCHANGED result
               \/ UNCHANGED <<pc, result>>
        PROVE  ByteInv'
    <2>1. Disk'
      BY <1>2 DEF Return, ByteInv, Disk, fileVars, States
    <2>2. \A q \in Requests : /\ Saving(q)' = Saving(q)
                              /\ (pc'[q] \in {"new", "create"} => pc[q] \in {"new", "create"})
                              /\ (pc[q] = "done" => pc'[q] = "done" /\ result'[q] = result[q])
      BY <1>2 DEF Return, Saving, ByteInv, Disk
    <2>. QED  BY <1>2, <2>1, <2>2, FilesUntouched
  <1>3. ASSUME NEW r \in Requests, FormFile(r) \/ FormFiles(r) PROVE ByteInv'
    BY <1>2, <1>3 DEF FormFile, FormFiles
  <1>4. ASSUME NEW r \in Requests, OpenNext(r) PROVE ByteInv'
    BY <1>2, <1>4 DEF OpenNext
  <1>5. ASSUME NEW r \in Requests, NEW body, DecodeJSON(r, body) PROVE ByteInv'
    BY <1>2, <1>5 DEF DecodeJSON
  <1>6. ASSUME NEW r \in Requests, NEW n, NEW k, QueryInt(r, n, k) PROVE ByteInv'
    BY <1>2, <1>6 DEF QueryInt
  <1>7. CASE UNCHANGED vars
    BY <1>7, FilesUntouched DEF vars, fileVars, ByteInv, Disk, Saving
  <1>. QED  BY <1>1, <1>3, <1>4, <1>5, <1>6, <1>7, OpenFileBytes, CopyByteBytes, SettleBytes DEF Next, Save

\* However many saves to one path overlap, and whichever of them fail at which
\* step: when they are over, the path leads to nothing, or to a file within the
\* limit with no byte of a save that failed.
THEOREM FailedSavesLeaveNothing == Spec => []OnlySavedBytes
  <1>1. ByteInv => OnlySavedBytes
    <2> SUFFICES ASSUME ByteInv, NEW p \in Paths, disk[p] # None,
                        \A r \in Requests : path[r] = p => ~Saving(r)
                 PROVE  /\ Len(content[disk[p]]) <= MaxBytes
                        /\ \A k \in DOMAIN content[disk[p]] :
                              content[disk[p]][k] # Hole /\ content[disk[p]][k][1] # Old
                                => result[content[disk[p]][k][1]].is = "saved"
      BY DEF OnlySavedBytes
    <2>1. \A r \in Requests : ~(Saving(r) /\ ino[r] = disk[p])
      BY DEF ByteInv, Owned
    <2>. QED  BY <2>1 DEF ByteInv, Accounted, Vouched
  <1>. QED  BY <1>1, ByteInit, ByteStep, PTL DEF Spec
-----------------------------------------------------------------------------
(***************************************************************************)
(* Whole files.  While nobody else saves to the path of r, its file is the *)
(* beginning of the upload that r has copied so far.                       *)
(***************************************************************************)
Before ==
    /\ DOMAIN latest = Paths /\ crossed \in [Requests -> BOOLEAN]
    /\ parts \in [Requests -> Seq(Nat)]
    /\ \A r \in Requests : pc[r] \in {"new", "create"} => written[r] = 0
    /\ \A r \in Requests : pc[r] = "create" \/ Saving(r) => parts[r] # <<>>
    /\ \A r \in Requests : pc[r] = "opening" => ino[r] = None
    /\ \A r \in Requests : ino[r] # None => path[r] \in Paths

Alone(r) == ino[r] # None /\ ~crossed[r] /\ latest[path[r]] = r

Outcome(r) ==
    IF result[r].is = "saved"
      THEN /\ disk[path[r]] # None
           /\ content[disk[path[r]]] = Upload(r, parts[r][1])
           /\ result[r].size = parts[r][1]
      ELSE disk[path[r]] = None

Whole(r) ==
    /\ Saving(r) \/ pc[r] = "done"
    /\ path[r] \in Paths
    /\ \A q \in Requests \ {r} : Saving(q) => path[q] # path[r]
    /\ Saving(r) => disk[path[r]] = ino[r] /\ content[ino[r]] = Upload(r, written[r])
    /\ pc[r] \in {"close", "settle"} /\ ~failed[r] => written[r] = CopyEnd(r)
    /\ pc[r] = "done" => Outcome(r)

WholeInv == ByteInv /\ Before /\ \A r \in Requests : Alone(r) => Whole(r)

LEMMA Grows ==
    ASSUME NEW r, NEW n \in Nat
    PROVE  WriteAt(Upload(r, n), n, <<r, n + 1>>) = Upload(r, n + 1)
  <1>1. Len(Upload(r, n)) = n /\ DOMAIN Upload(r, n) = 1..n
    BY DEF Upload
  <1>2. ~(n < Len(Upload(r, n)))
    BY <1>1
  <1>3. \A k \in 1..n + 1 : k # n + 1 => k \in 1..n
    OBVIOUS
  <1>4. WriteAt(Upload(r, n), n, <<r, n + 1>>)
          = [k \in 1..n + 1 |-> IF k = n + 1 THEN <<r, n + 1>>
                                ELSE IF k \in DOMAIN Upload(r, n) THEN Upload(r, n)[k] ELSE Hole]
    BY <1>2 DEF WriteAt
  <1>5. \A k \in 1..n : Upload(r, n)[k] = <<r, k>>
    BY DEF Upload
  <1>. QED  BY <1>1, <1>3, <1>4, <1>5 DEF Upload

\* Steps of others that leave the path of r and its file alone.
LEMMA WholeKept ==
    ASSUME NEW r \in Requests, Whole(r), ino[r] # None,
           pc'[r] = pc[r], path'[r] = path[r], ino'[r] = ino[r], parts'[r] = parts[r],
           written'[r] = written[r], failed'[r] = failed[r], result'[r] = result[r],
           disk'[path[r]] = disk[path[r]],
           disk[path[r]] # None => content'[disk[path[r]]] = content[disk[path[r]]],
           \A q \in Requests \ {r} : Saving(q)' => path'[q] # path[r]
    PROVE  Whole(r)'
  <1>1. Saving(r)' = Saving(r) /\ CopyEnd(r)' = CopyEnd(r)
    BY DEF Saving, CopyEnd
  <1>2. Saving(r) => disk'[path[r]] = ino[r] /\ content'[ino[r]] = Upload(r, written[r])
    BY DEF Whole
  <1>3. pc[r] = "done" => Outcome(r)'
    BY DEF Whole, Outcome
  <1>. QED  BY <1>1, <1>2, <1>3 DEF Whole

\* Steps that touch no file and end no save.
LEMMA WholeUntouched ==
    ASSUME WholeInv, UNCHANGED fileVars, NEW s \in Requests,
           \A r \in Requests : Saving(r)' = Saving(r),
           \A r \in Requests : Saving(r) => path'[r] = path[r],
           \A r \in Requests \ {s} : /\ pc'[r] = pc[r] /\ path'[r] = path[r] /\ parts'[r] = parts[r]
                                     /\ written'[r] = written[r] /\ failed'[r] = failed[r]
                                     /\ result'[r] = result[r],
           Alone(s)' => Alone(s) /\ Whole(s)'
    PROVE  \A r \in Requests : Alone(r)' => Whole(r)'
  <1>1. TAKE r \in Requests
  <1>2. HAVE Alone(r)'
  <1>3. CASE r = s
    BY <1>2, <1>3
  <1>4. CASE r # s
    <2>1. Alone(r) /\ Whole(r) /\ ino[r] # None
      BY <1>2, <1>4 DEF Alone, fileVars, WholeInv
    <2>2. \A q \in Requests \ {r} : Saving(q)' => path'[q] # path[r]
      BY <2>1 DEF Whole
    <2>. QED  BY <1>4, <2>1, <2>2, WholeKept DEF fileVars
  <1>. QED  BY <1>3, <1>4

LEMMA WholeOpen ==
    ASSUME WholeInv, NEW s \in Requests, NEW p \in Paths, OpenFile(s, p)
    PROVE  \A r \in Requests : Alone(r)' => Whole(r)'
  <1> USE Distinct
  <1>1. pc[s] = "create" /\ ino[s] = None /\ ~Saving(s) /\ written[s] = 0 /\ UNCHANGED <<parts, written, failed>>
    BY DEF OpenFile, WholeInv, ByteInv, Owned, Saving, Before
  <1>2. CASE Return(s, Failure("create"), {}) /\ UNCHANGED fileVars
    <2>1. /\ \A r \in Requests : Saving(r)' = Saving(r)
          /\ \A r \in Requests \ {s} : pc'[r] = pc[r] /\ path'[r] = path[r] /\ result'[r] = result[r]
      BY <1>1, <1>2 DEF OpenFile, Return, WholeInv, ByteInv, Disk, Saving
    <2>2. ~ Alone(s)'
      BY <1>1, <1>2 DEF Alone, fileVars
    <2>. QED  BY <1>1, <1>2, <2>1, <2>2, WholeUntouched
  <1> DEFINE others == {q \in Requests : Saving(q) /\ path[q] = p}
  <1>3. ASSUME pc' = [pc EXCEPT ![s] = "copy"], UNCHANGED result,
               path' = [path EXCEPT ![s] = p],
               NEW i, i = IF disk[p] = None THEN s ELSE disk[p],
               disk' = [disk EXCEPT ![p] = i], ino' = [ino EXCEPT ![s] = i],
               content' = [content EXCEPT ![i] = <<>>],
               latest' = [latest EXCEPT ![p] = s],
               crossed' = [q \in Requests |-> crossed[q] \/ q \in others \/ (q = s /\ others # {})]
        PROVE  \A r \in Requests : Alone(r)' => Whole(r)'
    <2>1. i \in Inodes /\ i # None
      BY <1>3 DEF WholeInv, ByteInv, Disk, Inodes
    <2>2. \A q \in Requests \ {s} : pc'[q] = pc[q] /\ path'[q] = path[q] /\ ino'[q] = ino[q] /\ Saving(q)' = Saving(q)
      BY <1>3 DEF WholeInv, ByteInv, Disk, Saving
    <2>3. disk'[p] = i /\ ino'[s] = i /\ path'[s] = p /\ pc'[s] = "copy" /\ content'[i] = <<>> /\ latest'[p] = s
      BY <1>3, <2>1 DEF WholeInv, ByteInv, Disk, Before
    <2>4. ASSUME NEW r \in Requests \ {s}, Alone(r)'
          PROVE  Whole(r)'
      <3>1. path[r] # p
        BY <2>2, <2>3, <2>4 DEF Alone
      <3>2. path[r] \in Paths /\ Alone(r) /\ Whole(r) /\ ino[r] # None
        <4>1. ino[r] # None /\ ~crossed[r]
          <5>1. crossed'[r] = (crossed[r] \/ r \in others \/ (r = s /\ others # {}))
            BY <1>3
          <5>2. ino[r] # None /\ ~crossed'[r]
            BY <2>2, <2>4 DEF Alone
          <5>3. crossed[r] \in BOOLEAN /\ crossed'[r] \in BOOLEAN
            BY <1>3, <5>1 DEF WholeInv, Before
          <5>. QED  BY <5>1, <5>2, <5>3
        <4>2. path[r] \in Paths
          BY <4>1 DEF WholeInv, Before
        <4>3. latest'[path[r]] = latest[path[r]]
          BY <1>3, <3>1, <4>2 DEF WholeInv, Before
        <4>. QED  BY <2>2, <2>4, <4>1, <4>2, <4>3 DEF Alone, WholeInv
      <3>3. disk'[path[r]] = disk[path[r]]
        BY <1>3, <3>1, <3>2 DEF WholeInv, ByteInv, Disk
      <3>4. disk[path[r]] # None => disk[path[r]] # i
        <4>1. CASE disk[p] = None
          BY <1>1, <1>3, <3>2, <4>1 DEF WholeInv, ByteInv, Owned
        <4>2. CASE disk[p] # None
          BY <1>3, <3>1, <3>2, <4>2 DEF WholeInv, ByteInv, Owned
        <4>. QED  BY <4>1, <4>2
      <3>5. disk[path[r]] # None => content'[disk[path[r]]] = content[disk[path[r]]]
        BY <1>3, <3>2, <3>4 DEF WholeInv, ByteInv, Disk
      <3>6. \A q \in Requests \ {r} : Saving(q)' => path'[q] # path[r]
        BY <2>2, <2>3, <3>1, <3>2 DEF Whole
      <3>. QED  BY <1>1, <1>3, <2>2, <3>2, <3>3, <3>5, <3>6, WholeKept
    <2>5. ASSUME Alone(s)'
          PROVE  Whole(s)'
      <3>1. others = {}
        BY <1>3, <2>5 DEF Alone
      <3>2. \A q \in Requests \ {s} : Saving(q)' => path'[q] # path'[s]
        BY <2>2, <2>3, <3>1
      <3>3. content'[i] = Upload(s, written'[s])
        <4>1. Upload(s, 0) = <<>>
          BY DEF Upload
        <4>. QED  BY <1>1, <2>3, <4>1
      <3>4. Saving(s)' /\ pc'[s] \notin {"close", "settle", "done"} /\ path'[s] \in Paths
        BY <2>3 DEF Saving
      <3>. QED  BY <2>3, <3>2, <3>3, <3>4 DEF Whole
    <2>. QED  BY <2>4, <2>5
  <1>. QED  BY <1>2, <1>3 DEF OpenFile, Truncated

LEMMA WholeCopy ==
    ASSUME WholeInv, NEW s \in Requests, CopyByte(s)
    PROVE  \A r \in Requests : Alone(r)' => Whole(r)'
  <1> USE Distinct
  <1>1. /\ pc[s] = "copy" /\ Saving(s)
        /\ UNCHANGED <<pc, path, parts, ino, failed, disk, result, latest, crossed>>
        /\ content' = [content EXCEPT ![ino[s]] = WriteAt(content[ino[s]], written[s], <<s, written[s] + 1>>)]
        /\ written' = [written EXCEPT ![s] = @ + 1]
    BY DEF CopyByte, Saving
  <1>2. \A r \in Requests : Saving(r)' = Saving(r) /\ Alone(r)' = Alone(r)
    BY <1>1 DEF Saving, Alone
  <1>3. ino[s] \in Inodes /\ written[s] \in Nat /\ written'[s] = written[s] + 1
    BY <1>1 DEF WholeInv, ByteInv, Disk, Owned
  <1>4. ASSUME NEW r \in Requests \ {s}, Alone(r)
        PROVE  Whole(r)'
    <2>1. Whole(r) /\ path[r] \in Paths /\ ino[r] # None
      BY <1>4 DEF WholeInv, Whole, Alone
    <2>2. disk[path[r]] # None => disk[path[r]] # ino[s]
      BY <1>1, <2>1 DEF WholeInv, ByteInv, Owned, Whole
    <2>3. disk[path[r]] # None => content'[disk[path[r]]] = content[disk[path[r]]]
      BY <1>1, <2>1, <2>2 DEF WholeInv, ByteInv, Disk
    <2>4. \A q \in Requests \ {r} : Saving(q)' => path'[q] # path[r]
      BY <1>1, <1>2, <2>1 DEF Whole
    <2>5. written'[r] = written[r]
      BY <1>1 DEF WholeInv, ByteInv, Disk
    <2>. QED  BY <1>1, <2>1, <2>3, <2>4, <2>5, WholeKept
  <1>5. ASSUME Alone(s)
        PROVE  Whole(s)'
    <2>1. Whole(s)
      BY <1>5 DEF WholeInv
    <2>2. content[ino[s]] = Upload(s, written[s]) /\ disk[path[s]] = ino[s] /\ path[s] \in Paths
      BY <1>1, <2>1 DEF Whole
    <2>3. content'[ino[s]] = WriteAt(Upload(s, written[s]), written[s], <<s, written[s] + 1>>)
      BY <1>1, <1>3, <2>2 DEF WholeInv, ByteInv, Disk
    <2>4. content'[ino[s]] = Upload(s, written'[s])
      BY <1>3, <2>3, Grows
    <2>. QED  BY <1>1, <1>2, <2>1, <2>2, <2>4 DEF Whole
  <1>. QED  BY <1>2, <1>4, <1>5

LEMMA WholeSettle ==
    ASSUME WholeInv, NEW s \in Requests, Settle(s)
    PROVE  \A r \in Requests : Alone(r)' => Whole(r)'
  <1> USE Distinct
  <1>1. /\ pc[s] = "settle" /\ Saving(s) /\ path[s] \in Paths
        /\ UNCHANGED <<path, parts, ino, written, failed, content, latest, crossed>>
        /\ disk' = [disk EXCEPT ![path[s]] = IF Unwanted(s) THEN None ELSE @]
        /\ pc' = [pc EXCEPT ![s] = "done"]
    BY DEF Settle, Saving, WholeInv, ByteInv, Owned, Return
  <1>2. /\ pc'[s] = "done" /\ ~Saving(s)'
        /\ \A r \in Requests \ {s} : pc'[r] = pc[r] /\ result'[r] = result[r] /\ Saving(r)' = Saving(r)
    BY <1>1 DEF Settle, Return, WholeInv, ByteInv, Disk, Saving
  <1>3. \A r \in Requests : Alone(r)' = Alone(r)
    BY <1>1 DEF Alone
  <1>4. ASSUME NEW r \in Requests \ {s}, Alone(r)
        PROVE  Whole(r)'
    <2>1. Whole(r) /\ path[r] \in Paths /\ ino[r] # None /\ path[s] # path[r]
      BY <1>1, <1>4 DEF WholeInv, Whole, Alone
    <2>2. disk'[path[r]] = disk[path[r]]
      BY <1>1, <2>1 DEF WholeInv, ByteInv, Disk
    <2>3. \A q \in Requests \ {r} : Saving(q)' => path'[q] # path[r]
      BY <1>1, <1>2, <2>1 DEF Whole
    <2>. QED  BY <1>1, <1>2, <2>1, <2>2, <2>3, WholeKept
  <1>5. ASSUME Alone(s)
        PROVE  Whole(s)'
    <2>1. Whole(s)
      BY <1>5 DEF WholeInv
    <2>2. disk[path[s]] = ino[s] /\ content[ino[s]] = Upload(s, written[s]) /\ ino[s] # None
      BY <1>1, <1>5, <2>1 DEF Whole, Alone
    <2>3. /\ MaxBytes \in Nat /\ written[s] \in Nat
          /\ failed[s] \in BOOLEAN
      BY UploadsAssumption DEF WholeInv, ByteInv, Disk
    <2>4. parts[s][1] \in Nat
      BY <1>1 DEF WholeInv, Before
    <2>5. CASE Unwanted(s)
      <3>1. disk'[path'[s]] = None
        BY <1>1, <2>5 DEF WholeInv, ByteInv, Disk
      <3>2. result'[s].is # "saved"
        BY <2>3, <2>5 DEF Settle, Return, Unwanted, Failure, WholeInv, ByteInv, Disk
      <3>3. Outcome(s)'
        BY <3>1, <3>2 DEF Outcome
      <3>. QED  BY <1>1, <1>2, <2>1, <3>3 DEF Whole
    <2>6. CASE ~Unwanted(s)
      <3>1. written[s] = CopyEnd(s) /\ written[s] <= MaxBytes
        BY <1>1, <2>1, <2>3, <2>6 DEF Whole, Unwanted
      <3>2. written[s] = parts[s][1]
        BY <2>3, <2>4, <3>1 DEF CopyEnd
      <3>3. disk'[path[s]] = ino[s]
        BY <1>1, <2>2, <2>6 DEF WholeInv, ByteInv, Disk
      <3>4. result'[s] = [is |-> "saved", size |-> written[s]]
        BY <2>3, <2>6 DEF Settle, Return, Unwanted, WholeInv, ByteInv, Disk
      <3>5. Outcome(s)'
        BY <1>1, <2>2, <3>2, <3>3, <3>4 DEF Outcome
      <3>. QED  BY <1>1, <1>2, <2>1, <3>5 DEF Whole
    <2>. QED  BY <2>5, <2>6
  <1>. QED  BY <1>3, <1>4, <1>5

LEMMA BeforeInit == Init => Before
  BY DEF Init, Before, Saving

\* What FormFile and FormFiles make of parts.
LEMMA FieldTyped ==
    ASSUME parts \in [Requests -> Seq(Nat)], NEW r \in Requests,
           parts' \in {[parts EXCEPT ![r] = field] : field \in Fields}
    PROVE  /\ parts' \in [Requests -> Seq(Nat)]
           /\ \A q \in Requests \ {r} : parts'[q] = parts[q]
  <1>1. PICK field \in Fields : parts' = [parts EXCEPT ![r] = field]
    OBVIOUS
  <1>2. field \in Seq(Nat)
    BY UploadsAssumption
  <1>. QED  BY <1>1, <1>2

LEMMA WholeStep == WholeInv /\ [Next]_vars => WholeInv'
  <1> SUFFICES ASSUME WholeInv, [Next]_vars PROVE WholeInv'
    OBVIOUS
  <1> USE Distinct
  <1>1. ByteInv'
    BY ByteStep DEF WholeInv
  <1>2. ASSUME NEW s \in Requests, FormFile(s) \/ FormFiles(s)
        PROVE  Before' /\ \A r \in Requests : Alone(r)' => Whole(r)'
    <2>1. /\ pc[s] = "new" /\ ino[s] = None /\ ~Saving(s) /\ written[s] = 0
          /\ UNCHANGED <<path, written, failed, fileVars>>
          /\ parts' \in {[parts EXCEPT ![s] = field] : field \in Fields}
      BY <1>2 DEF FormFile, FormFiles, WholeInv, ByteInv, Owned, Saving, Before
    <2>2. /\ parts' \in [Requests -> Seq(Nat)]
          /\ \A r \in Requests \ {s} : parts'[r] = parts[r]
      BY <2>1, FieldTyped DEF WholeInv, Before
    <2>3. /\ \A r \in Requests \ {s} : pc'[r] = pc[r] /\ result'[r] = result[r]
          /\ pc'[s] \in {"create", "opening", "done"}
          /\ pc'[s] = "create" => parts'[s] # <<>>
      BY <1>2 DEF FormFile, FormFiles, Return, WholeInv, ByteInv, Disk
    <2>4. \A r \in Requests : Saving(r)' = Saving(r)
      BY <2>1, <2>3 DEF Saving
    <2>5. Before'
      BY <2>1, <2>2, <2>3, <2>4 DEF WholeInv, Before, fileVars
    <2>6. ~ Alone(s)'
      BY <2>1 DEF Alone, fileVars
    <2>. QED  BY <2>1, <2>2, <2>3, <2>4, <2>5, <2>6, WholeUntouched
  <1>3. ASSUME NEW s \in Requests,
               \/ OpenNext(s)
               \/ \E body : DecodeJSON(s, body)
               \/ \E n, k : QueryInt(s, n, k)
        PROVE  Before' /\ \A r \in Requests : Alone(r)' => Whole(r)'
    <2>1. /\ pc[s] \in {"new", "opening"} /\ ino[s] = None /\ ~Saving(s)
          /\ UNCHANGED <<path, parts, written, failed, fileVars>>
      BY <1>3 DEF OpenNext, DecodeJSON, QueryInt, WholeInv, ByteInv, Owned, Saving, Before
    <2>2. /\ \A r \in Requests \ {s} : pc'[r] = pc[r] /\ result'[r] = result[r]
          /\ pc'[s] \in {"opening", "done"}
      BY <1>3 DEF OpenNext, DecodeJSON, QueryInt, Return, WholeInv, ByteInv, Disk
    <2>3. \A r \in Requests : Saving(r)' = Saving(r)
      BY <2>1, <2>2 DEF Saving
    <2>4. Before'
      BY <2>1, <2>2, <2>3 DEF WholeInv, Before, fileVars
    <2>5. ~ Alone(s)'
      BY <2>1 DEF Alone, fileVars
    <2>. QED  BY <2>1, <2>2, <2>3, <2>4, <2>5, WholeUntouched
  <1>4. ASSUME NEW s \in Requests, CopyEnds(s) \/ Close(s)
        PROVE  Before' /\ \A r \in Requests : Alone(r)' => Whole(r)'
    <2>1. /\ Saving(s) /\ Saving(s)' /\ pc[s] \in {"copy", "close"} /\ pc'[s] \in {"close", "settle"}
          /\ UNCHANGED <<path, parts, written, fileVars, result>>
          /\ failed' \in {failed, [failed EXCEPT ![s] = TRUE]}
      BY <1>4 DEF CopyEnds, Close, Saving, WholeInv, ByteInv, Disk
    <2>2. \A r \in Requests \ {s} : pc'[r] = pc[r] /\ failed'[r] = failed[r]
      BY <1>4, <2>1 DEF CopyEnds, Close, WholeInv, ByteInv, Disk
    <2>3. \A r \in Requests : Saving(r)' = Saving(r)
      BY <2>1, <2>2 DEF Saving
    <2>4. Before'
      BY <2>1, <2>2, <2>3 DEF WholeInv, Before, fileVars
    <2>5. Alone(s)' = Alone(s) /\ CopyEnd(s)' = CopyEnd(s)
      BY <2>1 DEF Alone, CopyEnd, fileVars
    <2>6. ASSUME Alone(s), ~failed'[s]
          PROVE  written[s] = CopyEnd(s)
      <3>1. CASE CopyEnds(s)
        BY <2>6, <3>1 DEF CopyEnds
      <3>2. CASE Close(s)
        <4>1. ~failed[s] /\ pc[s] = "close" /\ Whole(s)
          BY <2>1, <2>6, <3>2 DEF Close, WholeInv, ByteInv, Disk
        <4>. QED  BY <4>1 DEF Whole
      <3>. QED  BY <1>4, <3>1, <3>2
    <2>7. Alone(s) => Whole(s)'
      <3> SUFFICES ASSUME Alone(s) PROVE Whole(s)'
        OBVIOUS
      <3>1. Whole(s)
        BY DEF WholeInv
      <3>2. \A q \in Requests \ {s} : Saving(q)' => path'[q] # path'[s]
        BY <2>1, <2>3, <3>1 DEF Whole
      <3>3. /\ path'[s] \in Paths /\ disk'[path'[s]] = ino'[s]
            /\ content'[ino'[s]] = Upload(s, written'[s])
        BY <2>1, <3>1 DEF Whole, fileVars
      <3>4. ~failed'[s] => written'[s] = CopyEnd(s)'
        BY <2>1, <2>5, <2>6
      <3>. QED  BY <2>1, <3>2, <3>3, <3>4 DEF Whole
    <2>. QED  BY <2>1, <2>2, <2>3, <2>4, <2>5, <2>7, WholeUntouched
  <1>5. ASSUME NEW s \in Requests, NEW p \in Paths, OpenFile(s, p)
        PROVE  Before'
    <2>1. /\ pc[s] = "create" /\ UNCHANGED <<parts, written>>
          /\ \A q \in Requests \ {s} : pc'[q] = pc[q] /\ ino'[q] = ino[q] /\ path'[q] = path[q]
          /\ pc'[s] \in {"copy", "done"} /\ path'[s] = p
      BY <1>5 DEF OpenFile, Return, fileVars, WholeInv, ByteInv, Disk
    <2>2. DOMAIN latest' = Paths /\ crossed' \in [Requests -> BOOLEAN]
      BY <1>5 DEF OpenFile, fileVars, WholeInv, Before
    <2>. QED  BY <2>1, <2>2 DEF WholeInv, Before, Saving
  <1>6. ASSUME NEW s \in Requests, CopyByte(s) \/ Settle(s)
        PROVE  Before'
    <2>1. /\ Saving(s) /\ pc'[s] \in {"copy", "done"}
          /\ UNCHANGED <<path, parts, ino, latest, crossed>>
          /\ \A q \in Requests \ {s} : pc'[q] = pc[q] /\ written'[q] = written[q]
      BY <1>6 DEF CopyByte, Settle, Return, Saving, WholeInv, ByteInv, Disk
    <2>. QED  BY <2>1 DEF WholeInv, Before, Saving
  <1>7. ASSUME UNCHANGED vars
        PROVE  Before' /\ \A r \in Requests : Alone(r)' => Whole(r)'
    <2>1. Before'
      BY <1>7 DEF vars, fileVars, WholeInv, Before, Saving
    <2>2. \A r \in Requests : Saving(r)' = Saving(r)
      BY <1>7 DEF vars, Saving
    <2>3. \A r \in Requests : Alone(r)' => Alone(r) /\ Whole(r)
      BY <1>7 DEF vars, fileVars, Alone, WholeInv
    <2>4. \A r \in Requests : Whole(r) => Whole(r)'
      BY <1>7, <2>2 DEF vars, fileVars, Whole, Outcome, CopyEnd
    <2>. QED  BY <2>1, <2>3, <2>4
  <1>8. Before' /\ \A r \in Requests : Alone(r)' => Whole(r)'
    BY <1>2, <1>3, <1>4, <1>5, <1>6, <1>7, WholeOpen, WholeCopy, WholeSettle
       DEF WholeInv, Next, Save
  <1>. QED  BY <1>1, <1>8 DEF WholeInv

\* However many saves to other paths run, and if none to its own overlaps: what
\* io.Copy left of an upload is there from the first byte to the last and as
\* long as reported, or the path leads to nothing.
THEOREM SavesAreWhole == Spec => []SaveIsWhole
  <1>1. Init => WholeInv
    BY ByteInit, BeforeInit DEF Init, WholeInv, Alone
  <1>2. WholeInv => SaveIsWhole
    BY DEF WholeInv, Alone, Whole, Outcome, SaveIsWhole
  <1>. QED  BY <1>1, <1>2, WholeStep, PTL DEF Spec
-----------------------------------------------------------------------------
(***************************************************************************)
(* DecodeJSON                                                              *)
(***************************************************************************)
Lexemes == {"value", "blank", "junk"}

LEMMA LeastOf ==
    ASSUME NEW S \in SUBSET Nat, S # {}
    PROVE  Min(S) \in S /\ \A n \in S : Min(S) <= n
  <1> DEFINE R == {ss \in Nat \X Nat : ss[1] < ss[2]}
  <1>1. IsWellFoundedOn(R, Nat)
    BY NatLessThanWellFounded, Zenon DEF OpToRel
  <1>2. PICK m \in S : \A n \in S : ~ (<<n, m>> \in R)
    <2> HIDE DEF R
    <2>. QED  BY <1>1, WFMin, Zenon
  <1>3. ASSUME NEW n \in S
        PROVE  m <= n
    <2>1. <<n, m>> \in Nat \X Nat /\ <<n, m>> \notin R
      BY <1>2
    <2>. QED  BY <2>1
  <1>. QED  BY <1>3 DEF Min

LEMMA LongNotEmpty == ASSUME NEW s, Len(s) # 0 PROVE s # <<>>
  <1>1. Len(<<>>) = 0
    OBVIOUS
  <1>2. s = <<>> => Len(s) = Len(<<>>)
    BY Zenon
  <1>. QED  BY <1>1, <1>2

\* What is left of a sequence from its m-th element on.
LEMMA Remainder ==
    ASSUME NEW S, NEW s \in Seq(S), NEW m \in Nat, 0 < m, m <= Len(s) + 1
    PROVE  LET t == SubSeq(s, m, Len(s)) IN
             /\ t \in Seq(S) /\ Len(t) = Len(s) - m + 1
             /\ \A k \in 1..(Len(s) - m + 1) : t[k] = s[m + k - 1]
             /\ t = <<>> <=> m = Len(s) + 1
  <1> DEFINE t == SubSeq(s, m, Len(s))
             n == Len(s)
  <1>1. n \in Nat /\ n \in Int /\ m \in Int
    OBVIOUS
  <1>2. \A i \in m..n : s[i] \in S
    BY <1>1
  <1>3. /\ t \in Seq(S) /\ Len(t) = IF m <= n THEN n - m + 1 ELSE 0
        /\ \A k \in 1..(n - m + 1) : t[k] = s[m + k - 1]
    <2> HIDE DEF n
    <2>1. /\ SubSeq(s, m, n) \in Seq(S) /\ Len(SubSeq(s, m, n)) = IF m <= n THEN n - m + 1 ELSE 0
          /\ \A k \in 1..(n - m + 1) : SubSeq(s, m, n)[k] = s[m + k - 1]
      BY <1>1, <1>2, SubSeqProperties
    <2>. QED  BY <2>1 DEF n
  <1>4. m = n + 1 => t = <<>>
    <2>1. m = n + 1 => n < m
      BY <1>1
    <2>. QED  BY <1>1, <2>1, SubSeqEmpty, Zenon
  <1> HIDE DEF t, n
  <1>5. Len(t) = n - m + 1
    BY <1>1, <1>3 DEF n
  <1>6. m # n + 1 => Len(t) # 0
    BY <1>1, <1>5
  <1>7. m # n + 1 => t # <<>>
    BY <1>6, LongNotEmpty, Zenon
  <1>8. t \in Seq(S) /\ Len(t) = n - m + 1 /\ (\A k \in 1..(n - m + 1) : t[k] = s[m + k - 1])
        /\ (t = <<>> <=> m = n + 1)
    BY <1>3, <1>4, <1>5, <1>7, Zenon
  <1>. QED  BY <1>8, Zenon DEF t, n

\* Skip drops the blanks in front.
LEMMA SkipBlanks ==
    ASSUME NEW s \in Seq(Lexemes)
    PROVE  \/ Skip(s) = <<>> /\ \A k \in 1..Len(s) : s[k] = "blank"
           \/ \E m \in 1..Len(s) : /\ Skip(s) = SubSeq(s, m, Len(s)) /\ s[m] # "blank"
                                  /\ \A k \in 1..(m - 1) : s[k] = "blank"
  <1> DEFINE values == {k \in DOMAIN s : s[k] # "blank"}
             m == Min(values)
  <1>1. DOMAIN s = 1..Len(s) /\ Len(s) \in Nat
    OBVIOUS
  <1>2. CASE values = {}
    BY <1>1, <1>2 DEF Skip
  <1>3. CASE values # {}
    <2>1. m \in values /\ \A n \in values : m <= n
      <3>1. values \in SUBSET Nat
        BY <1>1
      <3> HIDE DEF values
      <3>. QED  BY <1>3, <3>1, LeastOf
    <2>2. Skip(s) = SubSeq(s, m, Len(s))
      BY <1>3 DEF Skip
    <2>3. m \in 1..Len(s) /\ s[m] # "blank"
      BY <1>1, <2>1
    <2>4. ASSUME NEW k \in 1..(m - 1)
          PROVE  s[k] = "blank"
      <3>1. k \in DOMAIN s /\ ~(m <= k)
        BY <1>1, <2>3
      <3>. QED  BY <2>1, <3>1
    <2> HIDE DEF m
    <2>. QED  BY <2>2, <2>3, <2>4
  <1>. QED  BY <1>2, <1>3

LEMMA DecodedStrict ==
    ASSUME NEW s \in Seq(Lexemes)
    PROVE  Decoded(s) = "ok" <=> OneValue(s)
  <1> DEFINE rest == Skip(s)
  <1>1. DOMAIN s = 1..Len(s) /\ Len(s) \in Nat
    OBVIOUS
  <1>2. CASE rest = <<>> /\ \A k \in 1..Len(s) : s[k] = "blank"
    BY <1>1, <1>2 DEF Decoded, OneValue
  <1>3. ASSUME NEW m \in 1..Len(s), rest = SubSeq(s, m, Len(s)), s[m] # "blank",
               \A k \in 1..(m - 1) : s[k] = "blank"
        PROVE  Decoded(s) = "ok" <=> OneValue(s)
    <2>1. rest # <<>> /\ Head(rest) = s[m] /\ Tail(rest) = SubSeq(s, m + 1, Len(s))
      <3>1. m \in Nat /\ 0 < m /\ m <= Len(s) + 1 /\ m # Len(s) + 1 /\ Len(s) \in m..Len(s)
        BY <1>1
      <3>2. Head(SubSeq(s, m, Len(s))) = s[m] /\ Tail(SubSeq(s, m, Len(s))) = SubSeq(s, m + 1, Len(s))
        BY <3>1, HeadTailOfSubSeq
      <3>3. SubSeq(s, m, Len(s)) # <<>>
        BY <3>1, Remainder, Zenon
      <3>. QED  BY <1>3, <3>2, <3>3, Zenon
    <2> DEFINE after == Tail(rest)
    <2>2. /\ after \in Seq(Lexemes) /\ Len(after) = Len(s) - m
          /\ \A k \in 1..(Len(s) - m) : after[k] = s[m + k]
      <3> DEFINE t == SubSeq(s, m + 1, Len(s))
      <3>1. m + 1 \in Nat /\ 0 < m + 1 /\ m + 1 <= Len(s) + 1
        BY <1>1
      <3>2. /\ t \in Seq(Lexemes) /\ Len(t) = Len(s) - (m + 1) + 1
            /\ \A k \in 1..(Len(s) - (m + 1) + 1) : t[k] = s[m + 1 + k - 1]
        BY <3>1, Remainder, Zenon
      <3>3. after = t
        BY <2>1
      <3> HIDE DEF t, after
      <3>4. Len(s) - (m + 1) + 1 = Len(s) - m
        BY <1>1
      <3>5. \A k \in 1..(Len(s) - m) : m + 1 + k - 1 = m + k
        BY <1>1
      <3>. QED  BY <3>2, <3>3, <3>4, <3>5
    <2>3. Skip(after) = <<>> <=> \A k \in 1..Len(after) : after[k] = "blank"
      <3> HIDE DEF after
      <3>1. ASSUME NEW n \in 1..Len(after), Skip(after) = SubSeq(after, n, Len(after)), after[n] # "blank"
            PROVE  Skip(after) # <<>>
        <4>1. n \in Nat /\ 0 < n /\ n <= Len(after) + 1 /\ n # Len(after) + 1
          BY <2>2
        <4>. QED  BY <2>2, <3>1, <4>1, Remainder, Zenon
      <3>. QED  BY <2>2, <3>1, SkipBlanks
    <2>4. Skip(after) = <<>> <=> \A k \in (m + 1)..Len(s) : s[k] = "blank"
      <3>1. ASSUME NEW k \in (m + 1)..Len(s), \A n \in 1..(Len(s) - m) : s[m + n] = "blank"
            PROVE  s[k] = "blank"
        <4>1. k - m \in 1..(Len(s) - m) /\ m + (k - m) = k
          BY <1>1
        <4>. QED  BY <3>1, <4>1
      <3>2. \A n \in 1..(Len(s) - m) : m + n \in (m + 1)..Len(s)
        BY <1>1
      <3> HIDE DEF after
      <3>. QED  BY <2>2, <2>3, <3>1, <3>2
    <2>5. Decoded(s) = "ok" <=> s[m] = "value" /\ Skip(after) = <<>>
      BY <2>1 DEF Decoded
    <2>6. OneValue(s) <=> s[m] = "value" /\ \A k \in 1..Len(s) \ {m} : s[k] = "blank"
      BY <1>1, <1>3 DEF OneValue
    <2>7. (\A k \in 1..Len(s) \ {m} : s[k] = "blank") <=> \A k \in (m + 1)..Len(s) : s[k] = "blank"
      BY <1>1, <1>3
    <2>. QED  BY <2>4, <2>5, <2>6, <2>7
  <1>. QED  BY <1>2, <1>3, SkipBlanks

Strict(answer, body) ==
    answer = "ok" <=> body # NoBody /\ Len(body) <= MaxBytes /\ OneValue(body)

JsonInv ==
    /\ DOMAIN result = Requests
    /\ \A r \in Requests :
          result[r].is = "json" /\ result[r].answer # "read" => Strict(result[r].answer, result[r].body)

LEMMA JsonStep == JsonInv /\ [Next]_vars => JsonInv'
  <1> SUFFICES ASSUME JsonInv, [Next]_vars PROVE JsonInv'
    OBVIOUS
  <1>1. ASSUME NEW r \in Requests,
               UNCHANGED result \/ \E answer, handles : answer.is # "json" /\ Return(r, answer, handles)
        PROVE  JsonInv'
    BY <1>1 DEF JsonInv, Return
  <1>2. ASSUME NEW r \in Requests, NEW body \in Bodies, DecodeJSON(r, body)
        PROVE  JsonInv'
    <2> DEFINE given(answer) == [is |-> "json", body |-> body, answer |-> answer]
    <2>1. PICK answer : /\ result' = [result EXCEPT ![r] = given(answer)]
                        /\ \/ answer = "read"
                           \/ answer = "ErrEmptyBody" /\ (body = NoBody \/ body = <<>>)
                           \/ /\ body # NoBody
                              /\ answer = IF Len(body) > MaxBytes THEN "ErrBodyTooLarge" ELSE Decoded(body)
      <3>1. [given("read") EXCEPT !.answer = "ErrEmptyBody"] = given("ErrEmptyBody")
        OBVIOUS
      <3>2. \A a : [given("read") EXCEPT !.answer = a] = given(a)
        OBVIOUS
      <3>. QED  BY <1>2, <3>1, <3>2 DEF DecodeJSON, Return
    <2>2. answer # "read" => Strict(answer, body)
      <3>1. ASSUME body # NoBody
            PROVE  body \in Seq(Lexemes) /\ Len(body) \in Nat /\ (Decoded(body) = "ok" <=> OneValue(body))
        BY <3>1, UploadsAssumption, DecodedStrict DEF Lexemes
      <3>2. CASE answer = "ErrEmptyBody" /\ (body = NoBody \/ body = <<>>)
        BY <3>2 DEF Strict, OneValue
      <3>3. CASE body # NoBody /\ answer = IF Len(body) > MaxBytes THEN "ErrBodyTooLarge" ELSE Decoded(body)
        BY <3>1, <3>3, UploadsAssumption DEF Strict
      <3>. QED  BY <2>1, <3>2, <3>3
    <2>3. result'[r].answer = answer /\ result'[r].body = body /\ \A q \in Requests \ {r} : result'[q] = result[q]
      BY <2>1 DEF JsonInv
    <2>. QED  BY <2>1, <2>2, <2>3 DEF JsonInv
  <1>3. ASSUME NEW r \in Requests, Save(r)
        PROVE  JsonInv'
    <2>1. UNCHANGED result \/ \E answer, handles : answer.is # "json" /\ Return(r, answer, handles)
      <3>1. CASE FormFile(r)
        BY <3>1 DEF FormFile, Failure
      <3>2. CASE \E p \in Paths : OpenFile(r, p)
        BY <3>2 DEF OpenFile, Failure
      <3>3. CASE CopyByte(r) \/ CopyEnds(r) \/ Close(r)
        BY <3>3 DEF CopyByte, CopyEnds, Close
      <3>4. CASE Settle(r)
        BY <3>4 DEF Settle, Failure
      <3>. QED  BY <1>3, <3>1, <3>2, <3>3, <3>4 DEF Save
    <2>. QED  BY <1>1, <2>1
  <1>4. ASSUME NEW r \in Requests, FormFiles(r) \/ OpenNext(r)
        PROVE  JsonInv'
    <2>1. UNCHANGED result \/ \E answer, handles : answer.is # "json" /\ Return(r, answer, handles)
      BY <1>4 DEF FormFiles, OpenNext, Failure
    <2>. QED  BY <1>1, <2>1
  <1>5. ASSUME NEW r \in Requests, NEW n, NEW k, QueryInt(r, n, k)
        PROVE  JsonInv'
    BY <1>1, <1>5 DEF QueryInt
  <1>6. CASE UNCHANGED vars
    BY <1>6 DEF vars, JsonInv
  <1>. QED  BY <1>2, <1>3, <1>4, <1>5, <1>6 DEF Next

\* Whatever blanks stand where, and however long a body is: DecodeJSON takes one
\* value and makes sure that nothing follows.
THEOREM BodiesAreOneValue == Spec => []DecodeIsStrict
  <1>1. Init => JsonInv
    BY DEF Init, JsonInv, Pending
  <1>2. JsonInv => DecodeIsStrict
    BY DEF JsonInv, Strict, DecodeIsStrict
  <1>. QED  BY <1>1, <1>2, JsonStep, PTL DEF Spec
-----------------------------------------------------------------------------
(***************************************************************************)
(* QueryInt                                                                *)
(***************************************************************************)
\* A division with remainder leaves a remainder below the divisor, and that of a
\* number below the divisor is the number.
LEMMA Remainders ==
    ASSUME NEW d \in Nat, d > 0, NEW n \in Int
    PROVE  n % d \in 0..(d - 1) /\ (n \in 0..(d - 1) => n % d = n)
  OBVIOUS

\* A conversion lands in the type, and changes no number the type has.
LEMMA ConvertIsExact ==
    ASSUME NEW k, k.signed \in BOOLEAN, k.values \in Nat, k.values > 0, NEW n \in Int
    PROVE  /\ Convert(n, k) \in Lowest(k)..Highest(k)
           /\ n \in Lowest(k)..Highest(k) => Convert(n, k) = n
  <1> DEFINE d == k.values
             low == Lowest(k)
  <1>1. d \in Nat /\ d > 0 /\ low \in Int
    BY DEF Lowest
  <1>2. n - low \in Int
    BY <1>1
  <1>3. (n - low) % d \in 0..(d - 1) /\ (n - low \in 0..(d - 1) => (n - low) % d = n - low)
    BY <1>1, <1>2, Remainders
  <1>4. Convert(n, k) = ((n - low) % d) + low /\ Highest(k) = low + d - 1
    BY DEF Convert, Highest
  <1> HIDE DEF d, low
  <1>5. Convert(n, k) \in low..Highest(k) /\ (n \in low..Highest(k) => Convert(n, k) = n)
    BY <1>1, <1>2, <1>3, <1>4
  <1>. QED  BY <1>5 DEF low

\* No type reaches below the parser's, and each has 0, the fallback.
LEMMA Ranges ==
    ASSUME NEW k \in Kinds
    PROVE  /\ k.signed \in BOOLEAN /\ k.values \in Nat /\ k.values > 0
           /\ Lowest(k) \in Int /\ Highest(k) \in Int
           /\ 0 \in Lowest(k)..Highest(k) /\ -(Wide \div 2) <= Lowest(k)
  <1>1. /\ Wide \in Nat /\ k.signed \in BOOLEAN /\ k.values \in Nat
        /\ 0 < k.values /\ k.values <= Wide
    BY UploadsAssumption
  <1>2. \A m \in Nat : m > 0 => m \div 2 \in Nat /\ m \div 2 <= m - 1
    OBVIOUS
  <1>3. k.values \div 2 <= Wide \div 2
    BY <1>1
  <1>. QED  BY <1>1, <1>2, <1>3 DEF Lowest, Highest

IntInv ==
    /\ DOMAIN result = Requests
    /\ QueryIntIsExact

LEMMA QueryIntKeeps ==
    ASSUME IntInv, NEW r \in Requests, NEW k \in Kinds, NEW n \in -Wide..Wide, QueryInt(r, n, k)
    PROVE  IntInv'
  <1> DEFINE parsed == [signed |-> TRUE, values |-> Wide]
             answer == IF n \in Lowest(parsed)..Highest(parsed) THEN Convert(n, k) ELSE 0
  <1>1. n \in Int /\ Wide \in Nat /\ Wide \div 2 \in Nat /\ Wide % 2 = 0
    BY UploadsAssumption
  <1>2. Lowest(parsed) = -(Wide \div 2) /\ Highest(parsed) = (Wide \div 2) - 1
    <2>1. Wide = 2 * (Wide \div 2)
      BY <1>1
    <2>. QED  BY <1>1, <2>1 DEF Lowest, Highest
  <1>3. answer \in Lowest(k)..Highest(k)
    BY <1>1, Ranges, ConvertIsExact
  <1>4. n \in Lowest(k)..Highest(k) /\ n < Wide \div 2 => answer = n
    <2> SUFFICES ASSUME n \in Lowest(k)..Highest(k), n < Wide \div 2 PROVE answer = n
      OBVIOUS
    <2>1. Convert(n, k) = n
      BY <1>1, Ranges, ConvertIsExact
    <2>2. n \in Lowest(parsed)..Highest(parsed)
      <3>1. -(Wide \div 2) <= n
        BY <1>1, Ranges
      <3> HIDE DEF parsed
      <3>. QED  BY <1>1, <1>2, <3>1
    <2>. QED  BY <2>1, <2>2
  <1> HIDE DEF answer
  <1>5. /\ result'[r] = [is |-> "int", given |-> n, kind |-> k, answer |-> answer]
        /\ \A q \in Requests \ {r} : result'[q] = result[q]
        /\ DOMAIN result' = Requests
    BY DEF QueryInt, Return, IntInv, answer
  <1>. QED  BY <1>3, <1>4, <1>5 DEF IntInv, QueryIntIsExact

LEMMA IntStep == IntInv /\ [Next]_vars => IntInv'
  <1> SUFFICES ASSUME IntInv, [Next]_vars PROVE IntInv'
    OBVIOUS
  <1>1. ASSUME NEW r \in Requests,
               UNCHANGED result \/ \E answer, handles : answer.is # "int" /\ Return(r, answer, handles)
        PROVE  IntInv'
    BY <1>1 DEF IntInv, QueryIntIsExact, Return
  <1>2. ASSUME NEW r \in Requests, Save(r)
        PROVE  IntInv'
    <2>1. UNCHANGED result \/ \E answer, handles : answer.is # "int" /\ Return(r, answer, handles)
      <3>1. CASE FormFile(r)
        BY <3>1 DEF FormFile, Failure
      <3>2. CASE \E p \in Paths : OpenFile(r, p)
        BY <3>2 DEF OpenFile, Failure
      <3>3. CASE CopyByte(r) \/ CopyEnds(r) \/ Close(r)
        BY <3>3 DEF CopyByte, CopyEnds, Close
      <3>4. CASE Settle(r)
        BY <3>4 DEF Settle, Failure
      <3>. QED  BY <1>2, <3>1, <3>2, <3>3, <3>4 DEF Save
    <2>. QED  BY <1>1, <2>1
  <1>3. ASSUME NEW r \in Requests, FormFiles(r) \/ OpenNext(r)
        PROVE  IntInv'
    <2>1. UNCHANGED result \/ \E answer, handles : answer.is # "int" /\ Return(r, answer, handles)
      BY <1>3 DEF FormFiles, OpenNext, Failure
    <2>. QED  BY <1>1, <2>1
  <1>4. ASSUME NEW r \in Requests, NEW body \in Bodies, DecodeJSON(r, body)
        PROVE  IntInv'
    <2>1. \E answer, handles : answer.is # "int" /\ Return(r, answer, handles)
      BY <1>4 DEF DecodeJSON
    <2>. QED  BY <1>1, <2>1
  <1>5. CASE UNCHANGED vars
    BY <1>5 DEF vars, IntInv, QueryIntIsExact
  <1>. QED  BY <1>2, <1>3, <1>4, <1>5, QueryIntKeeps DEF Next

\* Whatever integer types there are and whichever the handler asks for: QueryInt
\* answers a number of that type, and the number in the query if both the type
\* and the parser have it.
THEOREM IntegersAreExact == Spec => []QueryIntIsExact
  <1>1. Init => IntInv
    BY DEF Init, IntInv, QueryIntIsExact, Pending
  <1>2. IntInv => QueryIntIsExact
    BY DEF IntInv
  <1>. QED  BY <1>1, <1>2, IntStep, PTL DEF Spec
=============================================================================
