------------------------------- MODULE Uploads ------------------------------
(***************************************************************************)
(* The helpers handlers read a request with: SaveUploadedFile and          *)
(* FormFiles on the parts of a multipart form, DecodeJSON on a body,       *)
(* QueryInt and QueryBool on the query.  Handlers of different requests    *)
(* run at the same time and may save to the same path.                     *)
(*                                                                         *)
(* A byte of an upload is the pair of its request and its place; a byte no *)
(* one wrote is a hole.  A path leads to an inode, which writers that      *)
(* opened it go on writing to when the path is removed.  An integer type   *)
(* of w bits is known by how many values it has, 2^w.                      *)
(***************************************************************************)
EXTENDS Integers, Sequences, FiniteSets, SequencesExt

CONSTANTS Requests,     \* requests being handled
          Paths,        \* where their handlers save
          Fields,       \* form fields: the lengths of the files in them
          MaxBytes,     \* the limit of saves and of JSON bodies
          Bodies,       \* JSON bodies, as sequences of lexemes, or NoBody
          NoBody,
          Wide,         \* values of the parser's integer type, 2^64 in the code
          Kinds         \* integer types handlers ask for: signed, and how many values

None == "none"
Old  == "old"           \* the inode of a file from before
Hole == "hole"
Dst  == 0                \* the handle of the file written

ASSUME UploadsAssumption ==
    /\ Requests # {} /\ Requests \cap {None, Old} = {}
    /\ None \notin Paths
    /\ Fields \subseteq Seq(Nat)
    /\ MaxBytes \in Nat \ {0}
    /\ Bodies \ {NoBody} \subseteq Seq({"value", "blank", "junk"})
    /\ Wide \in Nat \ {0} /\ Wide % 2 = 0
    /\ \A k \in Kinds : k.signed \in BOOLEAN /\ k.values \in 1..Wide /\ k.values % 2 = 0

VARIABLES
    pc,         \* pc[r]: what r's handler is about to do
    path,       \* path[r]: where r saves
    parts,      \* parts[r]: the lengths of the files in r's form field
    open,       \* open[r]: handles r has open: parts, and Dst
    ino,        \* ino[r]: the inode r writes to
    written,    \* written[r]: bytes r has copied
    failed,     \* failed[r]: the copy or the close went wrong
    disk,       \* disk[p]: the inode p leads to, or None
    content,    \* content[i]: the bytes of inode i
    result,     \* result[r]: what the helper returned, with what it was given
    latest,     \* history: the request that opened the path last, or Old
    crossed     \* history: r's save overlapped another to its path

fileVars == <<ino, disk, content, latest, crossed>>
vars == <<pc, path, parts, open, written, failed, fileVars, result>>

Pending == [is |-> "pending"]

Init ==
    /\ pc = [r \in Requests |-> "new"]
    /\ path = [r \in Requests |-> None]
    /\ parts = [r \in Requests |-> <<>>]
    /\ open = [r \in Requests |-> {}]
    /\ ino = [r \in Requests |-> None]
    /\ written = [r \in Requests |-> 0]
    /\ failed = [r \in Requests |-> FALSE]
    /\ disk \in [Paths -> {None, Old}]
    /\ \A p, q \in Paths : disk[p] = Old /\ disk[q] = Old => p = q
    /\ content = [i \in Requests \cup {Old} |-> IF i = Old THEN <<<<Old, 1>>>> ELSE <<>>]
    /\ result = [r \in Requests |-> Pending]
    /\ latest = [p \in Paths |-> Old]
    /\ crossed = [r \in Requests |-> FALSE]

\* The helper returns, its deferred closes done, and leaves these handles open.
Return(r, answer, handles) ==
    /\ pc' = [pc EXCEPT ![r] = "done"]
    /\ open' = [open EXCEPT ![r] = handles]
    /\ result' = [result EXCEPT ![r] = answer]

Failure(why) == [is |-> why]
-----------------------------------------------------------------------------
(***************************************************************************)
(* SaveUploadedFile                                                        *)
(***************************************************************************)

\* FormFile opens the first part; the field may be empty.
FormFile(r) ==
    /\ pc[r] = "new"
    /\ parts' \in {[parts EXCEPT ![r] = field] : field \in Fields}
    /\ \/ parts'[r] = <<>> /\ Return(r, Failure("ErrNoMultipartFile"), {})
       \/ Return(r, Failure("open"), {})
       \/ /\ parts'[r] # <<>>
          /\ pc' = [pc EXCEPT ![r] = "create"]
          /\ open' = [open EXCEPT ![r] = {1}]
          /\ UNCHANGED result
    /\ UNCHANGED <<path, written, failed, fileVars>>

Saving(r) == pc[r] \in {"copy", "close", "settle"}

\* Mutant: an existing file is opened without O_TRUNC.
Truncated_Kept(i) == content[i]

Truncated(i) == <<>>

\* MkdirAll, then OpenFile, which truncates the file or makes a new one.
OpenFile(r, p) ==
    /\ pc[r] = "create"
    /\ path' = [path EXCEPT ![r] = p]
    /\ \/ /\ Return(r, Failure("create"), {})
          /\ UNCHANGED fileVars
       \/ LET i == IF disk[p] = None THEN r ELSE disk[p]
              others == {q \in Requests : Saving(q) /\ path[q] = p}
          IN  /\ pc' = [pc EXCEPT ![r] = "copy"]
              /\ open' = [open EXCEPT ![r] = @ \cup {Dst}]
              /\ disk' = [disk EXCEPT ![p] = i]
              /\ ino' = [ino EXCEPT ![r] = i]
              /\ content' = [content EXCEPT ![i] = Truncated(i)]
              /\ latest' = [latest EXCEPT ![p] = r]
              /\ crossed' = [q \in Requests |-> crossed[q] \/ q \in others \/ (q = r /\ others # {})]
              /\ UNCHANGED result
    /\ UNCHANGED <<parts, written, failed>>

\* A write at an offset past the end leaves a hole.
WriteAt(bytes, at, byte) ==
    [k \in 1..(IF at < Len(bytes) THEN Len(bytes) ELSE at + 1) |->
        IF k = at + 1 THEN byte ELSE IF k \in DOMAIN bytes THEN bytes[k] ELSE Hole]

\* The limited reader gives one byte more than the limit.
CopyEnd(r) == IF parts[r][1] > MaxBytes + 1 THEN MaxBytes + 1 ELSE parts[r][1]

CopyByte(r) ==
    /\ pc[r] = "copy"
    /\ written[r] < CopyEnd(r)
    /\ content' = [content EXCEPT ![ino[r]] = WriteAt(@, written[r], <<r, written[r] + 1>>)]
    /\ written' = [written EXCEPT ![r] = @ + 1]
    /\ UNCHANGED <<pc, path, parts, open, ino, failed, disk, result, latest, crossed>>

\* The copy is at its end, or reading or writing fails.
CopyEnds(r) ==
    /\ pc[r] = "copy"
    /\ failed' \in {failed, [failed EXCEPT ![r] = TRUE]}
    /\ failed'[r] \/ written[r] = CopyEnd(r)
    /\ pc' = [pc EXCEPT ![r] = "close"]
    /\ UNCHANGED <<path, parts, open, written, fileVars, result>>

Close(r) ==
    /\ pc[r] = "close"
    /\ failed' \in {failed, [failed EXCEPT ![r] = TRUE]}
    /\ pc' = [pc EXCEPT ![r] = "settle"]
    /\ open' = [open EXCEPT ![r] = @ \ {Dst}]
    /\ UNCHANGED <<path, parts, written, fileVars, result>>

\* Mutant: only an upload that is too long is removed.
Unwanted_TooLong(r) == written[r] > MaxBytes

Unwanted(r) == written[r] > MaxBytes \/ failed[r]

\* Too long, a failed copy, a failed close: the path is removed, whoever's file
\* it leads to.
Settle(r) ==
    /\ pc[r] = "settle"
    /\ disk' = [disk EXCEPT ![path[r]] = IF Unwanted(r) THEN None ELSE @]
    /\ Return(r, CASE written[r] > MaxBytes -> Failure("ErrBodyTooLarge")
                   [] written[r] <= MaxBytes /\ failed[r] -> Failure("write")
                   [] OTHER -> [is |-> "saved", size |-> written[r]], {})
    /\ UNCHANGED <<path, parts, ino, written, failed, content, latest, crossed>>
-----------------------------------------------------------------------------
(***************************************************************************)
(* FormFiles                                                               *)
(***************************************************************************)

\* The form may not parse; the field may be empty.
FormFiles(r) ==
    /\ pc[r] = "new"
    /\ parts' \in {[parts EXCEPT ![r] = field] : field \in Fields}
    /\ \/ Return(r, Failure("parse"), {})
       \/ parts'[r] = <<>> /\ Return(r, Failure("ErrNoMultipartFile"), {})
       \/ parts'[r] # <<>> /\ pc' = [pc EXCEPT ![r] = "opening"] /\ UNCHANGED <<open, result>>
    /\ UNCHANGED <<path, written, failed, fileVars>>

\* Mutant: what was opened before the failure stays open.
LeftOpen_All(r) == open[r]

LeftOpen(r) == {}

\* Files are opened in order; a failure closes those opened before it.
OpenNext(r) ==
    /\ pc[r] = "opening"
    /\ LET next == Cardinality(open[r]) + 1 IN
         \/ /\ next > Len(parts[r])
            /\ Return(r, [is |-> "files", count |-> Len(parts[r])], open[r])
         \/ /\ next <= Len(parts[r])
            /\ open' = [open EXCEPT ![r] = @ \cup {next}]
            /\ UNCHANGED <<pc, result>>
         \/ next <= Len(parts[r]) /\ Return(r, Failure("open"), LeftOpen(r))
    /\ UNCHANGED <<path, parts, written, failed, fileVars>>
-----------------------------------------------------------------------------
(***************************************************************************)
(* DecodeJSON and the query                                                *)
(***************************************************************************)

\* Decode skips blanks, takes one value, and stops where it ends.
Skip(lexemes) ==
    LET values == {k \in DOMAIN lexemes : lexemes[k] # "blank"}
    IN  IF values = {} THEN <<>> ELSE SubSeq(lexemes, Min(values), Len(lexemes))

\* Mutant: what follows the first value is not looked at.
Decoded_First(lexemes) ==
    IF Skip(lexemes) # <<>> /\ Head(Skip(lexemes)) = "value" THEN "ok" ELSE "malformed"

\* The second Decode must find the end of the input.
Decoded(lexemes) ==
    LET rest == Skip(lexemes)
    IN  IF rest # <<>> /\ Head(rest) = "value" /\ Skip(Tail(rest)) = <<>> THEN "ok" ELSE "malformed"

\* Reading stops one lexeme past the limit, and may fail before that.
DecodeJSON(r, body) ==
    /\ pc[r] = "new"
    /\ LET given == [is |-> "json", body |-> body, answer |-> "read"]
           Answers(answer) == Return(r, [given EXCEPT !.answer = answer], {})
       IN  \/ body # NoBody /\ Return(r, given, {})
           \/ (body = NoBody \/ body = <<>>) /\ Answers("ErrEmptyBody")
           \/ /\ body # NoBody /\ body # <<>>
              /\ Answers(IF Len(body) > MaxBytes THEN "ErrBodyTooLarge" ELSE Decoded(body))
    /\ UNCHANGED <<path, parts, written, failed, fileVars>>

Lowest(k)  == IF k.signed THEN -(k.values \div 2) ELSE 0
Highest(k) == Lowest(k) + k.values - 1

\* Mutant: a signed result is not sign-extended.
Convert_Unsigned(n, k) == n % k.values

\* The conversion keeps the low bits.
Convert(n, k) == ((n - Lowest(k)) % k.values) + Lowest(k)

\* ParseInt reads a signed 64-bit number, whatever type was asked for; the fallback is 0.
QueryInt(r, n, k) ==
    /\ pc[r] = "new"
    /\ LET parsed == [signed |-> TRUE, values |-> Wide] IN
         Return(r, [is |-> "int", given |-> n, kind |-> k,
                    answer |-> IF n \in Lowest(parsed)..Highest(parsed) THEN Convert(n, k) ELSE 0], {})
    /\ UNCHANGED <<path, parts, written, failed, fileVars>>
-----------------------------------------------------------------------------
Save(r) ==
    \/ FormFile(r) \/ \E p \in Paths : OpenFile(r, p)
    \/ CopyByte(r) \/ CopyEnds(r) \/ Close(r) \/ Settle(r)

Next ==
    \E r \in Requests :
        \/ Save(r)
        \/ FormFiles(r) \/ OpenNext(r)
        \/ \E body \in Bodies : DecodeJSON(r, body)
        \/ \E k \in Kinds, n \in -Wide..Wide : QueryInt(r, n, k)

Spec == Init /\ [][Next]_vars
-----------------------------------------------------------------------------
\* The bytes of r's upload, from the first to the nth.
Upload(r, n) == [k \in 1..n |-> <<r, k>>]

\* A save that no other save to the same path overlaps leaves the whole upload
\* and reports its size, or fails and leaves nothing.
SaveIsWhole ==
    \A r \in Requests :
        pc[r] = "done" /\ ino[r] # None /\ ~crossed[r] /\ latest[path[r]] = r
            => IF result[r].is = "saved"
                 THEN /\ disk[path[r]] # None
                      /\ content[disk[path[r]]] = Upload(r, parts[r][1])
                      /\ result[r].size = parts[r][1]
                 ELSE disk[path[r]] = None

\* When all saves to a path are over, it leads to no file beyond the limit, and
\* to none with bytes of a failed save, whatever overlapped.
OnlySavedBytes ==
    \A p \in Paths :
        (disk[p] # None /\ \A r \in Requests : path[r] = p => ~Saving(r)) =>
            LET bytes == content[disk[p]]
            IN  /\ Len(bytes) <= MaxBytes
                /\ \A k \in DOMAIN bytes : bytes[k] # Hole /\ bytes[k][1] # Old
                        => result[bytes[k][1]].is = "saved"

\* A helper that has returned holds only the handles it returned: all files of
\* the field, or none.
HandlesAreReturned ==
    \A r \in Requests :
        pc[r] = "done" => open[r] = IF result[r].is = "files" THEN 1..result[r].count ELSE {}

OneValue(lexemes) ==
    \E k \in DOMAIN lexemes :
        lexemes[k] = "value" /\ \A j \in DOMAIN lexemes \ {k} : lexemes[j] = "blank"

\* DecodeJSON accepts a body that is one value between blanks and within the
\* limit, and nothing else.
DecodeIsStrict ==
    \A r \in Requests :
        result[r].is = "json" /\ result[r].answer # "read" =>
            (result[r].answer = "ok" <=>
                /\ result[r].body # NoBody
                /\ Len(result[r].body) <= MaxBytes
                /\ OneValue(result[r].body))

\* QueryInt returns the number whenever the type asked for and the parser have it.
QueryIntIsExact ==
    \A r \in Requests :
        result[r].is = "int" =>
            LET k == result[r].kind
                n == result[r].given
            IN  /\ result[r].answer \in Lowest(k)..Highest(k)
                /\ n \in Lowest(k)..Highest(k) /\ n < Wide \div 2 => result[r].answer = n
=============================================================================
