------------------------------ MODULE Archive ------------------------------
(***************************************************************************)
(* Numbers of variable length (lib/mar/src/leb128.rs, and the copy of it in*)
(* lib/wasm/src/wasm.rs) and the archive of the initial file system that is*)
(* written by a tool and read at the start (lib/mar/src/lib.rs).           *)
(*                                                                         *)
(* A word of 64 bits is the set of its bits that are one; a byte is a      *)
(* record of its low seven bits, as such a set, and its highest bit.       *)
(***************************************************************************)
EXTENDS Integers, Sequences, FiniteSets, SequencesExt

CONSTANTS ArWords,      \* words that are converted
          ArPlans       \* archives that are written: entries, space in front, bytes lost

Bit == 0..63
Sign == 63
Octet8(low, more) == [low |-> low, more |-> more]

\* The i-th group of seven bits, of a number that goes on with its sign.
Group(v, i, fill) == {j \in 0..6 : IF (7 * i) + j \in Bit THEN (7 * i) + j \in v ELSE fill}
Bits(v, ones) ==    \* 64 without the leading zeros, or ones
    LET odd == {b \in Bit : (b \in v) # ones} IN IF odd = {} THEN 0 ELSE 1 + CHOOSE b \in odd : \A c \in odd : c <= b
Bytes7(v, n, fill) == [i \in 1..n |-> Octet8(Group(v, i - 1, fill), i < n)]

\* write_unsigned: a case for each number of bytes, of seven bits each.
WriteUnsigned(v) == LET bits == Bits(v, FALSE) IN Bytes7(v, IF bits <= 7 THEN 1 ELSE (bits + 6) \div 7, FALSE)

\* write_signed: fewer than seven bits, because one is for the sign.
WriteSigned(v) == LET bits == Bits(v, Sign \in v) IN Bytes7(v, (bits \div 7) + 1, Sign \in v)

\* Leb128Stream::write_unsigned of the WebAssembly library: a loop.
WriteLoop(v) ==
    LET rest[k \in 0..10] == IF k = 0 THEN v ELSE LET w == rest[k - 1] IN {b \in Bit : b + 7 \in w}
        n == CHOOSE k \in 1..10 : rest[k] = {} /\ \A j \in 1..(k - 1) : rest[j] # {}
    IN [k \in 1..n |-> Octet8(rest[k - 1] \cap 0..6, rest[k] # {})]

\* read_unsigned, read_signed: bytes from position p up to one without a
\* successor; what is shifted out of the word is lost.
Failed == [ok |-> FALSE, v |-> {}, at |-> 0]
Ends(s, p) == \E q \in p..Len(s) : ~s[q].more
LastByte(s, p) == CHOOSE q \in p..Len(s) : ~s[q].more /\ \A r \in p..(q - 1) : s[r].more
Shl(low, n) == {b + n : b \in low} \cap Bit
Gathered(s, p, q) == UNION {Shl(s[i].low, 7 * (i - p)) : i \in p..q}
ReadUnsigned(s, p) ==
    IF ~Ends(s, p) THEN Failed ELSE LET q == LastByte(s, p) IN [ok |-> TRUE, v |-> Gathered(s, p, q), at |-> q + 1]
ReadSigned(s, p) ==
    IF ~Ends(s, p) THEN Failed
    ELSE LET q == LastByte(s, p)
         IN [ok |-> TRUE, at |-> q + 1,
             v |-> Gathered(s, p, q) \cup (IF 6 \in s[q].low THEN {b \in Bit : b >= (7 * (q - p)) + 6} ELSE {})]

\* try_into of the smaller types.
FitsUnsigned(v, width) == \A b \in v : b < width
FitsSigned(v, width) == \A b \in Bit : b >= width - 1 => (b \in v <=> Sign \in v)

-----------------------------------------------------------------------------
(* The archive *)

VARIABLES arPlan, arWord, arLeft, arOut, arFile, arAt, arSeen, arState
arVars == <<arPlan, arWord, arLeft, arOut, arFile, arAt, arSeen, arState>>

TAG_END == 1
TAG_NAMESPACE == 2
TAG_FILE == 3

\* Numbers of the small sizes that occur here, as words and back.
Word(n) == {b \in 0..11 : (n \div (2^b)) % 2 = 1}
Value(v) == LET sum[k \in 0..12] == IF k = 0 THEN 0 ELSE sum[k - 1] + (IF k - 1 \in v THEN 2^(k - 1) ELSE 0) IN sum[12]
Raw(n) == Octet8(Word(n) \cap 0..6, 7 \in Word(n))

\* Contents are n bytes of the kind c.
Content(c, n) == [i \in 1..n |-> Raw(c)]
Blob(s) == WriteUnsigned(Word(Len(s))) \o s
Tagged(tag, s) == <<Raw(tag)>> \o Blob(s)

\* Entry::_write_to; names are told apart by their length and their kind.
Written(e) ==
    LET name == Blob(Content(e.c, e.name))
        xattr == Blob(<<>>)
    IN CASE e.tag = TAG_END -> Tagged(TAG_END, <<>>)
         [] e.tag = TAG_NAMESPACE -> Tagged(TAG_NAMESPACE, name \o xattr)
         [] OTHER -> LET leading == name \o xattr \o WriteUnsigned(Word(e.size))
                     IN <<Raw(TAG_FILE)>> \o WriteUnsigned(Word(Len(leading) + e.size)) \o leading \o Content(e.c, e.size)
EndEntry == [tag |-> TAG_END, c |-> 0, name |-> 0, size |-> 0]

ArInit ==
    /\ arPlan \in ArPlans /\ arWord \in (IF arPlan.entries = <<>> THEN ArWords ELSE {{}})
    /\ arLeft = arPlan.entries /\ arOut = <<>> /\ arFile = [offset |-> 0, size |-> 0, bytes |-> <<>>]
    /\ arAt = 1 /\ arSeen = <<>> /\ arState = "write"

WriteEntry ==
    /\ arState = "write" /\ arLeft # <<>> /\ arOut' = arOut \o Written(Head(arLeft)) /\ arLeft' = Tail(arLeft)
    /\ UNCHANGED <<arPlan, arWord, arFile, arAt, arSeen, arState>>

\* finalize; then the file loses some bytes at its end.
SIZE_OF_HEADER == 16
Finalize ==
    LET out == arOut \o Written(EndEntry)
        offset == SIZE_OF_HEADER + arPlan.space
        bytes == Content(0, offset) \o out
    IN /\ arState = "write" /\ arLeft = <<>> /\ arState' = "open"
       /\ arFile' = [offset |-> offset, size |-> Len(out), bytes |-> SubSeq(bytes, 1, Len(bytes) - arPlan.lost)]
       /\ UNCHANGED <<arPlan, arWord, arLeft, arOut, arAt, arSeen>>

\* ArchiveReader::from_slice.
OpenArchive ==
    LET last == arFile.offset + arFile.size
    IN /\ arState = "open"
       /\ IF Len(arFile.bytes) < last THEN arState' = "refused" /\ UNCHANGED arOut
          ELSE arState' = "read" /\ arOut' = SubSeq(arFile.bytes, arFile.offset + 1, last)
       /\ UNCHANGED <<arPlan, arWord, arLeft, arFile, arAt, arSeen>>

\* read_blob at p.
ReadBlob(s, p) ==
    LET n == ReadUnsigned(s, p)
        size == Value(n.v)
    IN IF ~n.ok THEN [ok |-> FALSE, s |-> <<>>, at |-> 0]
       ELSE IF n.at + size - 1 > Len(s) THEN [ok |-> FALSE, s |-> <<>>, at |-> 0]
       ELSE [ok |-> TRUE, s |-> SubSeq(s, n.at, n.at + size - 1), at |-> n.at + size]

ReadEntry(tag, blob) ==
    LET name == ReadBlob(blob, 1)
        xattr == ReadBlob(blob, name.at)
        content == ReadBlob(blob, xattr.at)
    IN [tag |-> tag, c |-> IF name.s = <<>> THEN 0 ELSE Value(name.s[1].low), name |-> Len(name.s),
        size |-> IF tag = TAG_FILE THEN Len(content.s) ELSE 0]

\* next: it is called until it returns the end; behind that it would panic.
NextEntry ==
    LET tag == Value(arOut[arAt].low)
        blob == ReadBlob(arOut, arAt + 1)
    IN /\ arState = "read" /\ arAt <= Len(arOut) /\ blob.ok
       /\ arAt' = blob.at
       /\ IF tag = TAG_END THEN arState' = "end" /\ UNCHANGED arSeen
          ELSE arSeen' = Append(arSeen, ReadEntry(tag, blob.s)) /\ UNCHANGED arState
       /\ UNCHANGED <<arPlan, arWord, arLeft, arOut, arFile>>

ArchiveNext == WriteEntry \/ Finalize \/ OpenArchive \/ NextEntry

-----------------------------------------------------------------------------
(* A number comes back from its bytes, with and without a sign, and the     *)
(* reader stands behind it; no shorter encoding would do, and both writers  *)
(* agree.  A number that fits a type is written in as many bytes as its     *)
(* bits need (Leb128Writer, Leb128Reader, Leb128Stream).                    *)
NumbersKept ==
    LET u == WriteUnsigned(arWord)
        s == WriteSigned(arWord)
        behind == <<Octet8({0}, FALSE)>>
    IN arState = "write" /\ arPlan.entries = <<>> =>
       /\ ReadUnsigned(u \o behind, 1) = [ok |-> TRUE, v |-> arWord, at |-> Len(u) + 1]
       /\ ReadSigned(s \o behind, 1) = [ok |-> TRUE, v |-> arWord, at |-> Len(s) + 1]
       /\ u = WriteLoop(arWord)
       /\ Len(u) > 1 => u[Len(u)].low # {}
       /\ Len(s) > 1 => ~(s[Len(s)].low \in {{}, 0..6} /\ (6 \in s[Len(s)].low) = (6 \in s[Len(s) - 1].low))
       /\ \A w \in {8, 16, 32} : /\ FitsUnsigned(arWord, w) => Len(u) <= (w + 6) \div 7
                                 /\ FitsSigned(arWord, w) => Len(s) <= (w + 6) \div 7
       /\ ~ReadUnsigned(SubSeq(u, 1, Len(u) - 1), 1).ok /\ ~ReadSigned(SubSeq(s, 1, Len(s) - 1), 1).ok

(* What is read from an archive is what was written, in order; a file that  *)
(* has lost bytes is refused before anything is read from it, and reading   *)
(* ends exactly at the end.                                                 *)
EntriesKept ==
    /\ IsPrefix(arSeen, arPlan.entries)
    /\ arState = "end" => arSeen = arPlan.entries /\ arAt = Len(arOut) + 1 /\ arPlan.lost = 0
    /\ arState = "refused" => arPlan.lost > 0
    /\ arState = "read" => arAt <= Len(arOut) /\ ReadBlob(arOut, arAt + 1).ok

(* Everything numbers and archives keep.                                    *)
ArchiveInv == NumbersKept /\ EntriesKept
=============================================================================
