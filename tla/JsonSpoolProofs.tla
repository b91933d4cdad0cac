-------------------------- MODULE JsonSpoolProofs --------------------------
(***************************************************************************)
(* The spool implements the byte log, for every set of bytes, every size   *)
(* of the memory and of the buffer, and every nesting of replays.          *)
(***************************************************************************)
EXTENDS JsonSpool, FiniteSetTheorems, InductionLemmas, TLAPS

USE SpoolAssumption

-----------------------------------------------------------------------------
(* Sequences *)

(* a range inside a sequence *)
LEMMA BytesFacts ==
    ASSUME NEW s \in Seq(Byte), NEW m \in Nat, NEW n \in Nat, m + n <= Len(s)
    PROVE  /\ Bytes(s, m, n) \in Seq(Byte)
           /\ Len(Bytes(s, m, n)) = n
           /\ \A i \in 1 .. n : Bytes(s, m, n)[i] = s[m + i]
  BY DEF Bytes

LEMMA OneByte ==
    ASSUME NEW s \in Seq(Byte), NEW m \in Nat, m + 1 <= Len(s)
    PROVE  Bytes(s, m, 1) = <<s[m + 1]>>
<1>1. /\ Bytes(s, m, 1) \in Seq(Byte) /\ Len(Bytes(s, m, 1)) = 1
      /\ Bytes(s, m, 1)[1] = s[m + 1]
  BY DEF Bytes
<1>2. s[m + 1] \in Byte
  OBVIOUS
<1> QED BY <1>1, <1>2

LEMMA WholeSequence ==
    ASSUME NEW s \in Seq(Byte) PROVE SubSeq(s, 1, Len(s)) = s
  OBVIOUS

(* writing at the end of what is there keeps it and adds the data *)
LEMMA ConcatFacts ==
    ASSUME NEW s \in Seq(Byte), NEW t \in Seq(Byte)
    PROVE  /\ s \o t \in Seq(Byte)
           /\ Len(s \o t) = Len(s) + Len(t)
           /\ SubSeq(s \o t, 1, Len(s)) = s
  OBVIOUS

LEMMA PieceIsSeq ==
    ASSUME NEW data \in Piece PROVE data \in Seq(Byte)
  BY PieceAssumption

LEMMA PrefixIsSeq ==
    ASSUME NEW S, NEW s \in Seq(S), NEW k \in 0 .. Len(s)
    PROVE  /\ SubSeq(s, 1, k) \in Seq(S) /\ Len(SubSeq(s, 1, k)) = k
           /\ \A i \in 1 .. k : SubSeq(s, 1, k)[i] = s[i]
  OBVIOUS

(* a stack: its top, and what is left without it *)
LEMMA StackFacts ==
    ASSUME NEW S, NEW s \in Seq(S), s # <<>>
    PROVE  /\ Len(s) \in 1 .. Len(s) /\ s[Len(s)] \in S
           /\ SubSeq(s, 1, Len(s) - 1) \in Seq(S)
           /\ Len(SubSeq(s, 1, Len(s) - 1)) = Len(s) - 1
           /\ \A i \in 1 .. (Len(s) - 1) : SubSeq(s, 1, Len(s) - 1)[i] = s[i]
<1>1. Len(s) \in Nat /\ Len(s) # 0
  OBVIOUS
<1>2. s[Len(s)] \in S
  BY <1>1
<1>3. Len(s) - 1 \in 0 .. Len(s)
  BY <1>1
<1>4. Len(s) \in 1 .. Len(s)
  BY <1>1
<1> QED BY <1>2, <1>3, <1>4, PrefixIsSeq, Zenon

LEMMA StackTop ==
    ASSUME NEW S, NEW s \in Seq(S), s # <<>>, NEW e \in S
    PROVE  /\ [s EXCEPT ![Len(s)] = e] \in Seq(S)
           /\ Len([s EXCEPT ![Len(s)] = e]) = Len(s)
           /\ \A i \in 1 .. Len(s) :
                [s EXCEPT ![Len(s)] = e][i] = IF i = Len(s) THEN e ELSE s[i]
  OBVIOUS

(* an emptied cache *)
LEMMA CacheEmptied ==
    ASSUME NEW c \in [offset : Nat, data : Seq(Byte)]
    PROVE  /\ [c EXCEPT !.data = <<>>] \in [offset : Nat, data : Seq(Byte)]
           /\ [c EXCEPT !.data = <<>>].data = <<>>
<1>1. <<>> \in Seq(Byte)
  OBVIOUS
<1> QED BY <1>1, Zenon

LEMMA SmallerFacts ==
    ASSUME NEW a \in Nat, NEW b \in Nat
    PROVE  /\ Smaller(a, b) \in Nat /\ Smaller(a, b) <= a /\ Smaller(a, b) <= b
           /\ a # 0 /\ b # 0 => Smaller(a, b) # 0
  BY DEF Smaller

-----------------------------------------------------------------------------
(* The inductive invariant *)

(* The record's bytes are where the spool says: in memory, or in the file,   *)
(* which holds more than the record only after an append failed.             *)
SizeInv ==
    /\ file.open => size <= Len(file.data)
    /\ file.open /\ phase # "failed" => size = Len(file.data)
    /\ ~file.open => size = Len(memory)

(* Nobody reads while the caller fills, nothing is cached, and the file is   *)
(* positioned at its end.                                                    *)
FillInv ==
    /\ phase # "read" => Idle /\ cache.data = <<>>
    /\ phase = "fill" /\ file.open => file.pos = size

(* The slices being replayed are parts of the record. *)
ReplayInv ==
    \A i \in 1 .. Len(replays) :
      file.open /\ replays[i].offset + replays[i].len <= size

(* The reader's offset is the position of the file. *)
ReaderInv ==
    reader # -1 =>
      /\ replays = <<>> /\ ~find.on /\ reader <= size
      /\ file.open => file.pos = reader

(* So is the offset of a search for the end of a string, once the file is    *)
(* positioned.                                                               *)
FindInv ==
    find.on =>
      /\ replays = <<>> /\ reader = -1 /\ find.pos <= find.end /\ find.end <= size
      /\ find.seek => file.open
      /\ file.open /\ ~find.seek => file.pos = find.pos

(* The cache holds bytes of the file, inside the record. *)
CacheInv ==
    cache.data # <<>> =>
      /\ file.open /\ cache.offset + Len(cache.data) <= size
      /\ cache.data = Bytes(file.data, cache.offset, Len(cache.data))

SpoolInv ==
    /\ TypeOK
    /\ SizeInv /\ FillInv /\ ReplayInv /\ ReaderInv /\ FindInv /\ CacheInv

-----------------------------------------------------------------------------
(* What the invariant says of the stored bytes *)

LEMMA SpoolNumbers ==
    ASSUME SpoolInv
    PROVE  size \in 0 .. MaxSize /\ size \in Nat /\ reader \in -1 .. MaxSize /\ file \in File
<1>1. size \in 0 .. MaxSize /\ reader \in -1 .. MaxSize /\ file \in File
  BY Zenon DEF SpoolInv, TypeOK
<1> QED BY <1>1

LEMMA StoredFacts ==
    ASSUME SpoolInv
    PROVE  /\ Stored \in Seq(Byte) /\ Len(Stored) = size
           /\ ~file.open => Stored = memory
           /\ file.open /\ phase # "failed" => Stored = file.data
  BY DEF SpoolInv, TypeOK, SizeInv, Stored, File

(* a part of the file inside the record is that part of the record *)
LEMMA FilePart ==
    ASSUME SpoolInv, file.open, NEW m \in Nat, NEW n \in Nat, m + n <= size
    PROVE  Bytes(file.data, m, n) = Bytes(Stored, m, n)
  BY DEF SpoolInv, TypeOK, SizeInv, Stored, File, Bytes

LEMMA CacheCurrent == SpoolInv => CacheIsCurrent
<1> SUFFICES ASSUME SpoolInv, cache.data # <<>>
             PROVE  file.open /\ cache.data = Bytes(Stored, cache.offset, Len(cache.data))
  BY DEF CacheIsCurrent
<1>1. cache.offset \in Nat /\ Len(cache.data) \in Nat
  BY DEF SpoolInv, TypeOK
<1> QED BY <1>1, FilePart DEF SpoolInv, CacheInv

-----------------------------------------------------------------------------
(* Every action keeps the invariant *)

LEMMA InitInv == Init => SpoolInv
  BY DEF Init, SpoolInv, TypeOK, SizeInv, FillInv, ReplayInv, ReaderInv, FindInv, CacheInv,
         Idle, Closed, NoCache, NoFind, Find, Slice, File

(* no search is in progress *)
LEMMA NoSearch ==
    ~NoFind.on /\ NoFind.out = 0 /\ ~NoFind.unterminated /\ NoFind \in Find
  BY DEF NoFind, Find

LEMMA IdleFacts == Idle => replays = <<>> /\ reader = -1 /\ ~find.on
  BY NoSearch DEF Idle

LEMMA ResetInv ==
    ASSUME SpoolInv, Reset PROVE SpoolInv'
  BY DEF Reset, SpoolInv, TypeOK, SizeInv, FillInv, ReplayInv, ReaderInv, FindInv, CacheInv,
         Idle, Closed, NoCache, NoFind, Find, Slice, File

LEMMA SealInv ==
    ASSUME SpoolInv, Seal PROVE SpoolInv'
  BY DEF Seal, SpoolInv, TypeOK, SizeInv, FillInv, ReplayInv, ReaderInv, FindInv, CacheInv,
         Idle, File, Bytes

(* while the caller fills, nothing else goes on *)
LEMMA FillKeeps ==
    ASSUME SpoolInv, phase # "read", phase' # "read", cache'.data = <<>>,
           phase' = "fill" /\ file'.open => file'.pos = size',
           UNCHANGED <<replays, reader, find>>
    PROVE  FillInv' /\ ReplayInv' /\ ReaderInv' /\ FindInv' /\ CacheInv'
<1>1. Idle
  BY Zenon DEF SpoolInv, FillInv
<1>2. Idle'
  BY <1>1, Zenon DEF Idle
<1>3. replays' = <<>> /\ reader' = -1 /\ ~find'.on
  BY <1>1, IdleFacts, Zenon
<1>4. FillInv' /\ CacheInv'
  BY <1>2, Zenon DEF FillInv, CacheInv
<1>5. ReaderInv' /\ FindInv'
  BY <1>3 DEF ReaderInv, FindInv
<1>6. ReplayInv'
  BY <1>3 DEF ReplayInv
<1> QED BY <1>4, <1>5, <1>6

LEMMA AppendMemoryInv ==
    ASSUME SpoolInv, NEW data \in Piece, AppendMemory(data) PROVE SpoolInv'
<1>1. data \in Seq(Byte)
  BY PieceIsSeq
<1>2. memory \in Seq(Byte) /\ memory' \in Seq(Byte) /\ Len(memory') = Len(memory) + Len(data)
  BY <1>1, ConcatFacts DEF AppendMemory, SpoolInv, TypeOK
<1>3. size' \in 0 .. MaxSize /\ size' = Len(memory') /\ Len(memory') <= Memory
  <2>1. size \in Nat /\ Len(data) \in Nat /\ Len(memory) \in Nat /\ size = Len(memory)
    BY <1>1 DEF AppendMemory, SpoolInv, TypeOK, SizeInv
  <2>2. /\ size + Len(data) <= MaxSize /\ size' = size + Len(data)
        /\ Len(data) <= Memory - Len(memory)
    BY DEF AppendMemory
  <2> QED BY <1>2, <2>1, <2>2
<1>4. TypeOK' /\ SizeInv'
  BY <1>2, <1>3 DEF AppendMemory, SpoolInv, TypeOK, SizeInv
<1>5. FillInv' /\ ReplayInv' /\ ReaderInv' /\ FindInv' /\ CacheInv'
  <2>1. phase = "fill" /\ ~file.open /\ UNCHANGED <<file, cache, phase, replays, reader, find>>
    BY DEF AppendMemory
  <2>2. cache.data = <<>>
    BY <2>1 DEF SpoolInv, FillInv
  <2> QED BY <2>1, <2>2, FillKeeps
<1> QED BY <1>4, <1>5 DEF SpoolInv

(* What a spill and a write leave in the file while the caller fills: the    *)
(* record so far, the new data and the position behind it.                   *)
LEMMA WrittenFacts ==
    ASSUME SpoolInv, phase = "fill", NEW data \in Seq(Byte)
    PROVE  /\ Written(Spilled, data) \in File
           /\ Written(Spilled, data).open
           /\ Written(Spilled, data).data = Stored \o data
           /\ Written(Spilled, data).pos = size + Len(data)
<1>1. Spilled \in File /\ Spilled.open /\ Spilled.pos = size
      /\ SubSeq(Spilled.data, 1, Spilled.pos) = Stored
  BY DEF SpoolInv, TypeOK, SizeInv, FillInv, Spilled, Stored, File
<1>2. Stored \in Seq(Byte) /\ Stored \o data \in Seq(Byte)
  BY StoredFacts, ConcatFacts
<1>3. size + Len(data) \in Nat
  BY DEF SpoolInv, TypeOK
<1> QED BY <1>1, <1>2, <1>3 DEF Written, File

LEMMA AppendFileInv ==
    ASSUME SpoolInv, NEW data \in Piece, AppendFile(data) PROVE SpoolInv'
<1>1. data \in Seq(Byte)
  BY PieceIsSeq
<1>2. file' \in File /\ file'.open /\ file'.data = Stored \o data
      /\ file'.pos = size + Len(data)
  BY <1>1, WrittenFacts DEF AppendFile
<1>3. Len(file'.data) = size + Len(data)
  <2>1. Stored \in Seq(Byte) /\ Len(Stored) = size
    BY StoredFacts, Zenon
  <2>2. Len(Stored \o data) = Len(Stored) + Len(data)
    BY <1>1, <2>1, ConcatFacts, Zenon
  <2> QED BY <1>2, <2>1, <2>2, Zenon
<1>4. size' \in 0 .. MaxSize /\ size' = Len(file'.data)
  <2>1. size \in Nat /\ Len(data) \in Nat
    BY <1>1 DEF SpoolInv, TypeOK
  <2>2. size + Len(data) <= MaxSize /\ size' = size + Len(data)
    BY DEF AppendFile
  <2> QED BY <1>3, <2>1, <2>2
<1>5. cache' \in [offset : Nat, data : Seq(Byte)] /\ cache'.data = <<>>
  BY CacheEmptied DEF AppendFile, SpoolInv, TypeOK
<1>6. TypeOK' /\ SizeInv'
  BY <1>2, <1>4, <1>5 DEF AppendFile, SpoolInv, TypeOK, SizeInv
<1>7. FillInv' /\ ReplayInv' /\ ReaderInv' /\ FindInv' /\ CacheInv'
  <2>1. size' = file'.pos /\ phase = "fill" /\ UNCHANGED <<phase, replays, reader, find>>
    BY <1>2, <1>3, <1>4 DEF AppendFile
  <2> QED BY <1>5, <2>1, FillKeeps
<1> QED BY <1>6, <1>7, Zenon DEF SpoolInv

(* After a failed append the file still begins with the record. *)
LEMMA FailedFile ==
    ASSUME SpoolInv, NEW data \in Piece, AppendFails(data)
    PROVE  /\ file' \in File
           /\ file' = file \/ /\ file'.open /\ size <= Len(file'.data)
                              /\ SubSeq(file'.data, 1, size) = Stored
<1>1. data \in Seq(Byte)
  BY PieceIsSeq
<1>2. CASE file' = file
  BY <1>2 DEF SpoolInv, TypeOK
<1>3. ASSUME NEW k \in 0 .. Len(data), file' = Written(Spilled, SubSeq(data, 1, k))
      PROVE  file' \in File /\ file'.open /\ size <= Len(file'.data)
             /\ SubSeq(file'.data, 1, size) = Stored
  <2> DEFINE part == SubSeq(data, 1, k)
  <2>1. part \in Seq(Byte)
    BY <1>1, PrefixIsSeq
  <2>2. file' \in File /\ file'.open /\ file'.data = Stored \o part
    BY <1>3, <2>1, WrittenFacts DEF AppendFails
  <2>3. Len(Stored) = size /\ Stored \in Seq(Byte)
    BY StoredFacts
  <2> HIDE DEF part
  <2>4. Len(Stored \o part) = size + Len(part) /\ SubSeq(Stored \o part, 1, size) = Stored
    BY <2>1, <2>3, ConcatFacts
  <2>5. Len(part) \in Nat /\ size \in Nat
    BY <2>1 DEF SpoolInv, TypeOK
  <2> QED BY <2>2, <2>4, <2>5
<1> QED BY <1>2, <1>3 DEF AppendFails

LEMMA AppendFailsInv ==
    ASSUME SpoolInv, NEW data \in Piece, AppendFails(data) PROVE SpoolInv'
<1>1. file' \in File /\ (file'.open => size <= Len(file'.data))
      /\ (~file'.open => file' = file)
  BY FailedFile DEF SpoolInv, SizeInv
<1>2. cache' \in [offset : Nat, data : Seq(Byte)] /\ cache'.data = <<>>
  BY CacheEmptied DEF AppendFails, SpoolInv, TypeOK
<1>3. TypeOK' /\ SizeInv'
  BY <1>1, <1>2 DEF AppendFails, SpoolInv, TypeOK, SizeInv
<1>4. FillInv' /\ ReplayInv' /\ ReaderInv' /\ FindInv' /\ CacheInv'
  <2>1. phase = "fill" /\ phase' = "failed" /\ UNCHANGED <<replays, reader, find>>
    BY DEF AppendFails
  <2> QED BY <1>2, <2>1, FillKeeps
<1> QED BY <1>3, <1>4 DEF SpoolInv

(* What is handed out has the type of seen, and so has a filled cache. *)
LEMMA SliceType ==
    ASSUME NEW s \in Seq(Byte), NEW m \in Nat, NEW n \in Nat, m + n <= Len(s)
    PROVE  [offset |-> m, data |-> Bytes(s, m, n)] \in [offset : Nat, data : Seq(Byte)]
  BY BytesFacts

LEMMA FileMoved ==
    ASSUME NEW f \in File, NEW p \in Nat
    PROVE  /\ [f EXCEPT !.pos = p] \in File
           /\ [f EXCEPT !.pos = p].open = f.open
           /\ [f EXCEPT !.pos = p].data = f.data
           /\ [f EXCEPT !.pos = p].pos = p
  BY DEF File

(* While the record is read, moving the position of the file disturbs        *)
(* neither the size, the slices nor the cache.                               *)
LEMMA MovedKeeps ==
    ASSUME SpoolInv, file' \in File, file'.open = file.open, file'.data = file.data,
           phase = "read", UNCHANGED <<memory, size, phase>>
    PROVE  /\ SizeInv' /\ FillInv'
           /\ UNCHANGED replays => ReplayInv'
           /\ UNCHANGED cache => CacheInv'
  BY DEF SpoolInv, TypeOK, SizeInv, FillInv, ReplayInv, CacheInv, File, Bytes

LEMMA WriteSliceInv ==
    ASSUME SpoolInv, NEW offset \in 0 .. MaxSize, NEW len \in 0 .. MaxSize,
           WriteSlice(offset, len)
    PROVE  SpoolInv'
<1>1. SizeInv' /\ FillInv' /\ CacheInv' /\ (UNCHANGED replays => ReplayInv')
  BY MovedKeeps DEF WriteSlice, SpoolInv, TypeOK
<1>2. ReaderInv' /\ FindInv'
  BY NoSearch DEF WriteSlice, SpoolInv, ReaderInv, FindInv
<1>3. CASE file.open
  <2> DEFINE slice == [offset |-> offset, len |-> len, begun |-> FALSE]
  <2>1. slice \in Slice /\ slice.offset + slice.len <= size
    BY DEF WriteSlice, Slice
  <2>2. replays \in Seq(Slice) /\ replays' = Append(replays, slice)
    BY <1>3 DEF WriteSlice, SpoolInv, TypeOK
  <2>3. UNCHANGED <<file, size>>
    BY DEF WriteSlice
  <2> HIDE DEF slice
  <2>4. replays' \in Seq(Slice)
    BY <2>1, <2>2
  <2>5. ReplayInv'
    BY <1>3, <2>1, <2>2, <2>3, SMTT(60) DEF SpoolInv, ReplayInv
  <2>6. TypeOK'
    BY <1>3, <2>4 DEF WriteSlice, SpoolInv, TypeOK
  <2> QED BY <1>1, <1>2, <2>5, <2>6 DEF SpoolInv
<1>4. CASE ~file.open
  <2>1. seen' \in [offset : Nat, data : Seq(Byte)]
    BY <1>4, SliceType DEF WriteSlice, Sees, SpoolInv, TypeOK, SizeInv
  <2>2. TypeOK'
    BY <1>4, <2>1 DEF WriteSlice, SpoolInv, TypeOK
  <2>3. UNCHANGED replays
    BY <1>4 DEF WriteSlice
  <2> QED BY <1>1, <1>2, <2>2, <2>3 DEF SpoolInv
<1> QED BY <1>3, <1>4

LEMMA InnerFacts ==
    ASSUME SpoolInv, replays # <<>>
    PROVE  /\ Inner \in Slice /\ Inner.offset + Inner.len <= size
           /\ Inner.offset \in Nat /\ Inner.len \in Nat
           /\ Len(replays) \in 1 .. Len(replays)
           /\ file.open /\ phase = "read" /\ reader = -1 /\ ~find.on
           /\ size = Len(file.data) /\ size \in Nat /\ file.data \in Seq(Byte)
<1>1. Len(replays) \in 1 .. Len(replays)
  BY DEF SpoolInv, TypeOK
<1>2. Inner \in Slice /\ Inner.offset \in Nat /\ Inner.len \in Nat
  <2>1. Inner \in Slice
    BY StackFacts DEF SpoolInv, TypeOK, Inner
  <2> QED BY <2>1 DEF Slice
<1>3. file.open /\ Inner.offset + Inner.len <= size
  BY <1>1 DEF SpoolInv, ReplayInv, Inner
<1>4. phase = "read" /\ reader = -1 /\ ~find.on
  BY IdleFacts DEF SpoolInv, TypeOK, FillInv, ReaderInv, FindInv
<1> QED BY <1>1, <1>2, <1>3, <1>4 DEF SpoolInv, TypeOK, SizeInv, File

LEMMA ReplayChunkInv ==
    ASSUME SpoolInv, ReplayChunk PROVE SpoolInv'
<1> DEFINE amount == Smaller(Inner.len, Buffer)
           rest   == [offset |-> Inner.offset + amount, len |-> Inner.len - amount, begun |-> TRUE]
<1>1. replays # <<>>
  BY DEF ReplayChunk
<1>2. amount \in Nat /\ amount <= Inner.len
  BY <1>1, InnerFacts, SmallerFacts
<1>3. /\ seen' = [offset |-> Inner.offset, data |-> Bytes(file.data, Inner.offset, amount)]
      /\ file' = [file EXCEPT !.pos = Inner.offset + amount]
      /\ replays' = [replays EXCEPT ![Len(replays)] = rest]
      /\ UNCHANGED <<memory, size, cache, phase, reader, find>>
  BY DEF ReplayChunk, Sees, FileRead, SeekTo
<1> HIDE DEF amount
<1>4. Inner.offset + amount \in Nat /\ Inner.offset + amount <= size
  BY <1>1, <1>2, InnerFacts
<1>5. rest \in Slice /\ rest.offset + rest.len <= size
  BY <1>1, <1>2, InnerFacts DEF Slice
<1>6. file' \in File /\ file'.open = file.open /\ file'.data = file.data
  BY <1>3, <1>4, FileMoved DEF SpoolInv, TypeOK
<1>7. seen' \in [offset : Nat, data : Seq(Byte)]
  BY <1>1, <1>2, <1>3, <1>4, InnerFacts, SliceType
<1> HIDE DEF rest
<1>8. replays' \in Seq(Slice)
  BY <1>1, <1>3, <1>5, InnerFacts DEF SpoolInv, TypeOK
<1>9. ReplayInv'
  <2>1. /\ Len(replays') = Len(replays)
        /\ \A i \in 1 .. Len(replays) :
             replays'[i] = IF i = Len(replays) THEN rest ELSE replays[i]
    <3>1. replays \in Seq(Slice)
      BY DEF SpoolInv, TypeOK
    <3>2. rest \in Slice /\ replays' = [replays EXCEPT ![Len(replays)] = rest]
      BY <1>3, <1>5
    <3> QED BY <1>1, <3>1, <3>2, StackTop
  <2>2. SUFFICES ASSUME NEW i \in 1 .. Len(replays)
                 PROVE  replays'[i].offset + replays'[i].len <= size
    BY <1>1, <1>3, <1>6, <2>1, InnerFacts DEF ReplayInv
  <2>3. replays[i].offset + replays[i].len <= size
    BY DEF SpoolInv, ReplayInv
  <2> QED BY <1>5, <2>1, <2>3
<1>10. TypeOK'
  BY <1>3, <1>6, <1>7, <1>8 DEF SpoolInv, TypeOK
<1>11. SizeInv' /\ FillInv' /\ CacheInv'
  BY <1>1, <1>3, <1>6, InnerFacts, MovedKeeps
<1>12. ReaderInv' /\ FindInv'
  BY <1>1, <1>3, InnerFacts DEF ReaderInv, FindInv
<1> QED BY <1>9, <1>10, <1>11, <1>12 DEF SpoolInv

LEMMA ReplayEndsInv ==
    ASSUME SpoolInv, ReplayEnds PROVE SpoolInv'
<1>1. replays # <<>>
  BY DEF ReplayEnds
<1>2. replays' \in Seq(Slice)
  BY <1>1, StackFacts DEF ReplayEnds, SpoolInv, TypeOK
<1>3. ReplayInv'
  BY <1>1 DEF ReplayEnds, SpoolInv, TypeOK, ReplayInv
<1>4. SizeInv' /\ FillInv' /\ CacheInv'
  BY <1>1, InnerFacts, MovedKeeps DEF ReplayEnds, SpoolInv, TypeOK
<1>5. ReaderInv' /\ FindInv'
  BY <1>1, InnerFacts DEF ReplayEnds, ReaderInv, FindInv
<1>6. TypeOK'
  BY <1>2 DEF ReplayEnds, SpoolInv, TypeOK
<1> QED BY <1>3, <1>4, <1>5, <1>6 DEF SpoolInv

(* reading a byte: from memory, from the cache, or by filling the cache *)
LEMMA ReadByteInv ==
    ASSUME SpoolInv, NEW offset \in 0 .. MaxSize, offset < size, phase = "read",
           ReadByte(offset), UNCHANGED <<memory, size, phase>>
    PROVE  /\ file' \in File /\ file'.open = file.open /\ file'.data = file.data
           /\ cache' \in [offset : Nat, data : Seq(Byte)] /\ CacheInv'
           /\ seen' \in [offset : Nat, data : Seq(Byte)]
<1>4. ASSUME UNCHANGED <<file, cache>>, seen' \in [offset : Nat, data : Seq(Byte)]
      PROVE  /\ file' \in File /\ file'.open = file.open /\ file'.data = file.data
             /\ cache' \in [offset : Nat, data : Seq(Byte)] /\ CacheInv'
             /\ seen' \in [offset : Nat, data : Seq(Byte)]
  BY <1>4 DEF SpoolInv, TypeOK, CacheInv
<1>5. CASE ~file.open
  <2>1. seen' = [offset |-> offset, data |-> Bytes(memory, offset, 1)] /\ UNCHANGED <<file, cache>>
    BY <1>5 DEF ReadByte, Sees
  <2>2. offset + 1 <= Len(memory) /\ memory \in Seq(Byte)
    BY <1>5 DEF SpoolInv, TypeOK, SizeInv
  <2>3. seen' \in [offset : Nat, data : Seq(Byte)]
    BY <2>1, <2>2, SliceType
  <2> QED BY <1>4, <2>1, <2>3
<1>6. CASE file.open /\ Cached(offset)
  <2>1. /\ seen' = [offset |-> offset, data |-> <<cache.data[offset - cache.offset + 1]>>]
        /\ UNCHANGED <<file, cache>>
    BY <1>6 DEF ReadByte, Sees
  <2>2. offset - cache.offset + 1 \in 1 .. Len(cache.data) /\ cache.data \in Seq(Byte)
    BY <1>6 DEF Cached, SpoolInv, TypeOK
  <2>3. cache.data[offset - cache.offset + 1] \in Byte
    BY <2>2
  <2>4. seen' \in [offset : Nat, data : Seq(Byte)]
    BY <2>1, <2>3
  <2> QED BY <1>4, <2>1, <2>4
<1>7. CASE file.open /\ ~Cached(offset)
  <2> DEFINE amount == Smaller(size - offset, Buffer)
  <2>1. /\ cache' = [offset |-> offset, data |-> Bytes(file.data, offset, amount)]
        /\ file' = [file EXCEPT !.pos = offset + amount]
        /\ seen' = [offset |-> offset, data |-> <<cache'.data[1]>>]
    BY <1>7 DEF ReadByte, Sees, FileRead
  <2>2. amount \in Nat /\ amount # 0 /\ amount <= size - offset
    <3>1. size - offset \in Nat /\ size - offset # 0 /\ Buffer \in Nat /\ Buffer # 0
      BY DEF SpoolInv, TypeOK
    <3> QED BY <3>1, SmallerFacts
  <2> HIDE DEF amount
  <2>3. /\ offset + amount \in Nat /\ offset + amount <= size /\ size = Len(file.data)
        /\ file.data \in Seq(Byte)
    BY <1>7, <2>2 DEF SpoolInv, TypeOK, SizeInv, File
  <2>4. file' \in File /\ file'.open = file.open /\ file'.data = file.data
    BY <2>1, <2>3, FileMoved DEF SpoolInv, TypeOK
  <2>5. /\ cache' \in [offset : Nat, data : Seq(Byte)]
        /\ cache'.offset = offset /\ Len(cache'.data) = amount
        /\ cache'.data = Bytes(file.data, offset, amount)
    BY <2>1, <2>2, <2>3, SliceType, BytesFacts
  <2>6. CacheInv'
    BY <1>7, <2>3, <2>4, <2>5 DEF CacheInv
  <2>7. cache'.data[1] \in Byte
    BY <2>2, <2>5
  <2>8. seen' \in [offset : Nat, data : Seq(Byte)]
    BY <2>1, <2>7
  <2> QED BY <2>4, <2>5, <2>6, <2>8
<1> QED BY <1>5, <1>6, <1>7

LEMMA ByteAtInv ==
    ASSUME SpoolInv, NEW offset \in 0 .. MaxSize, ByteAt(offset) PROVE SpoolInv'
<1>1. /\ phase = "read" /\ reader = -1 /\ find = NoFind /\ offset < size /\ ReadByte(offset)
      /\ UNCHANGED <<memory, size, phase, replays, reader, find>>
  BY DEF ByteAt
<1>2. ReaderInv' /\ FindInv'
  BY <1>1, NoSearch DEF ReaderInv, FindInv
<1>3. /\ file' \in File /\ file'.open = file.open /\ file'.data = file.data
      /\ cache' \in [offset : Nat, data : Seq(Byte)] /\ CacheInv'
      /\ seen' \in [offset : Nat, data : Seq(Byte)]
  BY <1>1, ReadByteInv
<1>4. SizeInv' /\ FillInv' /\ ReplayInv'
  BY <1>1, <1>3, MovedKeeps
<1>5. TypeOK'
  BY <1>1, <1>3 DEF SpoolInv, TypeOK
<1> QED BY <1>2, <1>3, <1>4, <1>5 DEF SpoolInv

(* a failed read moves the position of the file and empties the cache *)
LEMMA ReadFailsFacts ==
    ASSUME SpoolInv, ReadFails
    PROVE  /\ file' \in File /\ file'.open = file.open /\ file'.data = file.data
           /\ cache' \in [offset : Nat, data : Seq(Byte)] /\ cache'.data = <<>>
<1>1. PICK pos \in 0 .. size : file' = [file EXCEPT !.pos = pos]
  BY DEF ReadFails
<1>2. pos \in Nat /\ file \in File
  BY SpoolNumbers
<1>3. file' \in File /\ file'.open = file.open /\ file'.data = file.data
  BY <1>1, <1>2, FileMoved
<1> QED BY <1>3, CacheEmptied DEF ReadFails, SpoolInv, TypeOK

LEMMA ByteAtFailsInv ==
    ASSUME SpoolInv, ByteAtFails PROVE SpoolInv'
<1>1. /\ file' \in File /\ file'.open = file.open /\ file'.data = file.data
      /\ cache' \in [offset : Nat, data : Seq(Byte)] /\ cache'.data = <<>>
  BY ReadFailsFacts DEF ByteAtFails
<1>2. SizeInv' /\ FillInv' /\ ReplayInv'
  BY <1>1, MovedKeeps DEF ByteAtFails
<1>3. TypeOK' /\ ReaderInv' /\ FindInv' /\ CacheInv'
  BY <1>1, NoSearch DEF ByteAtFails, SpoolInv, TypeOK, ReaderInv, FindInv, CacheInv
<1> QED BY <1>2, <1>3 DEF SpoolInv

LEMMA ReaderInitInv ==
    ASSUME SpoolInv, ReaderInit PROVE SpoolInv'
<1>1. file' \in File /\ file'.open = file.open /\ file'.data = file.data /\ file'.pos = 0
  BY FileMoved DEF ReaderInit, SpoolInv, TypeOK
<1>2. SizeInv' /\ FillInv' /\ ReplayInv' /\ CacheInv'
  BY <1>1, MovedKeeps DEF ReaderInit
<1>3. TypeOK' /\ ReaderInv' /\ FindInv'
  BY <1>1, NoSearch DEF ReaderInit, Idle, SpoolInv, TypeOK, ReaderInv, FindInv
<1> QED BY <1>2, <1>3 DEF SpoolInv

(* What a reader hands out starts at its own offset and stays in the record. *)
LEMMA ReaderReadFacts ==
    ASSUME SpoolInv, NEW capacity \in 1 .. MaxSize, ReaderRead(capacity)
    PROVE  \E amount \in Nat :
             /\ reader \in Nat /\ reader + amount <= size /\ phase = "read"
             /\ replays = <<>> /\ ~find.on
             /\ reader' = reader + amount
             /\ seen' = [offset |-> reader,
                         data |-> Bytes(IF file.open THEN file.data ELSE memory, reader, amount)]
             /\ file' = IF file.open THEN [file EXCEPT !.pos = reader + amount] ELSE file
             /\ UNCHANGED <<memory, size, cache, phase, replays, find>>
<1> DEFINE bytes  == IF file.open THEN file.data ELSE memory
           amount == Smaller(capacity, Len(bytes) - reader)
<1>1. reader \in Nat /\ reader <= size /\ size \in Nat /\ replays = <<>> /\ ~find.on
  <2>1. ReaderInv /\ reader # -1
    BY Zenon DEF ReaderRead, SpoolInv
  <2>2. replays = <<>> /\ ~find.on /\ reader <= size
    BY <2>1, Zenon DEF ReaderInv
  <2> QED BY <2>1, <2>2, SpoolNumbers
<1>2. phase = "read"
  BY DEF ReaderRead, SpoolInv, FillInv, Idle
<1>3. Len(bytes) = size
  BY <1>2 DEF SpoolInv, SizeInv
<1>4. amount \in Nat /\ amount <= size - reader
  <2>1. Len(bytes) - reader \in Nat /\ capacity \in Nat
    BY <1>1, <1>3
  <2> HIDE DEF bytes
  <2>2. amount \in Nat /\ amount <= Len(bytes) - reader
    BY <2>1, SmallerFacts
  <2> QED BY <1>3, <2>2
<1>5. file.open => file.pos = reader
  BY DEF ReaderRead, SpoolInv, ReaderInv
<1>6. /\ reader' = reader + amount
      /\ seen' = [offset |-> reader, data |-> Bytes(bytes, reader, amount)]
      /\ file' = IF file.open THEN [file EXCEPT !.pos = reader + amount] ELSE file
      /\ UNCHANGED <<memory, size, cache, phase, replays, find>>
  BY <1>5 DEF ReaderRead, Sees
<1>7. reader + amount <= size
  BY <1>1, <1>4
<1> HIDE DEF amount
<1> QED BY <1>1, <1>2, <1>4, <1>6, <1>7

LEMMA ReaderReadInv ==
    ASSUME SpoolInv, NEW capacity \in 1 .. MaxSize, ReaderRead(capacity) PROVE SpoolInv'
<1> DEFINE bytes == IF file.open THEN file.data ELSE memory
<1>1. PICK amount \in Nat :
             /\ reader \in Nat /\ reader + amount <= size /\ phase = "read"
             /\ replays = <<>> /\ ~find.on
             /\ reader' = reader + amount
             /\ seen' = [offset |-> reader, data |-> Bytes(bytes, reader, amount)]
             /\ file' = IF file.open THEN [file EXCEPT !.pos = reader + amount] ELSE file
             /\ UNCHANGED <<memory, size, cache, phase, replays, find>>
  BY ReaderReadFacts
<1>2. bytes \in Seq(Byte) /\ Len(bytes) = size
  BY <1>1 DEF SpoolInv, TypeOK, SizeInv, File
<1> HIDE DEF bytes
<1>3. seen' \in [offset : Nat, data : Seq(Byte)]
  BY <1>1, <1>2, SliceType
<1>4. /\ file' \in File /\ file'.open = file.open /\ file'.data = file.data
      /\ file.open => file'.pos = reader + amount
  <2>1. reader + amount \in Nat /\ file \in File
    BY <1>1, SpoolNumbers
  <2> QED BY <1>1, <2>1, FileMoved, Zenon
<1>5. SizeInv' /\ FillInv' /\ ReplayInv' /\ CacheInv'
  BY <1>1, <1>4, MovedKeeps, Zenon
<1>6. reader' \in -1 .. MaxSize /\ ReaderInv' /\ FindInv'
  <2>1. size \in 0 .. MaxSize /\ reader + amount \in -1 .. MaxSize
    BY <1>1, SpoolNumbers
  <2> QED BY <1>1, <1>4, <2>1 DEF SpoolInv, ReaderInv, FindInv
<1>7. TypeOK'
  BY <1>1, <1>3, <1>4, <1>6 DEF SpoolInv, TypeOK
<1> QED BY <1>5, <1>6, <1>7 DEF SpoolInv

LEMMA ReaderEndsInv ==
    ASSUME SpoolInv, ReaderEnds PROVE SpoolInv'
  BY DEF ReaderEnds, SpoolInv, TypeOK, SizeInv, FillInv, ReplayInv, ReaderInv, FindInv,
         CacheInv, Idle, Bytes

-----------------------------------------------------------------------------
(* The search for the end of a string *)

(* The scan of a chunk is a function on the chunk: the definition of         *)
(* EscapedAfter has a solution, built byte by byte.                          *)
LEMMA EscapedExists ==
    ASSUME NEW chunk \in Seq(Byte), NEW escaped \in BOOLEAN
    PROVE  \E f \in [0 .. Len(chunk) -> BOOLEAN] :
             f = [i \in 0 .. Len(chunk) |->
                    IF i = 0 THEN escaped ELSE chunk[i] = Slash /\ ~f[i - 1]]
<1> DEFINE Solves(f, n) == \A i \in 0 .. n :
                             f[i] = IF i = 0 THEN escaped ELSE chunk[i] = Slash /\ ~f[i - 1]
           T == {n \in 0 .. Len(chunk) : \E f \in [0 .. n -> BOOLEAN] : Solves(f, n)}
<1>1. 0 \in T
  <2> DEFINE f == [i \in 0 .. 0 |-> escaped]
  <2>1. f \in [0 .. 0 -> BOOLEAN] /\ Solves(f, 0)
    OBVIOUS
  <2>2. \E g \in [0 .. 0 -> BOOLEAN] : Solves(g, 0)
    BY <2>1, Zenon
  <2>3. 0 \in 0 .. Len(chunk)
    OBVIOUS
  <2> QED BY <2>2, <2>3, Zenon
<1>2. ASSUME NEW n \in 1 .. Len(chunk), n - 1 \in T
      PROVE  n \in T
  <2>1. PICK g \in [0 .. (n - 1) -> BOOLEAN] : Solves(g, n - 1)
    BY <1>2
  <2> DEFINE f == [i \in 0 .. n |-> IF i = n THEN chunk[n] = Slash /\ ~g[n - 1] ELSE g[i]]
  <2>2. f \in [0 .. n -> BOOLEAN]
    OBVIOUS
  <2>3. Solves(f, n)
    BY <2>1
  <2>4. \E h \in [0 .. n -> BOOLEAN] : Solves(h, n)
    <3> HIDE DEF f, Solves
    <3> QED BY <2>2, <2>3
  <2>5. n \in 0 .. Len(chunk)
    OBVIOUS
  <2> QED BY <2>4, <2>5, Zenon
<1>3. Len(chunk) \in T
  <2> HIDE DEF T
  <2>1. Len(chunk) \in Nat
    OBVIOUS
  <2>2. \A n \in 1 .. Len(chunk) : n - 1 \in T => n \in T
    BY <1>2
  <2>3. 0 .. Len(chunk) \subseteq T
    BY <1>1, <2>1, <2>2, IntervalInduction, Zenon
  <2> QED BY <2>1, <2>3
<1>4. PICK f \in [0 .. Len(chunk) -> BOOLEAN] : Solves(f, Len(chunk))
  BY <1>3
<1>5. f = [i \in 0 .. Len(chunk) |->
             IF i = 0 THEN escaped ELSE chunk[i] = Slash /\ ~f[i - 1]]
  BY <1>4
<1> QED BY <1>5

(* What string_chunk_end carries: after the byte i of a chunk the next byte  *)
(* is escaped when the byte i is a backslash that is not escaped itself.     *)
LEMMA EscapedFacts ==
    ASSUME NEW chunk \in Seq(Byte), NEW escaped \in BOOLEAN
    PROVE  /\ EscapedAfter(chunk, escaped) \in [0 .. Len(chunk) -> BOOLEAN]
           /\ EscapedAfter(chunk, escaped)[0] = escaped
           /\ \A i \in 1 .. Len(chunk) :
                EscapedAfter(chunk, escaped)[i] =
                  (chunk[i] = Slash /\ ~EscapedAfter(chunk, escaped)[i - 1])
<1> DEFINE Def(f) == [i \in 0 .. Len(chunk) |->
                        IF i = 0 THEN escaped ELSE chunk[i] = Slash /\ ~f[i - 1]]
           e == EscapedAfter(chunk, escaped)
<1>1. e = CHOOSE f : f = Def(f)
  BY DEF EscapedAfter
<1>2. \E f : f = Def(f)
  BY EscapedExists
<1>3. e = Def(e)
  BY <1>1, <1>2, Zenon
<1> HIDE DEF e
<1>4. Len(chunk) \in Nat
  OBVIOUS
<1>5. e[0] = escaped
  BY <1>3, <1>4
<1>6. \A i \in 1 .. Len(chunk) : e[i] = (chunk[i] = Slash /\ ~e[i - 1])
  BY <1>3, <1>4
<1>7. e \in [0 .. Len(chunk) -> BOOLEAN]
  BY <1>3, <1>4
<1> QED BY <1>5, <1>6, <1>7 DEF e

(* The first of some positions is one of them. *)
LEMMA FirstFacts ==
    ASSUME NEW indices \in SUBSET Nat, indices # {}
    PROVE  First(indices) \in indices /\ \A j \in indices : First(indices) <= j
<1>1. \E i \in indices : \A j \in indices : i <= j
  BY LeastElement
<1> QED BY <1>1, Zenon DEF First

(* What one round of lql_json_spool_find_string_end looks at: the next bytes *)
(* of the record, none when it is over.                                      *)
LEMMA FindChunkFacts ==
    ASSUME SpoolInv, FindChunk
    PROVE  \E amount \in Nat : \E chunk \in Seq(Byte) :
             /\ find.pos + amount <= find.end /\ find.end <= size /\ (amount = 0 => find.pos = find.end)
             /\ chunk = Bytes(Stored, find.pos, amount) /\ Len(chunk) = amount
             /\ find' = [find EXCEPT !.on = Ends(chunk, find.escaped) = {} /\ amount # 0,
                                     !.pos = find.pos + amount,
                                     !.escaped = Carry(chunk, find.escaped),
                                     !.out = IF Ends(chunk, find.escaped) # {}
                                             THEN find.pos + First(Ends(chunk, find.escaped))
                                             ELSE 0,
                                     !.unterminated = amount = 0]
             /\ IF file.open /\ amount # 0
                THEN /\ cache' = [offset |-> find.pos, data |-> chunk]
                     /\ file' = [file EXCEPT !.pos = find.pos + amount]
                ELSE UNCHANGED <<cache, file>>
             /\ UNCHANGED <<memory, size, phase, replays, reader, seen>>
<1> DEFINE left   == find.end - find.pos
           amount == IF file.open THEN Smaller(left, Buffer) ELSE left
           chunk  == IF file.open THEN FileRead(file.pos, amount)
                     ELSE Bytes(memory, find.pos, amount)
<1>1. find.on /\ find.pos \in Nat /\ find.end \in Nat /\ size \in Nat /\ find.pos <= find.end
      /\ find.end <= size /\ (file.open => file.pos = find.pos)
  BY DEF FindChunk, SpoolInv, TypeOK, FindInv, Find
<1>2. amount \in Nat /\ amount <= find.end - find.pos /\ (amount = 0 => find.pos = find.end)
  <2>1. left \in Nat /\ Buffer \in Nat /\ Buffer # 0
    BY <1>1
  <2>2. Smaller(left, Buffer) \in Nat /\ Smaller(left, Buffer) <= left
        /\ (left # 0 => Smaller(left, Buffer) # 0)
    BY <2>1, SmallerFacts
  <2> QED BY <1>1, <2>1, <2>2
<1> HIDE DEF amount
<1>3. find.pos + amount <= find.end /\ find.pos + amount <= size
  BY <1>1, <1>2
<1>4. chunk = Bytes(Stored, find.pos, amount)
  BY <1>1, <1>2, <1>3, StoredFacts, FilePart DEF FileRead
<1>5. chunk \in Seq(Byte) /\ Len(chunk) = amount
  BY <1>1, <1>2, <1>3, <1>4, StoredFacts, BytesFacts
<1>6. /\ find' = [find EXCEPT !.on = Ends(chunk, find.escaped) = {} /\ amount # 0,
                              !.pos = find.pos + amount,
                              !.escaped = Carry(chunk, find.escaped),
                              !.out = IF Ends(chunk, find.escaped) # {}
                                      THEN find.pos + First(Ends(chunk, find.escaped))
                                      ELSE 0,
                              !.unterminated = amount = 0]
      /\ IF file.open /\ amount # 0
         THEN /\ cache' = [offset |-> find.pos, data |-> chunk]
              /\ file' = [file EXCEPT !.pos = find.pos + amount]
         ELSE UNCHANGED <<cache, file>>
      /\ UNCHANGED <<memory, size, phase, replays, reader, seen>>
  BY <1>1 DEF FindChunk, amount
<1> HIDE DEF chunk
<1> QED BY <1>1, <1>2, <1>3, <1>4, <1>5, <1>6

(* the ends in a chunk are positions of the chunk *)
LEMMA EndsFacts ==
    ASSUME NEW chunk \in Seq(Byte), NEW escaped \in BOOLEAN
    PROVE  /\ Ends(chunk, escaped) \in SUBSET (1 .. Len(chunk))
           /\ Ends(chunk, escaped) # {} =>
                /\ First(Ends(chunk, escaped)) \in Ends(chunk, escaped)
                /\ First(Ends(chunk, escaped)) \in Nat \ {0}
                /\ \A j \in Ends(chunk, escaped) : First(Ends(chunk, escaped)) <= j
<1>1. Ends(chunk, escaped) \in SUBSET (1 .. Len(chunk))
  BY DEF Ends
<1>2. Ends(chunk, escaped) \in SUBSET Nat
  BY <1>1
<1> QED BY <1>1, <1>2, FirstFacts

LEMMA FindStartInv ==
    ASSUME SpoolInv, NEW offset \in 0 .. MaxSize, NEW end \in 0 .. MaxSize, FindStart(offset, end)
    PROVE  SpoolInv'
<1> DEFINE started == [NoFind EXCEPT !.on = TRUE, !.start = offset, !.end = end,
                                     !.pos = offset + 1, !.seek = file.open]
<1>1. /\ phase = "read" /\ replays = <<>> /\ reader = -1 /\ offset < end /\ end <= size
      /\ ReadByte(offset) /\ find' \in {NoFind, started}
      /\ UNCHANGED <<memory, size, phase, replays, reader>>
  BY DEF FindStart, Idle
<1>2. offset < size /\ offset + 1 \in Nat /\ offset + 1 <= end /\ end \in Nat
  BY <1>1, SpoolNumbers
<1>3. /\ file' \in File /\ file'.open = file.open /\ file'.data = file.data
      /\ cache' \in [offset : Nat, data : Seq(Byte)] /\ CacheInv'
      /\ seen' \in [offset : Nat, data : Seq(Byte)]
  BY <1>1, <1>2, ReadByteInv
<1>4. SizeInv' /\ FillInv' /\ ReplayInv'
  BY <1>1, <1>3, MovedKeeps
<1>5. /\ find' \in Find
      /\ find'.on => find'.pos = offset + 1 /\ find'.end = end /\ find'.seek = file.open
  <2>1. file.open \in BOOLEAN
    BY DEF SpoolInv, TypeOK, File
  <2>2. PICK p \in Nat : p = offset + 1
    BY <1>2
  <2>3. CASE find' = NoFind
    BY <2>3, NoSearch
  <2>4. CASE find' = [NoFind EXCEPT !.on = TRUE, !.start = offset, !.end = end,
                                    !.pos = p, !.seek = file.open]
    <3>1. offset \in Nat
      OBVIOUS
    <3> QED BY <1>2, <2>1, <2>2, <2>4, <3>1, NoSearch DEF NoFind, Find
  <2> QED BY <1>1, <2>2, <2>3, <2>4
<1>6. TypeOK'
  BY <1>1, <1>3, <1>5 DEF SpoolInv, TypeOK
<1>7. ReaderInv' /\ FindInv'
  BY <1>1, <1>2, <1>3, <1>5 DEF ReaderInv, FindInv
<1> QED BY <1>3, <1>4, <1>6, <1>7 DEF SpoolInv

LEMMA FindSeekInv ==
    ASSUME SpoolInv, FindSeek PROVE SpoolInv'
<1>1. /\ find.on /\ find \in Find /\ find.pos \in Nat /\ replays = <<>> /\ reader = -1
      /\ find.pos <= find.end /\ find.end <= size /\ phase = "read"
  BY IdleFacts DEF FindSeek, SpoolInv, TypeOK, FindInv, FillInv, Find
<1>2. find' = [find EXCEPT !.seek = FALSE]
      /\ file' = [file EXCEPT !.pos = find.pos]
      /\ UNCHANGED <<memory, size, cache, phase, replays, reader, seen>>
  BY DEF FindSeek
<1>3. file' \in File /\ file'.open = file.open /\ file'.data = file.data /\ file'.pos = find.pos
  BY <1>1, <1>2, FileMoved DEF SpoolInv, TypeOK
<1>4. find' \in Find /\ find'.pos = find.pos /\ find'.end = find.end /\ ~find'.seek
  BY <1>1, <1>2 DEF Find
<1>5. SizeInv' /\ FillInv' /\ ReplayInv' /\ CacheInv'
  BY <1>1, <1>2, <1>3, MovedKeeps
<1>6. TypeOK'
  BY <1>2, <1>3, <1>4 DEF SpoolInv, TypeOK
<1>7. ReaderInv' /\ FindInv'
  BY <1>1, <1>2, <1>3, <1>4 DEF ReaderInv, FindInv
<1> QED BY <1>5, <1>6, <1>7 DEF SpoolInv

LEMMA FindFailsInv ==
    ASSUME SpoolInv, FindFails PROVE SpoolInv'
<1>1. /\ file' \in File /\ file'.open = file.open /\ file'.data = file.data
      /\ cache' \in [offset : Nat, data : Seq(Byte)] /\ cache'.data = <<>>
  BY ReadFailsFacts DEF FindFails
<1>2. /\ phase = "read" /\ replays = <<>> /\ reader = -1 /\ find' = NoFind
      /\ UNCHANGED <<memory, size, phase, replays, reader, seen>>
  BY IdleFacts DEF FindFails, SpoolInv, FindInv, FillInv
<1>3. SizeInv' /\ FillInv' /\ ReplayInv'
  BY <1>1, <1>2, MovedKeeps
<1>4. TypeOK' /\ ReaderInv' /\ FindInv' /\ CacheInv'
  BY <1>1, <1>2, NoSearch DEF SpoolInv, TypeOK, ReaderInv, FindInv, CacheInv
<1> QED BY <1>3, <1>4 DEF SpoolInv

LEMMA FindEndsInv ==
    ASSUME SpoolInv, FindEnds PROVE SpoolInv'
<1>1. /\ phase = "read" /\ find' = NoFind
      /\ UNCHANGED <<memory, size, file, cache, phase, replays, reader, seen>>
  BY DEF FindEnds, SpoolInv, FillInv, Idle
<1>2. SizeInv' /\ FillInv' /\ ReplayInv' /\ CacheInv'
  BY <1>1, MovedKeeps DEF SpoolInv, TypeOK
<1>3. TypeOK' /\ ReaderInv' /\ FindInv'
  BY <1>1, NoSearch DEF SpoolInv, TypeOK, ReaderInv, FindInv
<1> QED BY <1>2, <1>3 DEF SpoolInv

LEMMA FindChunkInv ==
    ASSUME SpoolInv, FindChunk PROVE SpoolInv'
<1>1. PICK amount \in Nat, chunk \in Seq(Byte) :
             /\ find.pos + amount <= find.end /\ find.end <= size /\ (amount = 0 => find.pos = find.end)
             /\ chunk = Bytes(Stored, find.pos, amount) /\ Len(chunk) = amount
             /\ find' = [find EXCEPT !.on = Ends(chunk, find.escaped) = {} /\ amount # 0,
                                     !.pos = find.pos + amount,
                                     !.escaped = Carry(chunk, find.escaped),
                                     !.out = IF Ends(chunk, find.escaped) # {}
                                             THEN find.pos + First(Ends(chunk, find.escaped))
                                             ELSE 0,
                                     !.unterminated = amount = 0]
             /\ IF file.open /\ amount # 0
                THEN /\ cache' = [offset |-> find.pos, data |-> chunk]
                     /\ file' = [file EXCEPT !.pos = find.pos + amount]
                ELSE UNCHANGED <<cache, file>>
             /\ UNCHANGED <<memory, size, phase, replays, reader, seen>>
  BY FindChunkFacts
<1>2. /\ find \in Find /\ find.on /\ find.pos \in Nat /\ find.escaped \in BOOLEAN
      /\ replays = <<>> /\ reader = -1 /\ phase = "read"
      /\ file.open => file.pos = find.pos
      /\ file \in File /\ ~find.seek
  BY IdleFacts DEF FindChunk, SpoolInv, TypeOK, FindInv, FillInv, Find
<1>3. Carry(chunk, find.escaped) \in BOOLEAN
  BY <1>2, EscapedFacts DEF Carry
<1>4. PICK pos \in Nat : pos = find.pos + amount
  BY <1>2
<1>5. PICK out \in Nat : out = IF Ends(chunk, find.escaped) # {}
                               THEN find.pos + First(Ends(chunk, find.escaped)) ELSE 0
  BY <1>2, EndsFacts
<1>6. PICK on \in BOOLEAN : on = (Ends(chunk, find.escaped) = {} /\ amount # 0)
  OBVIOUS
<1>6a. PICK un \in BOOLEAN : un = (amount = 0)
  OBVIOUS
<1>7. find' = [find EXCEPT !.on = on, !.pos = pos, !.escaped = Carry(chunk, find.escaped),
                           !.out = out, !.unterminated = un]
  BY <1>1, <1>4, <1>5, <1>6, <1>6a
<1>8. find' \in Find /\ find'.pos = pos /\ find'.end = find.end /\ find'.seek = find.seek
  BY <1>2, <1>3, <1>7 DEF Find
<1>9. /\ file' \in File /\ file'.open = file.open /\ file'.data = file.data
      /\ file.open => file'.pos = pos
  <2>1. CASE file.open /\ amount # 0
    <3>1. file' = [file EXCEPT !.pos = pos]
      BY <1>1, <1>4, <2>1, Zenon
    <3> QED BY <1>2, <3>1, FileMoved
  <2>2. CASE ~(file.open /\ amount # 0)
    BY <1>1, <1>2, <1>4, <2>2
  <2> QED BY <2>1, <2>2
<1>10. /\ cache' \in [offset : Nat, data : Seq(Byte)]
       /\ CacheInv'
  <2>1. CASE file.open /\ amount # 0
    <3>1. cache' = [offset |-> find.pos, data |-> chunk] /\ file'.open /\ size' = size
      BY <1>1, <1>9, <2>1
    <3>2. find.pos + amount <= size /\ size \in Nat
      BY <1>1, <1>2, SpoolNumbers DEF Find
    <3>3. chunk = Bytes(file.data, find.pos, amount)
      BY <1>1, <1>2, <2>1, <3>2, FilePart
    <3> QED BY <1>1, <1>2, <1>9, <3>1, <3>2, <3>3 DEF CacheInv
  <2>2. CASE ~(file.open /\ amount # 0)
    <3>1. UNCHANGED <<cache, memory, size, phase>>
      BY <1>1, <2>2, Zenon
    <3>2. CacheInv'
      BY <1>2, <1>9, <3>1, MovedKeeps
    <3> QED BY <3>1, <3>2 DEF SpoolInv, TypeOK
  <2> QED BY <2>1, <2>2
<1>11. SizeInv' /\ FillInv' /\ ReplayInv'
  BY <1>1, <1>2, <1>9, MovedKeeps
<1>12. ReaderInv' /\ FindInv'
  BY <1>1, <1>2, <1>4, <1>8, <1>9 DEF ReaderInv, FindInv
<1>13. TypeOK'
  BY <1>1, <1>8, <1>9, <1>10 DEF SpoolInv, TypeOK
<1> QED BY <1>10, <1>11, <1>12, <1>13 DEF SpoolInv

-----------------------------------------------------------------------------
(* The invariant holds, with what follows from it *)

LEMMA NextInv == SpoolInv /\ [Next]_vars => SpoolInv'
<1> SUFFICES ASSUME SpoolInv, [Next]_vars PROVE SpoolInv'
  OBVIOUS
<1>1. CASE UNCHANGED vars
  BY <1>1 DEF vars, SpoolInv, TypeOK, SizeInv, FillInv, ReplayInv, ReaderInv, FindInv, CacheInv,
              Idle, Bytes
<1>2. ASSUME NEW data \in Piece, AppendMemory(data) \/ AppendFile(data) \/ AppendFails(data)
      PROVE  SpoolInv'
  BY <1>2, AppendMemoryInv, AppendFileInv, AppendFailsInv
<1>3. ASSUME NEW offset \in 0 .. MaxSize, NEW len \in 0 .. MaxSize, WriteSlice(offset, len)
      PROVE  SpoolInv'
  BY <1>3, WriteSliceInv
<1>4. ASSUME NEW offset \in 0 .. MaxSize, ByteAt(offset)
      PROVE  SpoolInv'
  BY <1>4, ByteAtInv
<1>4a. ASSUME NEW offset \in 0 .. MaxSize, NEW end \in 0 .. MaxSize, FindStart(offset, end)
      PROVE  SpoolInv'
  BY <1>4a, FindStartInv
<1>5. ASSUME NEW capacity \in 1 .. MaxSize, ReaderRead(capacity) PROVE SpoolInv'
  BY <1>5, ReaderReadInv
<1>6. CASE Reset \/ Seal
  BY <1>6, ResetInv, SealInv
<1>7. CASE ReplayChunk \/ ReplayEnds \/ ByteAtFails
  BY <1>7, ReplayChunkInv, ReplayEndsInv, ByteAtFailsInv
<1>8. CASE ReaderInit \/ ReaderEnds
  BY <1>8, ReaderInitInv, ReaderEndsInv
<1>9. CASE FindSeek \/ FindChunk \/ FindFails \/ FindEnds
  BY <1>9, FindSeekInv, FindChunkInv, FindFailsInv, FindEndsInv
<1> QED BY <1>1, <1>2, <1>3, <1>4, <1>4a, <1>5, <1>6, <1>7, <1>8, <1>9 DEF Next

LEMMA SpoolInvariant == Spec => []SpoolInv
  BY InitInv, NextInv, PTL DEF Spec

(* Every variable keeps its type: the memory stays within its limit, sizes   *)
(* and offsets within the record, and the search hands out a position.       *)
THEOREM SpoolTypes == Spec => []TypeOK
<1>1. SpoolInv => TypeOK
  BY DEF SpoolInv
<1> QED BY <1>1, SpoolInvariant, PTL

(* The read cache (lql_json_spool_byte_at, lql_json_spool_find_string_end)   *)
(* never holds a byte that is not the record's: no append, failed read,      *)
(* replay or rescan leaves a stale one behind.                               *)
THEOREM SpoolCacheIsCurrent == Spec => []CacheIsCurrent
  BY CacheCurrent, SpoolInvariant, PTL

-----------------------------------------------------------------------------
(* The refinement: every step of the spool is a step of the byte log or      *)
(* leaves what the log keeps alone                                           *)

LEMMA StoredKept ==
    ASSUME file'.open = file.open, file'.data = file.data, UNCHANGED <<memory, size>>
    PROVE  Stored' = Stored
  BY DEF Stored

LEMMA LogInit == Init => Log!Init
  BY DEF Init, Log!Init, Log!Nothing, Stored, Closed, NoCache

(* what is handed out for a part of the record is an observation of the log *)
LEMMA LogObserves ==
    ASSUME SpoolInv, NEW m \in Nat, NEW n \in Nat, m + n <= size, Stored' = Stored,
           seen' = [offset |-> m, data |-> Bytes(Stored, m, n)]
    PROVE  Log!Next
<1>1. Len(Stored) = size /\ size \in Nat
  BY StoredFacts DEF SpoolInv, TypeOK
<1>2. m \in 0 .. Len(Stored) /\ n \in 0 .. (Len(Stored) - m)
  BY <1>1
<1>3. Log!Observe(m, n)
  BY DEF Log!Observe, Bytes
<1> QED BY <1>2, <1>3 DEF Log!Next

(* an append extends the log by its data *)
LEMMA LogExtends ==
    ASSUME SpoolInv, NEW data \in Seq(Byte), Stored' = Stored \o data, UNCHANGED seen
    PROVE  Log!Next
<1>1. Stored \in Seq(Byte)
  BY StoredFacts
<1>2. /\ Stored' \in Seq(Byte) /\ Len(Stored') = Len(Stored) + Len(data)
      /\ SubSeq(Stored', 1, Len(Stored)) = Stored
  BY <1>1, ConcatFacts
<1>3. Log!Extend
  BY <1>1, <1>2 DEF Log!Extend
<1> QED BY <1>3 DEF Log!Next

LEMMA AppendMemoryLog ==
    ASSUME SpoolInv, NEW data \in Piece, AppendMemory(data) PROVE Log!Next
<1>1. Stored' = Stored \o data /\ UNCHANGED seen
  BY DEF AppendMemory, Stored
<1> QED BY <1>1, PieceIsSeq, LogExtends

LEMMA AppendFileLog ==
    ASSUME SpoolInv, NEW data \in Piece, AppendFile(data) PROVE Log!Next
<1>1. data \in Seq(Byte)
  BY PieceIsSeq
<1>2. file'.open /\ file'.data = Stored \o data /\ UNCHANGED seen /\ size' = size + Len(data)
  BY <1>1, WrittenFacts DEF AppendFile
<1>3. Stored \o data \in Seq(Byte) /\ Len(Stored \o data) = size + Len(data)
  BY <1>1, StoredFacts, ConcatFacts
<1>4. Stored' = Stored \o data
  BY <1>2, <1>3, WholeSequence DEF Stored
<1> QED BY <1>1, <1>2, <1>4, LogExtends

(* a failed append changes nothing that can still be read *)
LEMMA AppendFailsLog ==
    ASSUME SpoolInv, NEW data \in Piece, AppendFails(data) PROVE UNCHANGED <<Stored, seen>>
  BY FailedFile DEF AppendFails, Stored

LEMMA ResetLog ==
    ASSUME Reset PROVE Log!Next
<1>1. Log!Reset
  BY DEF Reset, Log!Reset, Log!Nothing, Stored, Closed, NoCache
<1> QED BY <1>1 DEF Log!Next

LEMMA WriteSliceLog ==
    ASSUME SpoolInv, NEW offset \in 0 .. MaxSize, NEW len \in 0 .. MaxSize,
           WriteSlice(offset, len)
    PROVE  Log!Next \/ UNCHANGED <<Stored, seen>>
<1>1. Stored' = Stored
  BY StoredKept DEF WriteSlice
<1>2. CASE file.open
  BY <1>1, <1>2 DEF WriteSlice
<1>3. CASE ~file.open
  <2>1. seen' = [offset |-> offset, data |-> Bytes(Stored, offset, len)] /\ offset + len <= size
    BY <1>3, StoredFacts DEF WriteSlice, Sees
  <2> QED BY <1>1, <2>1, LogObserves
<1> QED BY <1>2, <1>3

LEMMA ReplayChunkLog ==
    ASSUME SpoolInv, ReplayChunk PROVE Log!Next
<1> DEFINE amount == Smaller(Inner.len, Buffer)
<1>1. replays # <<>>
  BY DEF ReplayChunk
<1>2. amount \in Nat /\ amount <= Inner.len
  BY <1>1, InnerFacts, SmallerFacts
<1>3. /\ seen' = [offset |-> Inner.offset, data |-> Bytes(file.data, Inner.offset, amount)]
      /\ file' = [file EXCEPT !.pos = Inner.offset + amount]
      /\ UNCHANGED <<memory, size>>
  BY DEF ReplayChunk, Sees, FileRead, SeekTo
<1> HIDE DEF amount
<1>4. Inner.offset \in Nat /\ Inner.offset + amount \in Nat /\ Inner.offset + amount <= size
  BY <1>1, <1>2, InnerFacts
<1>5. Stored' = Stored
  BY <1>3, <1>4, FileMoved, StoredKept DEF SpoolInv, TypeOK
<1>6. Bytes(file.data, Inner.offset, amount) = Bytes(Stored, Inner.offset, amount)
  BY <1>1, <1>2, <1>4, InnerFacts, FilePart
<1> QED BY <1>2, <1>3, <1>4, <1>5, <1>6, LogObserves

LEMMA ReadByteLog ==
    ASSUME SpoolInv, NEW offset \in 0 .. MaxSize, offset < size, phase = "read",
           ReadByte(offset), UNCHANGED <<memory, size>>
    PROVE  Log!Next
<1>1. offset \in Nat /\ offset + 1 <= size /\ phase = "read" /\ size \in Nat
      /\ UNCHANGED <<memory, size>>
  BY SpoolNumbers
<1>2. Stored \in Seq(Byte) /\ Len(Stored) = size
  BY StoredFacts
<1>3. Bytes(Stored, offset, 1) = <<Stored[offset + 1]>>
  BY <1>1, <1>2, OneByte, Zenon
<1>4. ASSUME Stored' = Stored, seen' = [offset |-> offset, data |-> <<Stored[offset + 1]>>]
      PROVE  Log!Next
  BY <1>1, <1>3, <1>4, LogObserves
<1>5. CASE ~file.open
  <2>1. seen' = [offset |-> offset, data |-> Bytes(memory, offset, 1)] /\ UNCHANGED file
    BY <1>5 DEF ReadByte, Sees
  <2>2. Stored' = Stored /\ Stored = memory
    BY <1>1, <1>5, <2>1, StoredFacts, StoredKept
  <2> QED BY <1>3, <1>4, <2>1, <2>2
<1>6. CASE file.open /\ Cached(offset)
  <2>1. /\ seen' = [offset |-> offset, data |-> <<cache.data[offset - cache.offset + 1]>>]
        /\ UNCHANGED file
    BY <1>6 DEF ReadByte, Sees
  <2>2. PICK i \in Nat : i = offset - cache.offset + 1
    BY <1>6 DEF Cached, SpoolInv, TypeOK
  <2>3. /\ i \in 1 .. Len(cache.data) /\ cache.data # <<>> /\ cache.offset + i = offset + 1
        /\ cache.offset \in Nat /\ Len(cache.data) \in Nat
    BY <1>6, <2>2 DEF Cached, SpoolInv, TypeOK
  <2>4. /\ cache.data = Bytes(Stored, cache.offset, Len(cache.data))
        /\ cache.offset + Len(cache.data) <= size
    BY <2>3, CacheCurrent DEF CacheIsCurrent, SpoolInv, CacheInv
  <2>5. cache.data[i] = Stored[cache.offset + i]
    <3> DEFINE n == Len(cache.data)
    <3>1. n \in Nat /\ cache.offset + n <= Len(Stored) /\ i \in 1 .. n
      BY <1>2, <2>3, <2>4
    <3> HIDE DEF n
    <3>2. Bytes(Stored, cache.offset, n)[i] = Stored[cache.offset + i]
      <4>1. PICK c \in Nat : c = cache.offset
        BY <2>3
      <4>2. Bytes(Stored, c, n)[i] = Stored[c + i]
        <5>1. c + n <= Len(Stored) /\ n \in Nat /\ i \in 1 .. n /\ Stored \in Seq(Byte)
          BY <1>2, <3>1, <4>1, Zenon
        <5> QED BY <5>1 DEF Bytes
      <4> QED BY <4>1, <4>2, Zenon
    <3> QED BY <2>4, <3>2 DEF n
  <2> QED BY <1>1, <1>4, <2>1, <2>2, <2>3, <2>5, StoredKept
<1>7. CASE file.open /\ ~Cached(offset)
  <2> DEFINE amount == Smaller(size - offset, Buffer)
  <2>1. /\ cache' = [offset |-> offset, data |-> Bytes(file.data, offset, amount)]
        /\ file' = [file EXCEPT !.pos = offset + amount]
        /\ seen' = [offset |-> offset, data |-> <<cache'.data[1]>>]
    BY <1>7 DEF ReadByte, Sees, FileRead
  <2>2. amount \in Nat /\ amount # 0 /\ amount <= size - offset
    <3>1. size - offset \in Nat /\ size - offset # 0 /\ Buffer \in Nat /\ Buffer # 0
      BY <1>1 DEF SpoolInv, TypeOK
    <3> QED BY <3>1, SmallerFacts
  <2> HIDE DEF amount
  <2>3. offset + amount \in Nat /\ offset + amount <= size
    BY <1>1, <2>2
  <2>4. Bytes(file.data, offset, amount) = Bytes(Stored, offset, amount)
    BY <1>1, <1>7, <2>2, <2>3, FilePart
  <2>5. cache'.data[1] = Stored[offset + 1]
    <3>1. cache'.data = Bytes(Stored, offset, amount)
      BY <2>1, <2>4
    <3>2. 1 \in 1 .. amount
      BY <2>2
    <3> QED BY <1>1, <1>2, <2>2, <2>3, <3>1, <3>2, BytesFacts
  <2>6. Stored' = Stored
    BY <1>1, <2>1, <2>3, FileMoved, StoredKept DEF SpoolInv, TypeOK
  <2> QED BY <1>4, <2>1, <2>5, <2>6
<1> QED BY <1>5, <1>6, <1>7

LEMMA ReaderReadLog ==
    ASSUME SpoolInv, NEW capacity \in 1 .. MaxSize, ReaderRead(capacity) PROVE Log!Next
<1>1. PICK amount \in Nat :
             /\ reader \in Nat /\ reader + amount <= size /\ phase = "read"
             /\ seen' = [offset |-> reader,
                         data |-> Bytes(IF file.open THEN file.data ELSE memory, reader, amount)]
             /\ file' = IF file.open THEN [file EXCEPT !.pos = reader + amount] ELSE file
             /\ UNCHANGED <<memory, size>>
  BY ReaderReadFacts
<1>2. Stored = IF file.open THEN file.data ELSE memory
  BY <1>1, StoredFacts
<1>3. file'.open = file.open /\ file'.data = file.data
  <2>1. reader + amount \in Nat /\ file \in File
    BY <1>1, SpoolNumbers
  <2> QED BY <1>1, <2>1, FileMoved, Zenon
<1> QED BY <1>1, <1>2, <1>3, StoredKept, LogObserves

(* the remaining steps move the position of the file or nothing at all *)
LEMMA SilentLog ==
    ASSUME SpoolInv,
           \/ Seal \/ ReplayEnds \/ ByteAtFails \/ ReaderInit \/ ReaderEnds
           \/ FindSeek \/ FindChunk \/ FindFails \/ FindEnds
    PROVE  UNCHANGED <<Stored, seen>>
<1>1. CASE Seal \/ ReplayEnds \/ ReaderEnds \/ FindEnds
  BY <1>1, StoredKept DEF Seal, ReplayEnds, ReaderEnds, FindEnds
<1>2. CASE ReaderInit
  BY <1>2, FileMoved, StoredKept DEF ReaderInit, SpoolInv, TypeOK
<1>3. CASE FindChunk
  <2>1. PICK amount \in Nat :
          /\ file' = file \/ file' = [file EXCEPT !.pos = find.pos + amount]
          /\ UNCHANGED <<memory, size, seen>>
    BY <1>3, FindChunkFacts
  <2>2. file'.open = file.open /\ file'.data = file.data
    <3>1. find.pos + amount \in Nat /\ file \in File
      BY DEF SpoolInv, TypeOK, Find
    <3>2. PICK p \in Nat : p = find.pos + amount
      BY <3>1
    <3>3. file' = file \/ file' = [file EXCEPT !.pos = p]
      BY <2>1, <3>2
    <3>4. CASE file' = file
      BY <3>4, Zenon
    <3>5. CASE file' = [file EXCEPT !.pos = p]
      BY <3>1, <3>5, FileMoved
    <3> QED BY <3>3, <3>4, <3>5
  <2> QED BY <2>1, <2>2, StoredKept
<1>4. CASE FindSeek
  <2>1. find.pos \in Nat /\ file' = [file EXCEPT !.pos = find.pos] /\ UNCHANGED <<memory, size, seen>>
    BY <1>4 DEF FindSeek, SpoolInv, TypeOK, Find
  <2>2. file'.open = file.open /\ file'.data = file.data
    BY <2>1, FileMoved DEF SpoolInv, TypeOK
  <2> QED BY <2>1, <2>2, StoredKept
<1>5. CASE ByteAtFails \/ FindFails
  <2>1. ReadFails /\ UNCHANGED <<memory, size, seen>>
    BY <1>5 DEF ByteAtFails, FindFails
  <2> QED BY <2>1, ReadFailsFacts, StoredKept
<1> QED BY <1>1, <1>2, <1>3, <1>4, <1>5

LEMMA LogStep == SpoolInv /\ [Next]_vars => [Log!Next]_(Log!vars)
<1> SUFFICES ASSUME SpoolInv, [Next]_vars PROVE Log!Next \/ UNCHANGED <<Stored, seen>>
  BY DEF Log!vars
<1>1. CASE UNCHANGED vars
  BY <1>1, StoredKept DEF vars
<1>2. ASSUME NEW data \in Piece, AppendMemory(data) \/ AppendFile(data) \/ AppendFails(data)
      PROVE  Log!Next \/ UNCHANGED <<Stored, seen>>
  BY <1>2, AppendMemoryLog, AppendFileLog, AppendFailsLog
<1>3. ASSUME NEW offset \in 0 .. MaxSize, NEW len \in 0 .. MaxSize, WriteSlice(offset, len)
      PROVE  Log!Next \/ UNCHANGED <<Stored, seen>>
  BY <1>3, WriteSliceLog
<1>4. ASSUME NEW offset \in 0 .. MaxSize, NEW end \in 0 .. MaxSize,
             ByteAt(offset) \/ FindStart(offset, end)
      PROVE  Log!Next \/ UNCHANGED <<Stored, seen>>
  <2>1. /\ offset < size /\ phase = "read" /\ ReadByte(offset) /\ UNCHANGED <<memory, size>>
    BY <1>4, SpoolNumbers DEF ByteAt, FindStart
  <2> QED BY <2>1, ReadByteLog
<1>4a. MaxSize \in 0 .. MaxSize
  OBVIOUS
<1>5. ASSUME NEW capacity \in 1 .. MaxSize, ReaderRead(capacity)
      PROVE  Log!Next \/ UNCHANGED <<Stored, seen>>
  BY <1>5, ReaderReadLog
<1>6. CASE Reset \/ ReplayChunk
  BY <1>6, ResetLog, ReplayChunkLog
<1>7. CASE \/ Seal \/ ReplayEnds \/ ByteAtFails \/ ReaderInit \/ ReaderEnds
           \/ FindSeek \/ FindChunk \/ FindFails \/ FindEnds
  BY <1>7, SilentLog
<1> QED BY <1>1, <1>2, <1>3, <1>4, <1>4a, <1>5, <1>6, <1>7 DEF Next

(* The spool implements the byte log: whatever the interleaving of nested    *)
(* replays, single bytes, rescans and searches over the one file position,   *)
(* with failed reads and appends, what is handed out for an offset is what   *)
(* was appended there since the last reset.                                  *)
THEOREM SpoolImplementsLog == Spec => ImplementsLog
<1>1. Init => Log!Init
  BY LogInit
<1>2. SpoolInv /\ [Next]_vars => [Log!Next]_(Log!vars)
  BY LogStep
<1> QED BY <1>1, <1>2, SpoolInvariant, PTL DEF Spec, ImplementsLog, Log!Spec

-----------------------------------------------------------------------------
(* The end of a string *)

(* the backslashes that end at j, after the opening quote at start + 1 *)
Slashes(s, start, j) == {k \in (start + 2) .. j : \A i \in k .. j : s[i] = Slash}

Odd(s, start, j) == Cardinality(Slashes(s, start, j)) % 2 # 0

Closing(s, start, n) == {j \in (start + 2) .. n : s[j] = Quote /\ ~Odd(s, start, j - 1)}

LEMMA SlashesFinite ==
    ASSUME NEW s, NEW start \in Nat, NEW j \in Nat
    PROVE  IsFiniteSet(Slashes(s, start, j)) /\ Cardinality(Slashes(s, start, j)) \in Nat
<1>1. IsFiniteSet((start + 2) .. j)
  BY FS_Interval
<1>2. Slashes(s, start, j) \subseteq (start + 2) .. j
  BY DEF Slashes
<1> QED BY <1>1, <1>2, FS_Subset, FS_CardinalityType

(* no backslash precedes the first byte of the string *)
LEMMA OddAtStart ==
    ASSUME NEW s, NEW start \in Nat PROVE ~Odd(s, start, start + 1)
<1>1. Slashes(s, start, start + 1) = {}
  BY DEF Slashes
<1> QED BY <1>1, FS_EmptySet DEF Odd

(* Counting the backslashes that end at a byte, modulo two, is what the scan *)
(* does with one bit.                                                        *)
LEMMA OddStep ==
    ASSUME NEW s, NEW start \in Nat, NEW j \in Nat, start + 2 <= j
    PROVE  Odd(s, start, j) = (s[j] = Slash /\ ~Odd(s, start, j - 1))
<1>1. CASE s[j] # Slash
  <2>1. Slashes(s, start, j) = {}
    BY <1>1 DEF Slashes
  <2> QED BY <1>1, <2>1, FS_EmptySet DEF Odd
<1>2. CASE s[j] = Slash
  <2>1. j - 1 \in Nat
    OBVIOUS
  <2>2. Slashes(s, start, j) = Slashes(s, start, j - 1) \cup {j}
    BY <1>2 DEF Slashes
  <2>3. j \notin Slashes(s, start, j - 1)
    BY DEF Slashes
  <2>4. Cardinality(Slashes(s, start, j)) = Cardinality(Slashes(s, start, j - 1)) + 1
    BY <2>1, <2>2, <2>3, SlashesFinite, FS_AddElement
  <2>5. PICK c \in Nat : c = Cardinality(Slashes(s, start, j - 1))
    BY <2>1, SlashesFinite
  <2>6. ((c + 1) % 2 # 0) = ~(c % 2 # 0)
    OBVIOUS
  <2> QED BY <1>2, <2>4, <2>5, <2>6 DEF Odd
<1> QED BY <1>1, <1>2

(* A search in progress: no end has been passed, and the bit is the parity   *)
(* of the backslashes before the position.                                   *)
SearchInv ==
    find.on =>
      /\ find.out = 0 /\ ~find.unterminated /\ find.start < find.pos
      /\ find.escaped = Odd(Stored, find.start, find.pos)
      /\ \A j \in Closing(Stored, find.start, find.end) : find.pos < j

LEMMA FindsStringEndMeans ==
    FindsStringEnd <=>
      /\ find.out # 0 => /\ find.out \in Closing(Stored, find.start, find.end)
                         /\ \A j \in Closing(Stored, find.start, find.end) : find.out <= j
      /\ find.unterminated => Closing(Stored, find.start, find.end) = {}
<1>1. ASSUME NEW j PROVE (Cardinality(Slashes(Stored, find.start, j)) % 2 = 0)
                         <=> ~Odd(Stored, find.start, j)
  BY DEF Odd
<1> QED BY <1>1, Zenon DEF FindsStringEnd, Closing, Slashes, Odd

(* there is nothing to show when there is no search *)
LEMMA NoSearchFinds ==
    ASSUME ~find'.on, find'.out = 0, ~find'.unterminated
    PROVE  SearchInv' /\ FindsStringEnd'
  BY DEF SearchInv, FindsStringEnd

(* In a chunk of the record, the scan knows the parity at every byte. *)
LEMMA ScanIsParity ==
    ASSUME NEW s \in Seq(Byte), NEW start \in Nat, NEW pos \in Nat, NEW amount \in Nat,
           start < pos, pos + amount <= Len(s)
    PROVE  \A i \in 0 .. amount :
             EscapedAfter(Bytes(s, pos, amount), Odd(s, start, pos))[i] = Odd(s, start, pos + i)
<1> DEFINE chunk == Bytes(s, pos, amount)
           e == EscapedAfter(chunk, Odd(s, start, pos))
           T == {i \in 0 .. amount : e[i] = Odd(s, start, pos + i)}
<1>1. chunk \in Seq(Byte) /\ Len(chunk) = amount /\ \A i \in 1 .. amount : chunk[i] = s[pos + i]
  BY BytesFacts
<1>2. Odd(s, start, pos) \in BOOLEAN
  BY DEF Odd
<1> HIDE DEF chunk
<1>3. /\ e[0] = Odd(s, start, pos)
      /\ \A i \in 1 .. amount : e[i] = (chunk[i] = Slash /\ ~e[i - 1])
  <2>1. /\ e[0] = Odd(s, start, pos)
        /\ \A i \in 1 .. Len(chunk) : e[i] = (chunk[i] = Slash /\ ~e[i - 1])
    <3>1. \A c \in Seq(Byte), b \in BOOLEAN :
            /\ EscapedAfter(c, b)[0] = b
            /\ \A i \in 1 .. Len(c) :
                 EscapedAfter(c, b)[i] = (c[i] = Slash /\ ~EscapedAfter(c, b)[i - 1])
      BY EscapedFacts
    <3>2. chunk \in Seq(Byte)
      BY <1>1
    <3> QED BY <1>2, <3>1, <3>2, Zenon
  <2> HIDE DEF e
  <2> QED BY <1>1, <2>1
<1> HIDE DEF e
<1>4. 0 \in T
  BY <1>3
<1>5. ASSUME NEW i \in 1 .. amount, i - 1 \in T PROVE i \in T
  <2>1. e[i - 1] = Odd(s, start, pos + (i - 1))
    BY <1>5
  <2>2. pos + i \in Nat /\ start + 2 <= pos + i /\ pos + i - 1 = pos + (i - 1)
    OBVIOUS
  <2>3. Odd(s, start, pos + i) = (s[pos + i] = Slash /\ ~Odd(s, start, pos + (i - 1)))
    BY <2>2, OddStep
  <2>4. e[i] = Odd(s, start, pos + i)
    BY <1>1, <1>3, <2>1, <2>3
  <2> QED BY <2>4
<1>6. \A i \in 1 .. amount : i - 1 \in T => i \in T
  BY <1>5
<1> HIDE DEF T
<1>7. 0 .. amount \subseteq T
  BY <1>4, <1>6, IntervalInduction, Zenon
<1> QED BY <1>7 DEF T, e, chunk

(* Steps that leave the search alone keep what is known about it. *)
LEMMA SearchKept ==
    ASSUME SpoolInv, SearchInv, FindsStringEnd, UNCHANGED find,
           phase # "read" \/ UNCHANGED Stored
    PROVE  SearchInv' /\ FindsStringEnd'
<1>1. CASE phase # "read"
  <2>1. find' = NoFind
    BY <1>1 DEF SpoolInv, FillInv, Idle
  <2> QED BY <2>1, NoSearch, NoSearchFinds
<1>2. CASE UNCHANGED Stored
  <2>1. SearchInv'
    BY <1>2 DEF SearchInv, Odd, Closing, Slashes
  <2>2. FindsStringEnd'
    BY <1>2 DEF FindsStringEnd
  <2> QED BY <2>1, <2>2
<1> QED BY <1>1, <1>2

LEMMA FindStartSearch ==
    ASSUME SpoolInv, NEW offset \in 0 .. MaxSize, NEW end \in 0 .. MaxSize, FindStart(offset, end)
    PROVE  SearchInv' /\ FindsStringEnd'
<1>1. CASE find' = NoFind
  BY <1>1, NoSearch, NoSearchFinds
<1>2. CASE find' = [NoFind EXCEPT !.on = TRUE, !.start = offset, !.end = end,
                                  !.pos = offset + 1, !.seek = file.open]
  <2>1. /\ find'.out = 0 /\ ~find'.unterminated /\ find'.start = offset
        /\ find'.pos = offset + 1 /\ find'.escaped = FALSE /\ find'.end = end
    BY <1>2 DEF NoFind
  <2>2. ~Odd(Stored', offset, offset + 1)
    BY OddAtStart
  <2>3. ASSUME NEW j \in Closing(Stored', offset, end) PROVE offset + 1 < j
    BY DEF Closing
  <2>4. Odd(Stored', find'.start, find'.pos) = FALSE
    BY <2>1, <2>2 DEF Odd
  <2>5. find'.escaped = Odd(Stored', find'.start, find'.pos)
    BY <2>1, <2>4, Zenon
  <2>6. find'.start < find'.pos
    BY <2>1
  <2>7. \A j \in Closing(Stored', find'.start, find'.end) : find'.pos < j
    BY <2>1, <2>3
  <2>8. SearchInv'
    BY <2>1, <2>5, <2>6, <2>7, Zenon DEF SearchInv
  <2>9. FindsStringEnd'
    BY <2>1 DEF FindsStringEnd
  <2> QED BY <2>8, <2>9
<1> QED BY <1>1, <1>2 DEF FindStart

LEMMA FindSeekSearch ==
    ASSUME SpoolInv, SearchInv, FindsStringEnd, FindSeek PROVE SearchInv' /\ FindsStringEnd'
<1>1. /\ find'.on = find.on /\ find'.out = find.out /\ find'.unterminated = find.unterminated
      /\ find'.start = find.start /\ find'.end = find.end /\ find'.pos = find.pos
      /\ find'.escaped = find.escaped
  BY DEF FindSeek, SpoolInv, TypeOK, Find
<1>2. Stored' = Stored
  BY SilentLog
<1>3. SearchInv'
  <2>1. find.on
    BY DEF FindSeek
  <2>2. Odd(Stored', find'.start, find'.pos) = Odd(Stored, find.start, find.pos)
    BY <1>1, <1>2, Zenon
  <2>3. Closing(Stored', find'.start, find'.end) = Closing(Stored, find.start, find.end)
    BY <1>1, <1>2, Zenon
  <2> QED BY <1>1, <2>1, <2>2, <2>3, Zenon DEF SearchInv
<1>4. (FindsStringEnd <=>
         /\ find.out # 0 => /\ find.out \in Closing(Stored, find.start, find.end)
                            /\ \A j \in Closing(Stored, find.start, find.end) : find.out <= j
         /\ find.unterminated => Closing(Stored, find.start, find.end) = {})'
  BY FindsStringEndMeans, PTL
<1>5. Closing(Stored, find.start, find.end)' = Closing(Stored, find.start, find.end)
  BY <1>1, <1>2, Zenon DEF Closing, Odd, Slashes
<1>6. FindsStringEnd'
  BY <1>1, <1>4, <1>5, FindsStringEndMeans, Zenon
<1> QED BY <1>3, <1>6

(* The ends found in a chunk are the closing quotes among its bytes. *)
LEMMA EndsAreClosing ==
    ASSUME NEW s \in Seq(Byte), NEW start \in Nat, NEW end \in Nat, NEW pos \in Nat,
           NEW amount \in Nat, start < pos, pos + amount <= end, end <= Len(s),
           NEW i \in 1 .. amount
    PROVE  i \in Ends(Bytes(s, pos, amount), Odd(s, start, pos))
             <=> pos + i \in Closing(s, start, end)
<1> DEFINE chunk == Bytes(s, pos, amount)
           e == EscapedAfter(chunk, Odd(s, start, pos))
<1>0. pos + amount <= Len(s)
  OBVIOUS
<1>1. Len(chunk) = amount /\ chunk[i] = s[pos + i]
  <2>1. \A j \in 1 .. amount : Bytes(s, pos, amount)[j] = s[pos + j]
    BY <1>0, BytesFacts, Zenon
  <2>2. Len(Bytes(s, pos, amount)) = amount
    BY <1>0, BytesFacts, Zenon
  <2> QED BY <2>1, <2>2, Zenon
<1>2. i - 1 \in 0 .. amount /\ pos + (i - 1) = pos + i - 1
  OBVIOUS
<1>3. e[i - 1] = Odd(s, start, pos + (i - 1))
  BY <1>0, <1>2, ScanIsParity
<1>4. pos + i \in (start + 2) .. end
  OBVIOUS
<1>5. i \in Ends(chunk, Odd(s, start, pos)) <=> chunk[i] = Quote /\ ~e[i - 1]
  BY <1>1 DEF Ends
<1>6. pos + i \in Closing(s, start, end) <=> s[pos + i] = Quote /\ ~Odd(s, start, pos + (i - 1))
  BY <1>2, <1>4 DEF Closing
<1> HIDE DEF chunk, e
<1>7. i \in Ends(chunk, Odd(s, start, pos)) <=> pos + i \in Closing(s, start, end)
  BY <1>1, <1>3, <1>5, <1>6, Zenon
<1> QED BY <1>7 DEF chunk

LEMMA FindChunkSearch ==
    ASSUME SpoolInv, SearchInv, FindChunk PROVE SearchInv' /\ FindsStringEnd'
<1> DEFINE start == find.start
           closing == Closing(Stored, start, find.end)
<1>1. PICK amount \in Nat, chunk \in Seq(Byte) :
             /\ find.pos + amount <= find.end /\ find.end <= size
             /\ (amount = 0 => find.pos = find.end)
             /\ chunk = Bytes(Stored, find.pos, amount) /\ Len(chunk) = amount
             /\ find' = [find EXCEPT !.on = Ends(chunk, find.escaped) = {} /\ amount # 0,
                                     !.pos = find.pos + amount,
                                     !.escaped = Carry(chunk, find.escaped),
                                     !.out = IF Ends(chunk, find.escaped) # {}
                                             THEN find.pos + First(Ends(chunk, find.escaped))
                                             ELSE 0,
                                     !.unterminated = amount = 0]
             /\ UNCHANGED <<size, phase>>
  BY FindChunkFacts
<1> DEFINE ends == Ends(chunk, find.escaped)
<1>2. /\ find \in Find /\ find.end \in Nat
      /\ find.on /\ find.pos \in Nat /\ start \in Nat /\ find.escaped \in BOOLEAN
      /\ start < find.pos /\ find.escaped = Odd(Stored, start, find.pos)
      /\ \A j \in closing : find.pos < j
      /\ phase = "read" /\ size \in Nat
  BY IdleFacts DEF FindChunk, SpoolInv, TypeOK, FillInv, SearchInv, Find
<1>3. Stored' = Stored /\ Stored \in Seq(Byte) /\ Len(Stored) = size
  BY SilentLog, StoredFacts
<1>4. /\ find'.on = (ends = {} /\ amount # 0) /\ find'.start = start /\ find'.end = find.end
      /\ find'.pos = find.pos + amount /\ find'.escaped = Carry(chunk, find.escaped)
      /\ find'.out = IF ends # {} THEN find.pos + First(ends) ELSE 0
      /\ find'.unterminated = (amount = 0)
  BY <1>1, <1>2, Zenon DEF Find
<1>5. \A i \in 1 .. amount : i \in ends <=> find.pos + i \in closing
  BY <1>1, <1>2, <1>3, EndsAreClosing
<1>6. /\ ends \in SUBSET (1 .. amount)
      /\ ends # {} => First(ends) \in ends /\ \A j \in ends : First(ends) <= j
  BY <1>1, <1>2, EndsFacts
<1>7. find'.escaped = Odd(Stored, start, find.pos + amount)
  <2>1. amount \in 0 .. amount
    OBVIOUS
  <2>2. EscapedAfter(chunk, find.escaped)[amount] = Odd(Stored, start, find.pos + amount)
    <3>1. find.pos + amount <= Len(Stored)
      BY <1>1, <1>2, <1>3
    <3> QED BY <1>1, <1>2, <1>3, <2>1, <3>1, ScanIsParity
  <2> QED BY <1>1, <1>4, <2>2, Zenon DEF Carry
<1>8. \A j \in closing : j \in Nat /\ (j <= find.pos + amount => j - find.pos \in ends)
  <2> SUFFICES ASSUME NEW j \in closing
               PROVE  j \in Nat /\ (j <= find.pos + amount => j - find.pos \in ends)
    OBVIOUS
  <2>1. j \in Nat /\ find.pos < j
    BY <1>2 DEF Closing
  <2> HIDE DEF closing, ends
  <2>2. ASSUME j <= find.pos + amount PROVE j - find.pos \in ends
    <3>1. PICK i \in 1 .. amount : find.pos + i = j
      <4>1. j - find.pos \in 1 .. amount /\ find.pos + (j - find.pos) = j
        BY <1>2, <2>1, <2>2
      <4> QED BY <4>1
    <3>2. j - find.pos = i
      BY <1>2, <3>1
    <3> QED BY <1>5, <3>1, <3>2
  <2> QED BY <2>1, <2>2
<1> HIDE DEF start, closing, ends
<1>9. CASE ends # {}
  <2>1. First(ends) \in 1 .. amount /\ First(ends) \in ends
    BY <1>6, <1>9
  <2>2. PICK f \in 1 .. amount : f = First(ends) /\ f \in ends /\ \A j \in ends : f <= j
    BY <1>6, <1>9, <2>1
  <2>3. find'.out = find.pos + f /\ ~find'.on /\ ~find'.unterminated
    <3>1. amount # 0
      BY <2>1
    <3> QED BY <1>4, <1>9, <2>2, <3>1, Zenon
  <2>4. find.pos + f \in closing
    BY <1>5, <2>2
  <2>5. ASSUME NEW j \in closing PROVE find.pos + f <= j
    <3>1. CASE j <= find.pos + amount
      BY <1>2, <1>8, <2>2, <3>1
    <3>2. CASE ~(j <= find.pos + amount)
      BY <1>2, <1>8, <2>2, <3>2
    <3> QED BY <3>1, <3>2
  <2>6. SearchInv'
    BY <1>1, <1>2, <2>3 DEF SearchInv
  <2>7. FindsStringEnd'
    <3>1. closing = Closing(Stored', find'.start, find'.end)
      BY <1>1, <1>3, <1>4 DEF closing
    <3>2. find'.out \in closing /\ \A j \in closing : find'.out <= j
      BY <2>3, <2>4, <2>5
    <3>3. (FindsStringEnd <=>
             /\ find.out # 0 => /\ find.out \in Closing(Stored, find.start, find.end)
                                /\ \A j \in Closing(Stored, find.start, find.end) : find.out <= j
             /\ find.unterminated => Closing(Stored, find.start, find.end) = {})'
      BY FindsStringEndMeans, PTL
    <3> QED BY <2>3, <3>1, <3>2, <3>3
  <2> QED BY <2>6, <2>7
<1>10. CASE ends = {}
  <2>1. find'.out = 0 /\ find'.on = (amount # 0) /\ find'.unterminated = (amount = 0)
    BY <1>4, <1>10, Zenon
  <2>2. amount = 0 => closing = {}
    <3> SUFFICES ASSUME amount = 0, NEW j \in closing PROVE FALSE
      OBVIOUS
    <3>1. find.pos < j /\ j <= find.end /\ find.pos = find.end /\ j \in Nat
      BY <1>1, <1>2, <1>8 DEF closing, Closing
    <3> QED BY <1>2, <3>1
  <2>3. closing = Closing(Stored', find'.start, find'.end)
    BY <1>1, <1>3, <1>4 DEF closing
  <2>4. find'.start < find'.pos
    BY <1>2, <1>4 DEF start
  <2>5. \A j \in closing : find'.pos < j
    BY <1>2, <1>4, <1>8, <1>10
  <2>6. find'.escaped = Odd(Stored', find'.start, find'.pos)
    BY <1>3, <1>4, <1>7, Zenon
  <2>7. SearchInv'
    BY <2>1, <2>3, <2>4, <2>5, <2>6, Zenon DEF SearchInv
  <2>8. (FindsStringEnd <=>
           /\ find.out # 0 => /\ find.out \in Closing(Stored, find.start, find.end)
                              /\ \A j \in Closing(Stored, find.start, find.end) : find.out <= j
           /\ find.unterminated => Closing(Stored, find.start, find.end) = {})'
    BY FindsStringEndMeans, PTL
  <2>9. FindsStringEnd'
    BY <2>1, <2>2, <2>3, <2>8, Zenon
  <2> QED BY <2>7, <2>9
<1> QED BY <1>9, <1>10

(* what is read moves the position of the file, never its bytes *)
LEMMA ReadingKeepsStored ==
    ASSUME SpoolInv,
           \/ ReplayChunk
           \/ \E offset \in 0 .. MaxSize : ByteAt(offset)
           \/ \E capacity \in 1 .. MaxSize : ReaderRead(capacity)
    PROVE  UNCHANGED <<Stored, find>>
<1>1. ASSUME NEW p \in Nat, file' = [file EXCEPT !.pos = p] \/ file' = file,
             UNCHANGED <<memory, size>>
      PROVE  Stored' = Stored
  <2>1. CASE file' = file
    BY <1>1, <2>1, StoredKept
  <2>2. CASE file' = [file EXCEPT !.pos = p]
    BY <1>1, <2>2, FileMoved, StoredKept DEF SpoolInv, TypeOK
  <2> QED BY <1>1, <2>1, <2>2
<1>2. CASE ReplayChunk
  <2>1. replays # <<>>
    BY <1>2 DEF ReplayChunk
  <2>2. Smaller(Inner.len, Buffer) \in Nat
    BY <2>1, InnerFacts, SmallerFacts
  <2>3. Inner.offset + Smaller(Inner.len, Buffer) \in Nat
    BY <2>1, <2>2, InnerFacts
  <2> QED BY <1>1, <1>2, <2>3 DEF ReplayChunk, SeekTo
<1>3. ASSUME NEW offset \in 0 .. MaxSize, ByteAt(offset)
      PROVE  UNCHANGED <<Stored, find>>
  <2>1. /\ offset < size /\ phase = "read" /\ ReadByte(offset)
        /\ UNCHANGED <<memory, size, phase, find>>
    BY <1>3 DEF ByteAt
  <2>2. file'.open = file.open /\ file'.data = file.data
    BY <2>1, ReadByteInv
  <2> QED BY <2>1, <2>2, StoredKept
<1>4. ASSUME NEW capacity \in 1 .. MaxSize, ReaderRead(capacity)
      PROVE  UNCHANGED <<Stored, find>>
  <2>1. PICK amount \in Nat :
             /\ reader \in Nat
             /\ file' = IF file.open THEN [file EXCEPT !.pos = reader + amount] ELSE file
             /\ UNCHANGED <<memory, size, phase, find>>
    BY <1>4, ReaderReadFacts
  <2>2. PICK p \in Nat : p = reader + amount
    BY <2>1
  <2> QED BY <1>1, <2>1, <2>2
<1> QED BY <1>2, <1>3, <1>4

LEMMA SearchNext == SpoolInv /\ SearchInv /\ FindsStringEnd /\ [Next]_vars
                      => SearchInv' /\ FindsStringEnd'
<1> SUFFICES ASSUME SpoolInv, SearchInv, FindsStringEnd, [Next]_vars
             PROVE  SearchInv' /\ FindsStringEnd'
  OBVIOUS
<1>1. CASE UNCHANGED vars
  BY <1>1, StoredKept, SearchKept DEF vars
<1>2. ASSUME NEW data \in Piece, AppendMemory(data) \/ AppendFile(data) \/ AppendFails(data)
      PROVE  SearchInv' /\ FindsStringEnd'
  BY <1>2, SearchKept DEF AppendMemory, AppendFile, AppendFails
<1>3. ASSUME NEW offset \in 0 .. MaxSize, NEW len \in 0 .. MaxSize, WriteSlice(offset, len)
      PROVE  SearchInv' /\ FindsStringEnd'
  BY <1>3, StoredKept, SearchKept DEF WriteSlice
<1>4. ASSUME NEW offset \in 0 .. MaxSize, ByteAt(offset)
      PROVE  SearchInv' /\ FindsStringEnd'
  BY <1>4, ReadingKeepsStored, SearchKept
<1>5. ASSUME NEW offset \in 0 .. MaxSize, NEW end \in 0 .. MaxSize, FindStart(offset, end)
      PROVE  SearchInv' /\ FindsStringEnd'
  BY <1>5, FindStartSearch
<1>6. ASSUME NEW capacity \in 1 .. MaxSize, ReaderRead(capacity)
      PROVE  SearchInv' /\ FindsStringEnd'
  BY <1>6, ReadingKeepsStored, SearchKept
<1>7. CASE ReplayChunk
  BY <1>7, ReadingKeepsStored, SearchKept
<1>8. CASE FindChunk
  BY <1>8, FindChunkSearch
<1>9. CASE Reset
  BY <1>9, NoSearch, NoSearchFinds DEF Reset
<1>10. CASE Seal
  BY <1>10, SearchKept DEF Seal
<1>11. CASE ReplayEnds \/ ByteAtFails \/ ReaderInit \/ ReaderEnds
  BY <1>11, SilentLog, SearchKept DEF ReplayEnds, ByteAtFails, ReaderInit, ReaderEnds
<1>12. CASE FindFails \/ FindEnds
  BY <1>12, NoSearch, NoSearchFinds DEF FindFails, FindEnds
<1>13. CASE FindSeek
  BY <1>13, FindSeekSearch
<1> QED BY <1>1, <1>2, <1>3, <1>4, <1>5, <1>6, <1>7, <1>8, <1>9, <1>10, <1>11, <1>12, <1>13
        DEF Next

(* lql_json_spool_find_string_end finds the first quote that an even number  *)
(* of backslashes precedes, wherever the chunks of the file end: the one bit *)
(* it carries from chunk to chunk is the parity of the backslashes.          *)
THEOREM SpoolFindsStringEnd == Spec => []FindsStringEnd
<1>1. Init => SearchInv /\ FindsStringEnd
  BY DEF Init, NoFind, SearchInv, FindsStringEnd
<1>2. SpoolInv /\ SearchInv /\ FindsStringEnd /\ [Next]_vars => SearchInv' /\ FindsStringEnd'
  BY SearchNext
<1> QED BY <1>1, <1>2, SpoolInvariant, PTL DEF Spec
=============================================================================
