----------------------------- MODULE JsonSpool -----------------------------
(***************************************************************************)
(* The JSON spool (src/lql_json_spool.c): a record kept in memory until it *)
(* is too large, then in a temporary file whose one position is shared by  *)
(* writing, replaying slices, sequential reading and filling the cache.    *)
(*                                                                         *)
(* Callers fill a spool before they read it, and give it up after a failed *)
(* append (the scan ends); a writer that receives a slice may replay       *)
(* another slice before it returns.                                        *)
(***************************************************************************)
EXTENDS Integers, Sequences, FiniteSets

CONSTANTS
    Byte,        \* bytes, among them Quote and Slash
    Quote,
    Slash,
    Memory,      \* LQL_JSON_SPOOL_MEMORY_BYTES
    Buffer,      \* LQL_JSON_SPOOL_IO_BUFFER_BYTES
    Piece,       \* bound: what one append may bring
    MaxSize,     \* bound: bytes of a record
    MaxNested    \* bound: replays inside replays

ASSUME SpoolAssumption ==
    /\ Quote \in Byte /\ Slash \in Byte /\ Quote # Slash
    /\ Memory \in Nat /\ Buffer \in Nat \ {0}
    /\ MaxSize \in Nat /\ MaxNested \in Nat

ASSUME PieceAssumption == Piece \subseteq Seq(Byte)

VARIABLES
    memory,   \* spool->memory up to memory_len
    size,     \* spool->size
    file,     \* spool->file: open, its bytes and its position
    cache,    \* spool->read_cache: offset and the read_cache_len bytes
    phase,    \* what the caller does: fill, read, or give up after a failure
    replays,  \* lql_json_spool_write_slice calls in progress, the inner one last
    reader,   \* lql_json_spool_reader: its offset, -1 when there is none
    find,     \* lql_json_spool_find_string_end in progress
    seen      \* the last bytes handed out, and for which offset

vars == <<memory, size, file, cache, phase, replays, reader, find, seen>>

File == [open : BOOLEAN, data : Seq(Byte), pos : Nat]

Closed == [open |-> FALSE, data |-> <<>>, pos |-> 0]

NoCache == [offset |-> 0, data |-> <<>>]

(* a slice: where its next chunk is, how much is left, has a chunk been read *)
Slice == [offset : Nat, len : Nat, begun : BOOLEAN]

(* a search: its arguments, its position, whether the file is still to be    *)
(* positioned, and its two answers                                           *)
Find == [on : BOOLEAN, start : Nat, end : Nat, pos : Nat, seek : BOOLEAN, escaped : BOOLEAN,
         out : Nat, unterminated : BOOLEAN]

NoFind == [on |-> FALSE, start |-> 0, end |-> 0, pos |-> 0, seek |-> FALSE, escaped |-> FALSE,
           out |-> 0, unterminated |-> FALSE]

TypeOK ==
    /\ memory \in Seq(Byte) /\ Len(memory) <= Memory
    /\ size \in 0 .. MaxSize
    /\ file \in File
    /\ cache \in [offset : Nat, data : Seq(Byte)]
    /\ phase \in {"fill", "read", "failed"}
    /\ replays \in Seq(Slice)
    /\ reader \in -1 .. MaxSize
    /\ find \in Find
    /\ seen \in [offset : Nat, data : Seq(Byte)]

Init ==
    /\ memory = <<>> /\ size = 0 /\ file = Closed /\ cache = NoCache
    /\ phase = "fill" /\ replays = <<>> /\ reader = -1 /\ find = NoFind
    /\ seen = NoCache

Idle == replays = <<>> /\ reader = -1 /\ find = NoFind

-----------------------------------------------------------------------------
(* Filling *)

(* mutant: the cache of the previous record stays valid *)
MutantReset ==
    /\ Idle
    /\ memory' = <<>> /\ size' = 0 /\ file' = Closed
    /\ phase' = "fill" /\ find' = NoFind /\ seen' = NoCache
    /\ UNCHANGED <<cache, replays, reader>>

Reset ==
    /\ Idle
    /\ memory' = <<>> /\ size' = 0 /\ file' = Closed /\ cache' = NoCache
    /\ phase' = "fill" /\ find' = NoFind /\ seen' = NoCache
    /\ UNCHANGED <<replays, reader>>

(* fwrite at the position of the file *)
Written(f, data) ==
    [f EXCEPT !.data = SubSeq(@, 1, f.pos) \o data, !.pos = f.pos + Len(data)]

(* lql_json_spool_spill: the memory becomes the start of the file *)
Spilled == IF file.open THEN file ELSE [open |-> TRUE, data |-> memory, pos |-> Len(memory)]

(* mutant: what is already in memory is not counted *)
MutantAppendMemory(data) ==
    /\ phase = "fill" /\ size + Len(data) <= MaxSize
    /\ ~file.open /\ Len(data) <= Memory
    /\ memory' = memory \o data
    /\ size' = size + Len(data)
    /\ UNCHANGED <<file, cache, phase, replays, reader, find, seen>>

AppendMemory(data) ==
    /\ phase = "fill" /\ size + Len(data) <= MaxSize
    /\ ~file.open /\ Len(data) <= Memory - Len(memory)
    /\ memory' = memory \o data
    /\ size' = size + Len(data)
    /\ UNCHANGED <<file, cache, phase, replays, reader, find, seen>>

AppendFile(data) ==
    /\ phase = "fill" /\ size + Len(data) <= MaxSize
    /\ file.open \/ Len(data) > Memory - Len(memory)
    /\ file' = Written(Spilled, data)
    /\ cache' = [cache EXCEPT !.data = <<>>]
    /\ size' = size + Len(data)
    /\ UNCHANGED <<memory, phase, replays, reader, find, seen>>

(* tmpfile or fwrite fails, with a part of the data written: the caller ends *)
(* the scan and resets or frees the spool                                    *)
AppendFails(data) ==
    /\ phase = "fill"
    /\ file.open \/ Len(data) > Memory - Len(memory)
    /\ file' \in {file} \cup {Written(Spilled, SubSeq(data, 1, k)) : k \in 0 .. Len(data)}
    /\ cache' = [cache EXCEPT !.data = <<>>]
    /\ phase' = "failed"
    /\ UNCHANGED <<memory, size, replays, reader, find, seen>>

(* the caller starts to read *)
Seal ==
    /\ phase = "fill" /\ phase' = "read"
    /\ UNCHANGED <<memory, size, file, cache, replays, reader, find, seen>>

-----------------------------------------------------------------------------
(* Reading *)

Bytes(data, offset, len) == SubSeq(data, offset + 1, offset + len)

(* fflush, seek and fread *)
FileRead(offset, len) == Bytes(file.data, offset, len)

Smaller(a, b) == IF a < b THEN a ELSE b

Sees(offset, data) == seen' = [offset |-> offset, data |-> data]

(* lql_json_spool_write_slice: a writer that is called may start another *)
WriteSlice(offset, len) ==
    /\ phase = "read" /\ reader = -1 /\ find = NoFind
    /\ offset + len <= size
    /\ IF file.open
       THEN /\ len # 0 /\ Len(replays) < MaxNested
            /\ replays' = Append(replays, [offset |-> offset, len |-> len, begun |-> FALSE])
            /\ UNCHANGED seen
       ELSE Sees(offset, Bytes(memory, offset, len)) /\ UNCHANGED replays
    /\ UNCHANGED <<memory, size, file, cache, phase, reader, find>>

Inner == replays[Len(replays)]

(* mutant: the file is positioned once, when the slice starts *)
MutantSeekTo(slice) == IF slice.begun THEN file.pos ELSE slice.offset

(* the file is positioned for every chunk: the writer may have moved it *)
SeekTo(slice) == slice.offset

(* one round of its loop: seek, read, and the writer gets the chunk *)
ReplayChunk ==
    /\ replays # <<>> /\ Inner.len # 0
    /\ LET amount == Smaller(Inner.len, Buffer)
           from   == SeekTo(Inner)
       IN  /\ from + amount <= Len(file.data)
           /\ Sees(Inner.offset, FileRead(from, amount))
           /\ file' = [file EXCEPT !.pos = from + amount]
           /\ replays' = [replays EXCEPT ![Len(replays)] =
                            [offset |-> Inner.offset + amount, len |-> Inner.len - amount,
                             begun |-> TRUE]]
    /\ UNCHANGED <<memory, size, cache, phase, reader, find>>

(* it is over, or a read or the writer failed *)
ReplayEnds ==
    /\ replays # <<>>
    /\ replays' = SubSeq(replays, 1, Len(replays) - 1)
    /\ UNCHANGED <<memory, size, file, cache, phase, reader, find, seen>>

Cached(offset) == offset \in cache.offset .. (cache.offset + Len(cache.data) - 1)

(* lql_json_spool_byte_at: from memory, from the cache, or by filling it *)
ReadByte(offset) ==
    IF ~file.open THEN Sees(offset, Bytes(memory, offset, 1)) /\ UNCHANGED <<file, cache>>
    ELSE IF Cached(offset)
    THEN /\ Sees(offset, <<cache.data[offset - cache.offset + 1]>>)
         /\ UNCHANGED <<file, cache>>
    ELSE LET amount == Smaller(size - offset, Buffer)
         IN  /\ cache' = [offset |-> offset, data |-> FileRead(offset, amount)]
             /\ file' = [file EXCEPT !.pos = offset + amount]
             /\ Sees(offset, <<cache'.data[1]>>)

ByteAt(offset) ==
    /\ phase = "read" /\ reader = -1 /\ find = NoFind
    /\ offset < size /\ ReadByte(offset)
    /\ UNCHANGED <<memory, size, phase, replays, reader, find>>

(* a failed read empties the cache and leaves the position anywhere *)
ReadFails ==
    /\ file.open
    /\ cache' = [cache EXCEPT !.data = <<>>]
    /\ \E pos \in 0 .. size : file' = [file EXCEPT !.pos = pos]

ByteAtFails ==
    /\ phase = "read" /\ reader = -1 /\ find = NoFind
    /\ ReadFails
    /\ UNCHANGED <<memory, size, phase, replays, reader, find, seen>>

(* lql_json_spool_reader_init, for a rescan of the record *)
ReaderInit ==
    /\ phase = "read" /\ Idle
    /\ reader' = 0
    /\ file' = [file EXCEPT !.pos = 0]
    /\ UNCHANGED <<memory, size, cache, phase, replays, find, seen>>

(* lql_json_spool_read: on from where the file is *)
ReaderRead(capacity) ==
    /\ reader # -1
    /\ LET from   == IF file.open THEN file.pos ELSE reader
           bytes  == IF file.open THEN file.data ELSE memory
           amount == Smaller(capacity, Len(bytes) - from)
       IN  /\ Sees(reader, Bytes(bytes, from, amount))
           /\ reader' = reader + amount
           /\ file' = IF file.open THEN [file EXCEPT !.pos = @ + amount] ELSE file
    /\ UNCHANGED <<memory, size, cache, phase, replays, find>>

ReaderEnds ==
    /\ reader # -1 /\ reader' = -1
    /\ UNCHANGED <<memory, size, file, cache, phase, replays, find, seen>>

-----------------------------------------------------------------------------
(* lql_json_spool_find_string_end *)

(* string_chunk_end: is the byte after the first i of the chunk escaped *)
EscapedAfter(chunk, escaped) ==
    LET esc[i \in 0 .. Len(chunk)] ==
          IF i = 0 THEN escaped ELSE chunk[i] = Slash /\ ~esc[i - 1]
    IN  esc

Ends(chunk, escaped) ==
    {i \in 1 .. Len(chunk) : chunk[i] = Quote /\ ~EscapedAfter(chunk, escaped)[i - 1]}

First(indices) == CHOOSE i \in indices : \A j \in indices : i <= j

Stored == IF file.open THEN SubSeq(file.data, 1, size) ELSE memory

(* the first byte comes through byte_at; one that is no quote is an error *)
FindStart(offset, end) ==
    /\ phase = "read" /\ Idle
    /\ offset < end /\ end <= size
    /\ ReadByte(offset)
    /\ find' = IF seen'.data = <<Quote>>
               THEN [NoFind EXCEPT !.on = TRUE, !.start = offset, !.end = end,
                                   !.pos = offset + 1, !.seek = file.open]
               ELSE NoFind
    /\ UNCHANGED <<memory, size, phase, replays, reader>>

(* the file is positioned once: nothing else runs until the search is over *)
FindSeek ==
    /\ find.on /\ find.seek
    /\ file' = [file EXCEPT !.pos = find.pos]
    /\ find' = [find EXCEPT !.seek = FALSE]
    /\ UNCHANGED <<memory, size, cache, phase, replays, reader, seen>>

(* fflush, the seek or an fread fails *)
FindFails ==
    /\ find.on /\ ReadFails
    /\ find' = NoFind
    /\ UNCHANGED <<memory, size, phase, replays, reader, seen>>

(* mutant: a backslash at the end of a chunk is forgotten *)
MutantCarry(chunk, escaped) == FALSE

Carry(chunk, escaped) == EscapedAfter(chunk, escaped)[Len(chunk)]

(* one chunk, all of the rest when the record is in memory; the end is out, *)
(* or the string does not end before the end of the search                  *)
FindChunk ==
    /\ find.on /\ ~find.seek
    /\ LET left   == find.end - find.pos
           amount == IF file.open THEN Smaller(left, Buffer) ELSE left
           chunk  == IF file.open THEN FileRead(file.pos, amount)
                     ELSE Bytes(memory, find.pos, amount)
           ends   == Ends(chunk, find.escaped)
       IN  /\ find' = [find EXCEPT !.on = ends = {} /\ amount # 0,
                                   !.pos = find.pos + amount,
                                   !.escaped = Carry(chunk, find.escaped),
                                   !.out = IF ends # {} THEN find.pos + First(ends) ELSE 0,
                                   !.unterminated = amount = 0]
           /\ IF file.open /\ amount # 0
              THEN /\ cache' = [offset |-> find.pos, data |-> chunk]
                   /\ file' = [file EXCEPT !.pos = @ + amount]
              ELSE UNCHANGED <<cache, file>>
    /\ UNCHANGED <<memory, size, phase, replays, reader, seen>>

(* the caller takes the answer *)
FindEnds ==
    /\ ~find.on /\ find # NoFind
    /\ find' = NoFind
    /\ UNCHANGED <<memory, size, file, cache, phase, replays, reader, seen>>

Next ==
    \/ Reset \/ Seal
    \/ \E data \in Piece : AppendMemory(data) \/ AppendFile(data) \/ AppendFails(data)
    \/ \E offset \in 0 .. MaxSize :
         \/ \E len \in 0 .. MaxSize : WriteSlice(offset, len)
         \/ ByteAt(offset)
         \/ \E end \in 0 .. MaxSize : FindStart(offset, end)
    \/ ReplayChunk \/ ReplayEnds \/ ByteAtFails
    \/ ReaderInit \/ \E capacity \in 1 .. MaxSize : ReaderRead(capacity)
    \/ ReaderEnds \/ FindSeek \/ FindChunk \/ FindFails \/ FindEnds

Spec == Init /\ [][Next]_vars

-----------------------------------------------------------------------------
(* Properties *)

(* The spool implements the byte log: through memory, file, cache, nested    *)
(* replays and rescans, what is handed out for an offset is what was         *)
(* appended there since the last reset.                                      *)
Log == INSTANCE ByteLog WITH content <- Stored

ImplementsLog == Log!Spec

(* The end found for a string is its first quote after an even number of     *)
(* backslashes, also when a chunk of the file ends inside an escape, and a    *)
(* string is unterminated only if there is no such quote before the end of   *)
(* the search.                                                               *)
FindsStringEnd ==
    LET Slashes(j) == {k \in (find.start + 2) .. j :
                         \A i \in k .. j : Stored[i] = Slash}
        closing == {j \in (find.start + 2) .. find.end :
                      Stored[j] = Quote /\ Cardinality(Slashes(j - 1)) % 2 = 0}
    IN  /\ find.out # 0 => find.out \in closing /\ \A j \in closing : find.out <= j
        /\ find.unterminated => closing = {}

(* Whatever the cache holds are bytes of the current record. *)
CacheIsCurrent ==
    cache.data # <<>> =>
        /\ file.open
        /\ cache.data = Bytes(Stored, cache.offset, Len(cache.data))
=============================================================================
