# Verification of liblql

TLA+ models of liblql (a C89 library that evaluates LQL selectors, projections
and mutations over strict NDJSON streams), TLC configurations that check them
on small instances, and TLAPS proofs of the results that matter most.

Line numbers are those of the sources this directory accompanies;
`PROJECT.json` maps every definition to its lines.

## 1. The system

### Components

| Component | Source | State | Operations |
|---|---|---|---|
| Receiver and quota allocator | `lql_allocator.c`, `lql.c` (`lql_new`, `receiver_destroy`) | per receiver: live bytes, live blocks, destroyed flag; per block: header with owner and size | alloc, calloc, realloc, strdup, destroy, destroy of the receiver |
| JSON spool | `lql_json_spool.c` | memory up to 64 KiB, then a temporary file with one position, a read cache | append, reset, write a slice, byte at, find string end, sequential reader |
| JSON scanner | `lql_json_scan.c` | read buffer, bytes read, end of input, hit words, compact flag, optional copy of the record | refill, scan a value, separators, path and text matching, dispatch |
| Stream executor | `lql_stream_flat_eq.c`, `lql_stream.c` | selector program, result counters, stop reason, output plan | lower the selector, decide, deliver the value, write the output, apply limits |
| Mutation engine | `lql_stream_flat_eq.c` | action list, buffered output, file values | set, remove, increment, create parents, time and file values |
| Projection | `lql_projection.c`, `lql_stream_flat_eq.c` | paths, captures of the record | compatible paths, ordered nested output |
| File filter | `lql_file.c` | input and output descriptors | open, identity of input and output, filter, flush, close |
| Inline rewrite | `lql_file.c` | lock, snapshot, temporary file | lock, inspect, filter, sync, check, rename, sync directory, clean up |
| Selector parser | `lql_selector.c` | token position, tree under construction | parse short and long forms |
| Mutation parser | `lql_direct_actions.c` | action list | parse assignments |
| Numbers, temporal values, lower case | `lql_number.c`, `lql_temporal.c`, `lql_unicode_lower.c` | none | compare decimals, calendar arithmetic, case folding |
| Public JSON and cursors | `lql.c` | cursor over a selector tree | serialise, walk |
| Lua facade | `lua/lql_core.c`, `lua/lql_callbacks.h` | Lua userdata | convert requests, call back |
| Lua lifetime | `lua/lql_lifetime.h` | owners with reference counts, resources, scopes, deferred resources | guard a method, track, take, borrow, close |
| `clql` | `tools/clql.c` | options | command line around the file API |

### How they interact

The caller's reader feeds the scanner, which calls the executor once for each
record; the executor calls the caller's `on_decision`, then `on_value`, then
the writer, and applies the match limit.  In spooled calls the scanner copies
the compact record into the spool; values, output, projections and mutations
replay slices of the spool or rescan it, sometimes one replay inside another.
The file filter and the inline rewrite wrap a spooled call between opening and
closing files.  All handles are blocks of the quota allocator of the receiver
that made them.  The Lua facade holds receivers and handles in reference
counted owners, and its callbacks can run any other method of the facade.

The library starts no threads.  Concurrency comes from several processes (or
threads with a receiver each) rewriting the same path, from programs outside
the library, from a `cancelled` predicate that changes at any time, and from
reentrancy: Lua callbacks and writers that replay further slices.

### What is hard to test

The inline rewrite between other rewrites, kills and crashes; stops, failures
and cancellation at each point of a record; input cut into pieces anywhere;
one file position shared by nested replays; handles and receivers destroyed in
any order; callbacks that close what the running method uses; arithmetic at
the ends of `size_t`.  `PROJECT.json` lists these hazards at their lines, with
the properties that cover them or the reason why none does yet.

## 2. Modules

| Module | Models | Checked by |
|---|---|---|
| `InlineRewrite` | inline rewrite, concurrent file filter as reader | `MCInlineRewrite` and three cfgs; `InlineRewriteProofs` |
| `QuotaAllocator` | receiver and allocator | `MCQuotaAllocator`; `QuotaAllocatorProofs` |
| `StreamApply` | scanner and executor of one stream call, byte by byte | `MCStreamApply`; `StreamApplyProofs`, `StreamOutputProofs` |
| `ScalarMatch` | one scalar or key streamed past the terms that watch it | `MCScalarMatch` and two cfgs; `ScalarMatchProofs` |
| `NumberCompare`, `TextMatch`, `Temporal` | the algorithms `ScalarMatch` uses: decimals, text matchers with lower case and pointer escapes, calendar and temporal literals | through `ScalarMatch`; `TextMatch` also by `ScalarMatchProofs` |
| `JsonValue` | records as trees | used by the next five |
| `PathMatch` | which values of a record a path reaches: the descent with wildcards and recursion, terms and captures | through `RecordPipeline` |
| `SelectorProgram` | selector tree to terms, words of terms, evaluation | through `RecordPipeline` |
| `Mutation`, `Projection` | rewriting a record, and writing its captured fields | through `RecordPipeline` |
| `RecordPipeline` | one call of the executor, record by record, composing the four above | `MCRecordPipeline` and three cfgs |
| `ByteLog` | what a spool promises (abstract) | refined by `JsonSpool` |
| `JsonSpool` | spool | `MCJsonSpool`; `JsonSpoolProofs` |
| `LuaLifetime` | owners, resources and scopes of the Lua facade | `MCLuaLifetime`; `LuaLifetimeProofs` |
| `InductionLemmas` | no code: induction for the proofs | its own proofs |

Definitions named `Mutant...` are faulty forms of the definition that follows
them.  No specification uses them; putting one in the place of its original
must make TLC report the property named in `PROJECT.json`.

### InlineRewrite

One action per system call (or group of calls that nothing can observe apart)
of `lql_rewrite_file_inline_spooled_internal` and `inline_open_source`, and an
action for each error exit.  `pc[c]` is the next step of call `c`.  A file's
contents are the sequence of changes made to it, so "this rewrite has seen that
one" is visible and records are not.  A call `c` is also the name of the inode
of its temporary file and of its edit.

The kernel's part is modelled from how the code relies on it: `lock` gives each
inode the process that holds its record lock, and closing any descriptor of the
inode in that process drops it; `entries` are the inodes the path may denote
after a crash (a rename adds one, a directory sync leaves only the current
one); `synced` are the inodes whose contents survive.  The file metadata the
identity check compares (size, mode, owner, times) is one version number in
`stamp`, raised by every change, also by losing the name in a rename (ctime).

Assumptions: temporary names are always fresh; every change gives a new
version (a file system clock that stands still between two changes of equal
size is outside the model); `fsync` tells the truth.  Metadata copied to the
temporary file (owner, mode, extended attributes) matters only through its
error exits.  `CreateTemp` ends with `mkstemp`: a failure before it
(`CreateTempFails`) has created nothing, one after it, from setting the owner on
(`FilterFails`), leaves a temporary file that must be unlinked before both
descriptors are closed, and a kill or a crash may come in between.

### QuotaAllocator

`impl[r]` is the private part of receiver `r` with its ledger; `owner[b]` and
`size[b]` are the header of block `b`.  All sizes are words modulo `Word` and
sums the code does not check really wrap.  `Touch` records an access to a freed
private part.  Refused requests change nothing and are therefore not steps.
The upstream allocator is any choice of a free block.

### StreamApply

One call, a byte at a time, over a reader that delivers any number of bytes up
to `Capacity`.  The alphabet has a symbol for each way the control reacts to a
byte: object start and end, a member, a digit, a blank, carriage return, line
feed, and a byte that cannot start a value here.  The selector matches objects
with a member and the projection finds something in the same objects, so that
hits, records without hits and scalars all occur; `selector = FALSE` is the
request that matches everything.  A transformed record is a two-piece text that
names its transformation: what the projection and the mutation compute belongs
to `Mutation` and `Projection`, that they may fail with a part of the text
written belongs here.

`Reference` says what the whole input means without a buffer, reader or copy:
the records, their compact texts, where their separators end, and whether all
of the input is valid.  It is built from where a value may start
(`FirstStart`), whether a value with its separator is there (`Readable`), the
record it makes (`RecordAt`, with the text that `Compacted` leaves of its bytes)
and the records after each position (`RecordsFrom`).  `Compacted` and
`RecordsFrom` are recursive functions, which the prover can unfold; it has no
facts about `SelectSeq`.  The properties compare the history of the call (`decisions`,
`values`, `out`) with it.

The two levels share the record as their border: `StreamApply` shows that the
executor sees each record of the input once and whole, however it is read, and
that what it writes arrives; `RecordPipeline` starts from records.

### ScalarMatch, NumberCompare, TextMatch, Temporal

A job is one number, text, literal, key or temporal string with the terms that
watch it.  Its bytes go to the matchers in runs and single bytes, cut at every
place.  Numbers are kept in a buffer of `MatchBytes` that grows to `HeapLimit`;
beyond it only a summary is kept (sign, first digits, magnitude, exponent),
whose sums are clamped at `LongMax`.  The references are the exact order of
decimals, substring and prefix on the whole decoded text, the decoded pointer
segment, and a count of days and seconds.

A value is a sequence of items, what the scanner takes at once: a plain byte,
or a character that is escaped or not ASCII, with no bytes when it is malformed.
The text matcher keeps for every term a position and whether it has failed or
has been found (`match_pos`, `match_failed`, `match_contains`), and for all
case-insensitive terms together the bytes of a character not yet whole
(`match_case_bytes`).  A projection watches keys too: `capture` has the position
of each captured segment and whether it has failed (`capture_pos`,
`capture_failed`).  Captures get the bytes the terms get: a whole run after the
terms, or, when a term has an escaped segment, only the bytes its byte loop
reads before that term fails (`RunFed`).  `JobsAssumption` says of the values what the scanner
guarantees (plain bytes are ASCII, a character's first byte gives its length)
and that needles are bytes; `LowerTable` says of the Unicode table that its
ASCII part agrees with the loop that lowers runs of plain bytes.

`NumbersCompareExactly` has three exceptions, all for tokens too long for the
buffer: with exponents beyond a `long`, numbers of equal magnitude count as
equal; of an exponent with more than the kept digits the shift by the
coefficient is ignored; a magnitude at the limits of a `long` is not told from
the limit.  With the library's sizes these are tokens of more than the match
limit's bytes with exponents of more than eighteen digits.

### PathMatch

The scan of one record as a function of the scanner's state.  `ScanRecord`
descends objects and arrays in source order with the set of terms whose path
has matched so far; for recursive paths it keeps two slots per depth and term,
the `...` in force and the segment to match next, exactly as the code does,
stale ones included.  Keys are compared whole or streamed, which are different
code paths with different results for some recursive paths.  Streamed keys go
byte by byte through the matchers of `TextMatch`, terms and captures together;
a capture that is complete takes the value (`Capture`), and when the stop mask
is satisfied and nothing is watched the rest of an object is skipped (`Skips`).
Comparison of values is equality here; `ScalarMatch` is about that comparison.

### SelectorProgram

The lowering of each kind of leaf, the selector index, the removal of equal
terms, the stop mask, the split into words and the early exit when a required
term has missed.  A term remembers its leaf by its position in the tree.

### Mutation and Projection

Every walk of the mutation executor is a function from value to value; an
error is a value, so the text before it is what was written.  The check before
the rewrite, the grouping by top-level key, the scratch values of a group and
the decision to buffer are as in the code.  Numbers are integers up to `Huge`:
a sum beyond it is not finite, which fails the record, also when part of it has
been written; the rounding of doubles is not modelled.  The code adds the deltas
of one top-level key before it adds them to the value, so with doubles the result
may differ from that of the increments in turn (`+1,+1` on 9007199254740992 gives
...994, `+1` gives ...992), and with deltas of both signs one way may overflow
where the other does not.  What `MutationsApplyInOrder` shows of merged
increments is therefore limited to sums that do not round and, for overflow, to
deltas of one sign.  A value from a file is a place that waits for it; the
reading is `RecordPipeline`'s.  A projection is compiled and its captured fields
are written; children that are indexes make an array.

### RecordPipeline

The plan, then for each record one scan or several rescans, the decision and
the output.  A file value is read in steps: every pass opens the file again
(`OpenFile`), reads it chunk by chunk (`ReadFile`) and ends as a look
(`LookedAt`), a check before the input (`PassPreflight`) or a copy (`CopyFile`);
each place of each record has its own passes, and a value that a later action
replaces is read all the same.  The file may be overwritten between any two of
these steps, which a reader that has it open sees, or replaced or removed, which
it does not.  Two places of one record, and two chunks of one value, may
therefore come from different versions: what holds nevertheless is
`FileValuesComeFromTheFile`.  Chunks are classes of bytes (text, the two halves of a
character cut by the read, anything else); their escaping and base64 are left
out.  The references (`Holds`, `Named`, `InTurn`) know
nothing of terms, words, slots, groups or walks.

### JsonSpool and ByteLog

`JsonSpool` has the memory buffer, the file with its position, the cache, the
stack of replays in progress, the sequential reader and the search for the end
of a string up to a given end, which starts with a byte read through the cache
and may take several chunks; each seek and read can fail.  Its callers fill a spool before
they read it and give it up after a failed append, which the scanner
guarantees.  `seen` is what was handed out last and for which offset; it is the
only link to `ByteLog`, in which the content is one sequence and every
observation is a part of it.  The refinement maps `content` to the memory or
to the file, whichever holds the record.

### LuaLifetime

`scopes` is the stack of methods; Lua is single threaded and a method calls
back, so every action may happen while methods are on the stack.  `Uses`
records an access to something freed.  Addresses of receivers may be used
again after a free, which is what makes matching by address worth checking.
Scratch memory and registry roots of a scope are not modelled; they have no
users outside the scope.

## 3. Runs

| Run | Instance | Shows |
|---|---|---|
| `inline` | 2 calls and a reader in processes of their own, 1 kill, 1 crash, every step may fail, fair | no rewrite is lost, success survives crashes, the path is always a complete file, temporary names and locks are given back, readers see one version, every call and reader returns |
| `inline_foreign` | 2 calls, one reading the path itself, a program that writes in place, two that replace the path, one by a link | the identity check passes only with a replacement made from the current contents |
| `inline_threads` | 2 calls in one process | violation: `NoLostUpdate` fails (finding 1) |
| `quota_allocator` | 2 receivers, 4 blocks, words of 16 values | the ledger is exact, private parts live as long as their blocks, are freed once and never used after, no size wraps |
| `stream_calls` | every input of up to 4 bytes and inputs of three records, a buffer of 3, every output mode, failures, limits, cancellation, fair | what the caller receives is what the records seen give; no complete record waits; no read follows a limit; the reported reason is true; the call returns |
| `scalars` | numbers around a long of two digits and a buffer of six bytes, texts with escapes and changing lower case, keys watched by terms and captures, dates around leap years | hits depend on the value only |
| `key_escape` | plain segments, captures and an escaped segment on the same keys | violation: `KeysMatchPointerText` (finding 2) |
| `records` | selectors of every kind on one and two records, words of 2 terms, projections, two and three actions, sums that overflow, files of up to 2 chunks with 2 changes at any step | decisions, projections and rewrites are those of the references; text copied from a file is text, every chunk of it from the time the record was written, and a record whose file fails leaves nothing |
| `recursive` | `/.../a/b` and `/.../1/b` | violation: `DecisionsFollowSelector` (finding 3) |
| `atomic` | two and three actions on one record | violation: `FailedRecordsWriteNothing` (finding 4) |
| `json_spool` | records up to 4 bytes, memory of 1, chunks of 2, two nested replays (`MaxNested = 2`), searches with every end, failing reads | the spool implements the byte log; ends of strings are found across chunks; the cache never outlives its record |
| `lua_lifetime` | 2 clients, 3 handles, 3 nested methods, 2 addresses | no method uses freed memory, nothing leaks, addresses identify clients |

### Bounds and why they are enough

- Inline rewrite: two calls give a holder and a call that waits with the old
  inode open, or starts after the rename.  One kill and one crash at any step
  cover each window; the proofs remove the bounds for the safety properties.
- Quota: four blocks allow a receiver to have a handle that outlives it while
  the other receiver is used to destroy it.  The sizes are the ends of the word
  and of the limit, and those around them.
- Stream: the buffer is smaller than the inputs, so that records, numbers,
  separators and CR LF are all cut by refills; four bytes hold a record, its
  separator and the start of the next.  The byte limits 3 and 7 fall on and
  inside records.
- Scalars: a long of two digits and a buffer that overflows at seven bytes put
  every clamp, growth and fall-back within reach of short tokens.
- Records: words of two terms and captures make one, two and three batches;
  two records show what is left over from the first.  `DecisionsFollowSelector`
  holds for paths of keys, indexes and wildcards, and for recursive paths with
  one `...` and then at most one key or `*`; with more after the `...` it does
  not (finding 3).  `MutationsApplyInOrder` is about plain paths, the single
  segment `*`, and wildcards below a plain key, in programs of two or three
  actions.  `ProjectionHoldsTheFields` is checked for selectors whose segments
  have no escapes, and for one with an escape when terms and captures are
  scanned apart (more paths than a word); in one scan it does not hold
  (finding 2).
- File values: two chunks are enough for a character cut by a read and for a
  mixture of two versions; two changes, for one between look and copy and one
  within the copy.
- Spool: a memory of one byte lets a record fit, fill it exactly and spill,
  and four bytes are two chunks, so that a replay inside a replay, or a read
  through the cache, disturbs the position between them.
- Lua: three nested methods of two clients interleave so that the last method
  of one ends inside a method of the other.  With three handles the code's
  limit of four borrowed handles of a method is not reached.

### Deadlock

Deadlock is checked except in `quota_allocator` and `lua_lifetime`, where the
program may stop when its handles are used up, and in `scalars` and `key_escape`,
where a job ends.

### Fairness

`FairSpec` of `InlineRewrite` lets each thread go on with its next step
(`WF_vars(Progress(c))`): system calls return, and a waiting `fcntl` goes on
when the lock is free.  It does not assume that a waiting call is refused the
lock (`LockFails` may happen but need not), so `EveryCallReturns` rests on every
holder closing its descriptors.  `StreamApply` assumes `WF_vars(CallStep)`: the
call is one thread, and its reader and callbacks return.  No fairness is assumed
of the environment (cancellation, kills, crashes, other programs).

## 4. Proofs

The theorems hold for every value of the constants that satisfies the modules'
`ASSUME`s (which TLC evaluates in the runs): any number of calls, readers,
receivers, blocks, clients, handles and nested methods, every word, memory,
chunk and buffer size, every input and every request, every value and every set
of terms.

| Theorem | Statement |
|---|---|
| `InlineRewriteProofs!TypeCorrect` | `Spec => []TypeOK`, also with threads, foreign programs and self-readers |
| `InlineRewriteProofs!NoRewriteIsLost` | `Cooperative` implies `Spec => []NoLostUpdate` |
| `InlineRewriteProofs!SuccessIsDurable` | `Cooperative` implies `Spec => []AcknowledgedSurvives` |
| `InlineRewriteProofs!PathIsComplete` | `Cooperative` implies `Spec => []PathAlwaysComplete` |
| `InlineRewriteProofs!ReturnedCallsAreClean` | `Spec => []ReturnedCallsLeaveNoTemp` |
| `InlineRewriteProofs!LocksAreClosed` | `Spec => []LocksHaveOwners` |
| `InlineRewriteProofs!PassedCheckIsCurrent` | `Spec => CheckedReplacementIsCurrent` (an action property) |
| `InlineRewriteProofs!ReadersReadOneVersion` | `Cooperative` implies `Spec => []ReadersSeeOneVersion` |
| `QuotaAllocatorProofs!ImplOutlivesNothing` | `Spec => []ImplLivesWithItsBlocks` |
| `QuotaAllocatorProofs!ImplIsNeverDangling` | `Spec => []NoDanglingImpl` |
| `QuotaAllocatorProofs!QuotaLedgerExact` | `Spec => []LedgerExact` |
| `QuotaAllocatorProofs!QuotaBlocksAreLargeEnough` | `Spec => []BlocksAreLargeEnough` |
| `JsonSpoolProofs!SpoolTypes` | `Spec => []TypeOK` |
| `JsonSpoolProofs!SpoolCacheIsCurrent` | `Spec => []CacheIsCurrent` |
| `JsonSpoolProofs!SpoolImplementsLog` | `Spec => ImplementsLog` (the refinement of `ByteLog`) |
| `JsonSpoolProofs!SpoolFindsStringEnd` | `Spec => []FindsStringEnd` |
| `LuaLifetimeProofs!LuaMethodsUseLiveObjects` | `Spec => []MethodsUseLiveObjects` |
| `LuaLifetimeProofs!LuaOwnerLivesWithItsUsers` | `Spec => []OwnerLivesWithItsUsers` |
| `LuaLifetimeProofs!LuaResourcesAreHeld` | `Spec => []ResourcesAreHeld` |
| `LuaLifetimeProofs!LuaAddressIdentifiesClient` | `Spec => []AddressIdentifiesClient` |
| `ScalarMatchProofs!TextHitsAreRight` | `Spec => []TextHitsDependOnTextOnly` |
| `ScalarMatchProofs!KeysMatch` | `Unmixed` implies `Spec => []KeysMatchPointerText` |
| `StreamApplyProofs!StreamTypes` | `Spec => []TypeOK` |
| `StreamApplyProofs!DecisionsAreTheInputs` | `Spec => []DecisionsFollowInput` |
| `StreamApplyProofs!StopsTellTheTruth` | `Spec => []StopsAreTruthful` |
| `StreamApplyProofs!LimitsStopBeforeRefill` | `Spec => NoReadAfterLimit` (an action property) |
| `StreamApplyProofs!CompleteRecordsAreDispatched` | `Spec => CompleteRecordsFirst` (an action property) |
| `StreamApplyProofs!CancelEndsTheCall` | `Spec => []CancelStopsSoon` |
| `StreamOutputProofs!ValuesAreTheMatches` | `Spec => []ValuesAreMatchedRecords` |
| `StreamOutputProofs!OutputIsTheRecords` | `Spec => []OutputFollowsRecords` |

`Cooperative` says that no two calls, nor a call and a reader, share a process,
that no `file:` value names the rewritten path, and that no program outside the
lock touches it.  `inline_threads` shows that separate processes are needed;
`file:` values and readers in the process of a call are excluded because closing
any descriptor of the file drops the lock, which no run of its own shows.  The
theorems without it hold whatever shares a process and whatever other programs
do: clean returns, closed locks, and the worth of the identity check.

*Inline rewrite.*  `NoLostUpdate` alone is not inductive: a rename keeps it only
if the temporary file was made from what the path holds at that moment.
`InlineInv` adds that a call between lock and close holds the lock of the
inode it has open (`HoldersHaveLock`), that inodes that are open or that the
path may denote are not written any more (`OpenFilesFrozen`), that a temporary
file is its source and one more edit (`TempFollowsSource`), and that between
check and rename the path is still the open inode (`CheckedIsCurrent`).  The
last is where the lock matters: two calls at their rename would both hold the
lock of the path's inode.  Readers need in addition that what they have open is
frozen and complete (`ReaderInv`).

Without cooperation none of this holds, and the identity check rests on the
stamps alone: `StampInv` says that as long as the stamp of the open inode is
the one of the snapshot, what the call has copied from it is what it holds, and
`SettledInv` that no call is still writing an inode that the path or a
descriptor denotes, so that only a program that also changes the stamp can
change it.  What a call leaves behind is `ExitInv`: a temporary name belongs to
a call whose unlink or rename is still to come (or that was killed), and a lock
to a process with a call whose close is still to come.

*Allocator.*  `LifetimeInv` relates the block count of a private part to the
number of blocks charged to it (`CountsAgree`) and the destroyed flag to the
receiver's own block (`Lifecycle`).  The release of a block and the destruction
of the receiver preserve it because the receiver's own block is given back
before the flag is set: only then is the count an exact test for the last user.
The ledger (`QuotaInv`) needs all three parts at once: sums do not wrap because
live bytes are at most the limit, they are exact because sizes did not wrap when
they were charged, and what is subtracted was charged to the same receiver.  The
sum over a receiver's blocks is counted as a set of cells, one for each byte of
each block, so that the cardinality theorems apply; `LedgerExact` itself, with
the library's sum, follows from that.

*Spool.*  `SpoolInv` says where the record is (`SizeInv`), that whoever reads on
from the file's position is alone and positioned where it believes to be
(`ReaderInv`, `FindInv`), that replays in progress lie inside the record
(`ReplayInv`) and the cache inside the file (`CacheInv`), and that nothing of
this exists while a record is filled (`FillInv`).  Replays need no claim on the
position: each chunk seeks first, which is why they may be nested.  With it
every step is a step of `ByteLog` or changes neither the content nor what was
seen.  `SearchInv` adds to a search that the flag it carries from chunk to chunk
is the parity of the backslashes before its offset.

*Lua lifetime.*  `LuaInv`: an owner's count is its client, its live resources
and its methods on the stack; its active count is the number of those methods
(`RefsInv`); a resource has one kind of holder at a time (`HandleInv`, `TempInv`,
`DeferredInv`); what a method borrowed is open or deferred by its own owner
(`BorrowInv`).  Deferral is what makes the last inductive: a handle closed while
a method of its owner runs moves to `deferred` rather than away.

*Stream.*  `BasicInv` has the types and that the scanner and the executor count
the same records.  `PlaceInv` is the heart: while the scanner looks for the next
record there is a position `b` such that the records decided are exactly the
reference's records up to `b` (`Chain`), and what was consumed after `b` is the
beginning of the reference's next record, as far as the state says (`Place`).
The end of the buffer does not occur in it, which is why refills preserve it.
`DecidedInv` and `EndInv` are what the decisions and a returned call say of the
input.  `BoundInv` has the limits at each state of a record: a record is begun
only below the record, match and byte limits, so a limit is met exactly.
`TruthInv` adds what a returned result claims.  From `BoundInv` no refill comes
after a limit; from `Place`, in each of the five states that can ask for a
refill the record in progress is not complete in what has been read, and later
ones end later (`NextsGrow`).  `SoonInv` says which call to the caller may still
follow a cancellation.

*Stream output.*  What the call delivers needs the texts of the records, not
only their places.  `CopyInv` stands next to `PlaceInv`: while a record is
scanned the copy is the compact text of the bytes consumed of it and the flag
for a compact record says that they have no whitespace, and both stay so through
flush and dispatch; hence the copy is the text of the record, and so is the
range of the source if the record is compact, which are the two ways on_value
and the writer get it.  `AdmitInv` keeps what the request was admitted with.
`ValueInv` numbers the matched records (`Hits`, a cardinality) and says that the
value with that number is the text of that record; only the record in dispatch
may lack its value.  `OutInv` goes by the place of the call: between records
everything is written (`Quiet`), before the output of a record all but that
record, and before its line feed all but the line feed, so that a writer that
fails at any byte leaves a prefix that contains the records before
(`EndedAt`).

*Text matching.*  Two things have to be shown: that the automaton for `contains`
is right, and that the state of a term depends on the text read and not on how
it came.  For the first, a part of the needle `Fit`s a text when the text ends
with it; the failure table holds for every part of the needle the longest
shorter part that fits it (`Borders`, by induction over the table), and a step
with a byte finds the longest part of the needle that fits the text with that
byte (`AdvanceFacts`: following the table passes over no candidate).  The needle
is in a longer text exactly when it was there before or fits the end.  For the
second, `TermState` says of each term what its position and flags mean in terms
of the text so far, in lower case for the case-insensitive ones (`Searching`,
`Comparing`); runs, single bytes and characters each keep it (`MatchSpanKeeps`,
`MatchByteKeeps`, `MatchCharKeeps`), inside a character with its bytes pending
(`Within`).  `ScalarInv` states it of the items consumed.  At the end the lower
case of the whole text is what was fed character by character
(`LowerOfDecoded`), although lower case changes the length of characters.

*Keys.*  A term that watches a key compares its segment, which is JSON Pointer
text, with the decoded key.  `KeyState` says that it stands where it would stand
if it compared the segment as it is written with the key written as a pointer;
one byte of the key is then one byte or two of that text (`KeyAgrees`).  A run
is compared with a segment without escapes as a block, byte for byte, which is
the same for such a segment (`SameReadAll`, by induction over the run).  For a
segment with escapes the run goes through the byte loop, which ends when that
term has failed; nothing that follows could make it match (`KeyFailedStays`).
`Unmixed` says of the jobs what this needs: segments are well-formed pointer
text (each `~` begins `~0` or `~1`; the code accepts a lone `~`, which then
matches itself), and an escaped segment watches its keys alone, without captures.
Captures compare decoded bytes with decoded bytes; beside plain segments a run
reaches them whole.  The keys of the
run `scalars` satisfy it; those of `key_escape` do not, and there the property
fails.

*Induction.*  The library's induction theorems take a predicate as parameter,
which the provers cannot instantiate.  `InductionLemmas` has induction over an
interval with a set as parameter, proved from the well-foundedness of the
naturals.  It is what the parity of backslashes, the sum of the ledger, the
recursive functions `RecordsFrom`, `Compacted` and those of `TextMatch`, and the
library's `FlattenSeq` (that they exist, and what they yield) rest on.

*What the proofs changed.*  A `CASE` whose guards overlap denotes any of the
values whose guard holds, while TLC takes the first; the proof of
`StopsAreTruthful` failed on `StopReason`, where a record limit and a byte limit
can hold at once and the code looks at the record limit first.  `StopReason`,
`RefOutput` and `ScalarTerms` (`SelectorProgram`) now spell the order out; all
other `CASE`s were looked at and have exclusive guards.

## 5. Findings

1. Record locks belong to processes, so two threads rewriting one path with a
   receiver each are not excluded, and a rewrite reported as successful can be
   lost (`lql_file.c:425`; run `inline_threads`).  A `file:` value that names the
   rewritten path has the same effect: its close drops the lock of the process.
   The repository's README says "The lock and identity checks protect
   cooperative callers".
2. A segment with `~0` or `~1` makes the run matcher fall back to bytes after
   other terms have consumed the run: a plain segment is fed the run twice, and
   misses its key or takes another key for its own, and the fall-back ends with
   the escaped segment, so that later terms and the captures of a projection do
   not see the rest of the run (`lql_json_scan.c:2325`; run `key_escape`).  On
   `{"abc":1,"a/b":2}`, `clql '/abc=1,/a~1b=2'` prints nothing and with `--count`
   counts 1; `clql -f /abc '/a~1b=2'` prints nothing, and `clql -f /ab '/a~1b=2'`
   prints `{"ab":1}`.  With `a/b` before `abc` the projections are right, because
   the satisfied stop mask ends the matching of terms.
3. Recursive paths with more than one segment after `...` miss records: a
   streamed key is compared with one of the two slots of a depth, which cannot
   follow a key that occurs inside itself (`lql_json_scan.c:2073`), and arrays
   carry the slots to their first element only (`lql_json_scan.c:4515`; run
   `recursive`).  `/.../a/b=1` on `{"a":{"a":{"b":1}}}` prints nothing and counts 1.
   The test `run_recursive_wildcard_selector_regression`
   (`direct_stream_test.c:2873`) asks for the inner occurrence in `/.../0/0="y"`.
4. A failing increment can leave part of its record in the output: targets an
   earlier action may have replaced are not checked before the rewrite, and only
   some programs are buffered (`lql_stream_flat_eq.c:4750`; run `atomic`).
   `-m '/*=x' -m '/a=+1'` on `{"z":1,"a":1}` writes `{"z":"x"` and fails.  The
   test `run_mutation_error_output_is_atomic` asks for no output
   (`direct_stream_test.c:3233`).  A sum that overflows is not foreseen either:
   `-m '/a=+1e308'` on `{"z":1,"a":1e308}` writes `{"z":1,"a":` and fails.  A projection
   whose children are both indexes and keys fails in the same way.

Behaviour met while modelling that no document contradicts: an increment with
more than one segment after a wildcard (`/a/*/b/c=+1`) changes nothing; a wildcard
as first segment creates members in the objects it names (`/*/b=1`), one further
down does not; a removed key comes back when a recursive set follows (`rm:/a`,
then `/.../b=1`); an increment whose target an earlier increment made is refused
when the record held an array there; `/.../[]` replaces whole members; a number
as segment of a set makes an object of an array; projection paths are compared
as written, so `/a~0b/c` and `/a~b` are both accepted.  In
`run_mutation_error_case_is_atomic` the length of the input is that of a pointer,
so the test reads seven bytes of each case.

## 6. What is only checked, what is not modelled, and the plan

Checked by TLC only:

- liveness (`EveryCallReturns`, `Terminates`): fairness is out of the prover's reach;
- everything about records (`RecordPipeline` and the modules it uses), whose
  definitions are recursive operators over trees;
- `NumbersCompareExactly` and `TemporalsKeepTheirInstant`: the reference for
  numbers computes with the bounded coefficients of the run, and calendar
  arithmetic with division by 146097 and 1461 is beyond the solver.

`KeysMatchPointerText` does not hold of every set of terms and captures
(finding 2); it is proved of the sets of `Unmixed`.  All other properties of the passing runs are theorems.

Not modelled:

- the selector and mutation parsers and the serialisation of selectors:
  sequential translations between text and trees, covered by golden tests;
- the Unicode table itself (generated), `clql` (options), benchmarks, fuzzers
  and scripts;
- of the scanner: syntax errors inside nested values, and the skipping of
  values nothing asks for, which only `StreamApply`'s flat objects show;
- of the executor: failing allocations; writers that fail inside a rewritten
  record are `StreamApply`'s; indexes with leading zeros; the rounding of
  doubles (increments are integers with a largest one here); the escapes and the
  base64 of copied file values;
- of the file filter: its sinks and the identity of input and output.

The plan, in order:

1. `FilterFile`: sinks and identity of input and output in `filter_file_spooled`,
   checked on open descriptors before truncation, and every clean-up path.
2. The callback bridge of the Lua facade over `LuaLifetime`.
