--------------------------- MODULE InlineRewrite ---------------------------
(***************************************************************************)
(* rewrite_file_inline_spooled (src/lql_file.c): rewriting one regular     *)
(* file through a temporary file in its directory, an advisory lock on the *)
(* source, an identity check and an atomic rename.                         *)
(*                                                                         *)
(* Several calls, threads of one process or of several, rewrite the same   *)
(* path while readers (filter_file_spooled) read it, other programs change *)
(* it, processes are killed and the machine crashes.  The contents of a    *)
(* file are the sequence of rewrites applied to it: what is abstracted is  *)
(* the records, what is kept is which rewrite saw which other one.         *)
(***************************************************************************)
EXTENDS Naturals, Sequences, FiniteSets

CONSTANTS
    Calls,        \* calls of rewrite_file_inline_spooled; a call also names its temp inode
    Procs,        \* processes
    ProcOf,       \* the process a call runs in
    Source,       \* the inode the path denotes at first
    SelfReaders,  \* calls whose mutation reads the rewritten path as a file: value
    Readers,      \* calls of filter_file_spooled on the path
    ReaderProc,   \* the process a reader runs in
    Writers,      \* changes in place by programs that take no lock, one each
    Replacers,    \* replacements of the path by such programs, one inode each
    Links,        \* the replacements that are symbolic links
    MaxKills,     \* bound on killed processes
    MaxCrashes,   \* bound on machine crashes
    Torn,         \* marks contents that are incomplete or mixed
    None          \* no inode, no process

Inodes == {Source} \cup Calls \cup Replacers
Edits  == Calls \cup Writers \cup Replacers \cup {Torn}

ASSUME CallsAssumption ==
    /\ ProcOf \in [Calls -> Procs]
    /\ ReaderProc \in [Readers -> Procs]
    /\ SelfReaders \subseteq Calls
    /\ Links \subseteq Replacers
    /\ MaxKills \in Nat /\ MaxCrashes \in Nat

ASSUME NamesAssumption ==
    /\ Source \notin Calls \cup Replacers
    /\ Calls \cap (Replacers \cup Writers) = {}
    /\ Replacers \cap Writers = {}
    /\ Torn \notin Calls \cup Writers \cup Replacers
    /\ None \notin Inodes \cup Procs

VARIABLES
    path,      \* the inode the path denotes
    entries,   \* the inodes a crash can leave the path denoting
    content,   \* what each inode holds
    synced,    \* the inodes whose contents survive a crash
    stamp,     \* size, mode, owner and times of each inode, as one version
    lock,      \* the process holding the record lock of each inode
    temps,     \* the calls whose temporary name is in the directory
    pc,        \* the next step of each call
    link,      \* the inode lstat reported to each call
    fd,        \* the inode each call has open
    snap,      \* the version fstat reported to each call
    got,       \* what the filter of each call has read so far
    status,    \* what each call returned or will return
    rpc,       \* the next step of each reader
    rfd,       \* the inode each reader has open
    rgot,      \* what each reader has read
    kills,     \* processes killed so far
    crashes,   \* crashes so far
    log        \* history: the changes of the path, in order

fsvars   == <<path, entries, content, synced, stamp, lock, temps>>
callvars == <<pc, link, fd, snap, got, status>>
readvars == <<rpc, rfd, rgot>>
envvars  == <<kills, crashes, log>>
vars     == <<fsvars, callvars, readvars, envvars>>

Steps == {"lstat", "open", "lock", "inspect", "temp", "filter", "copy", "flush",
          "sync", "check", "rename", "syncdir", "discard", "close", "monitor",
          "done", "dead"}

(* the steps of a call that has the source open *)
OpenSteps == {"lock", "inspect", "temp", "filter", "copy", "flush", "sync",
              "check", "rename", "syncdir", "discard", "close", "monitor"}

TypeOK ==
    /\ path \in Inodes
    /\ entries \in SUBSET Inodes
    /\ content \in [Inodes -> Seq(Edits)]
    /\ synced \in SUBSET Inodes
    /\ stamp \in [Inodes -> Nat]
    /\ lock \in [Inodes -> Procs \cup {None}]
    /\ temps \in SUBSET Calls
    /\ pc \in [Calls -> Steps]
    /\ link \in [Calls -> Inodes \cup {None}]
    /\ fd \in [Calls -> Inodes \cup {None}]
    /\ \A c \in Calls : pc[c] \in OpenSteps => fd[c] # None
    /\ snap \in [Calls -> Nat]
    /\ got \in [Calls -> Seq(Edits)]
    /\ status \in [Calls -> {"none", "ok", "error"}]
    /\ rpc \in [Readers -> {"open", "read", "rest", "close", "done", "dead"}]
    /\ rfd \in [Readers -> Inodes \cup {None}]
    /\ \A r \in Readers : rpc[r] \in {"read", "rest", "close"} => rfd[r] # None
    /\ rgot \in [Readers -> Seq(Edits)]
    /\ kills \in Nat
    /\ crashes \in Nat
    /\ log \in Seq(Edits)

Init ==
    /\ path = Source
    /\ entries = {Source}
    /\ content = [i \in Inodes |-> IF i \in Replacers THEN <<i>> ELSE <<>>]
    /\ synced = {Source} \cup Replacers
    /\ stamp = [i \in Inodes |-> 0]
    /\ lock = [i \in Inodes |-> None]
    /\ temps = {}
    /\ pc = [c \in Calls |-> "lstat"]
    /\ link = [c \in Calls |-> None]
    /\ fd = [c \in Calls |-> None]
    /\ snap = [c \in Calls |-> 0]
    /\ got = [c \in Calls |-> <<>>]
    /\ status = [c \in Calls |-> "none"]
    /\ rpc = [r \in Readers |-> "open"]
    /\ rfd = [r \in Readers |-> None]
    /\ rgot = [r \in Readers |-> <<>>]
    /\ kills = 0
    /\ crashes = 0
    /\ log = <<>>

-----------------------------------------------------------------------------
(* The kernel: record locks belong to a process, and closing any descriptor  *)
(* of an inode drops the lock the process has on it.                         *)

Elems(s) == {s[k] : k \in DOMAIN s}

Regular(i) == i \notin Links

Unlocked(p, i) ==
    [lock EXCEPT ![i] = IF @ = p THEN None ELSE @]

(* What a filter reading an inode in two parts has at the end: the contents, *)
(* or a mixture when they changed in between.                                *)
ReadRest(first, i) ==
    IF content[i] = first THEN first ELSE Append(content[i], Torn)

At(c, step) == pc[c] = step

Goto(c, step) == pc' = [pc EXCEPT ![c] = step]

(* return without having a source open *)
Return(c) ==
    /\ Goto(c, "done")
    /\ status' = [status EXCEPT ![c] = "error"]

(* mutant: an error path that forgets to close the source *)
MutantReturnOpen(c) ==
    /\ Return(c)
    /\ lock' = lock

(* the error path that closes the source before it returns *)
CloseAndReturn(c) ==
    /\ Return(c)
    /\ lock' = Unlocked(ProcOf[c], fd[c])

(* status becomes an error and the temporary file is going to be unlinked *)
Abandon(c) ==
    /\ Goto(c, "discard")
    /\ status' = [status EXCEPT ![c] = "error"]

-----------------------------------------------------------------------------
(* inline_open_source *)

LstatSource(c) ==
    /\ At(c, "lstat")
    /\ Regular(path)
    /\ link' = [link EXCEPT ![c] = path]
    /\ Goto(c, "open")
    /\ UNCHANGED <<fsvars, fd, snap, got, status, readvars, envvars>>

(* lstat fails, or the path is a symbolic link or no regular file *)
LstatRejects(c) ==
    /\ At(c, "lstat")
    /\ Return(c)
    /\ UNCHANGED <<fsvars, link, fd, snap, got, readvars, envvars>>

OpenSource(c) ==
    /\ At(c, "open")
    /\ Regular(path)
    /\ fd' = [fd EXCEPT ![c] = path]
    /\ Goto(c, "lock")
    /\ UNCHANGED <<fsvars, link, snap, got, status, readvars, envvars>>

(* mutant: a failed open is not noticed, and the call goes on without a file *)
MutantOpenUnchecked(c) ==
    /\ At(c, "open")
    /\ Goto(c, "lock")
    /\ UNCHANGED <<fsvars, link, fd, snap, got, status, readvars, envvars>>

(* open fails: O_NOFOLLOW met a link, or any other error *)
OpenFails(c) ==
    /\ At(c, "open")
    /\ Return(c)
    /\ UNCHANGED <<fsvars, link, fd, snap, got, readvars, envvars>>

(* fcntl(F_SETLKW) waits for another process, never for this one *)
LockSource(c) ==
    /\ At(c, "lock")
    /\ lock[fd[c]] \in {None, ProcOf[c]}
    /\ lock' = [lock EXCEPT ![fd[c]] = ProcOf[c]]
    /\ Goto(c, "inspect")
    /\ UNCHANGED <<path, entries, content, synced, stamp, temps,
                   link, fd, snap, got, status, readvars, envvars>>

LockFails(c) ==
    /\ At(c, "lock")
    /\ CloseAndReturn(c)
    /\ UNCHANGED <<path, entries, content, synced, stamp, temps,
                   link, fd, snap, got, readvars, envvars>>

InspectSource(c) ==
    /\ At(c, "inspect")
    /\ fd[c] = link[c]
    /\ snap' = [snap EXCEPT ![c] = stamp[fd[c]]]
    /\ Goto(c, "temp")
    /\ UNCHANGED <<fsvars, link, fd, got, status, readvars, envvars>>

(* fstat fails, or the inode opened is not the one lstat saw *)
InspectRejects(c) ==
    /\ At(c, "inspect")
    /\ CloseAndReturn(c)
    /\ UNCHANGED <<path, entries, content, synced, stamp, temps,
                   link, fd, snap, got, readvars, envvars>>

-----------------------------------------------------------------------------
(* lql_rewrite_file_inline_spooled_internal *)

(* dup, fdopen and mkstemp: the temporary file exists and is empty *)
CreateTemp(c) ==
    /\ At(c, "temp")
    /\ temps' = temps \cup {c}
    /\ content' = [content EXCEPT ![c] = <<Torn>>]
    /\ Goto(c, "filter")
    /\ UNCHANGED <<path, entries, synced, stamp, lock,
                   link, fd, snap, got, status, readvars, envvars>>

(* one of them fails: nothing was created, the source is closed *)
CreateTempFails(c) ==
    /\ At(c, "temp")
    /\ CloseAndReturn(c)
    /\ UNCHANGED <<path, entries, content, synced, stamp, temps,
                   link, fd, snap, got, readvars, envvars>>

(* filter_open_stream, the first reads.  A file: value is opened, read and   *)
(* closed by the process itself: naming the path, it drops the record lock.  *)
FilterStart(c) ==
    /\ At(c, "filter")
    /\ got' = [got EXCEPT ![c] = content[fd[c]]]
    /\ lock' = IF c \in SelfReaders THEN Unlocked(ProcOf[c], path) ELSE lock
    /\ Goto(c, "copy")
    /\ UNCHANGED <<path, entries, content, synced, stamp, temps,
                   link, fd, snap, status, readvars, envvars>>

(* mutant: the output replaces the source in place, and then is renamed *)
MutantRewriteInPlace(c) ==
    /\ At(c, "copy")
    /\ content' = [content EXCEPT ![c] = Append(ReadRest(got[c], fd[c]), c),
                                  ![fd[c]] = Append(@, Torn)]
    /\ Goto(c, "flush")
    /\ UNCHANGED <<path, entries, synced, stamp, lock, temps,
                   link, fd, snap, got, status, readvars, envvars>>

FilterRest(c) ==
    /\ At(c, "copy")
    /\ content' = [content EXCEPT ![c] = Append(ReadRest(got[c], fd[c]), c)]
    /\ Goto(c, "flush")
    /\ UNCHANGED <<path, entries, synced, stamp, lock, temps,
                   link, fd, snap, got, status, readvars, envvars>>

(* setting the owner of the temporary file or opening a stream on it fails,  *)
(* the filter's stream fails, or there was no record in it: from here on     *)
(* every exit unlinks the temporary name and then closes both descriptors    *)
FilterFails(c) ==
    /\ At(c, "filter") \/ At(c, "copy")
    /\ Abandon(c)
    /\ UNCHANGED <<fsvars, link, fd, snap, got, readvars, envvars>>

(* fflush, fchmod and the extended attributes *)
FlushTemp(c) ==
    /\ At(c, "flush")
    /\ Goto(c, "sync")
    /\ UNCHANGED <<fsvars, link, fd, snap, got, status, readvars, envvars>>

(* mutant: the temporary file is not synced before it is renamed *)
MutantNoSync(c) ==
    /\ At(c, "sync")
    /\ Goto(c, "check")
    /\ UNCHANGED <<fsvars, link, fd, snap, got, status, readvars, envvars>>

(* fsync and fclose of the temporary file *)
SyncTemp(c) ==
    /\ At(c, "sync")
    /\ synced' = synced \cup {c}
    /\ Goto(c, "check")
    /\ UNCHANGED <<path, entries, content, stamp, lock, temps,
                   link, fd, snap, got, status, readvars, envvars>>

TempIoFails(c) ==
    /\ At(c, "flush") \/ At(c, "sync")
    /\ Abandon(c)
    /\ UNCHANGED <<fsvars, link, fd, snap, got, readvars, envvars>>

(* mutant: only the descriptor is compared, not the path *)
MutantMatchesDescriptor(c) == stamp[fd[c]] = snap[c]

(* mutant: only the inode numbers are compared *)
MutantMatchesInode(c) == path = fd[c]

(* inline_source_path_still_matches *)
StillMatches(c) ==
    /\ path = fd[c]
    /\ stamp[fd[c]] = snap[c]

CheckSource(c) ==
    /\ At(c, "check")
    /\ StillMatches(c)
    /\ Goto(c, "rename")
    /\ UNCHANGED <<fsvars, link, fd, snap, got, status, readvars, envvars>>

CheckRejects(c) ==
    /\ At(c, "check")
    /\ ~StillMatches(c)
    /\ Abandon(c)
    /\ UNCHANGED <<fsvars, link, fd, snap, got, readvars, envvars>>

(* rename replaces the entry; losing it changes the old inode's ctime *)
RenameTemp(c) ==
    /\ At(c, "rename")
    /\ path' = c
    /\ entries' = entries \cup {c}
    /\ temps' = temps \ {c}
    /\ stamp' = [stamp EXCEPT ![path] = @ + 1]
    /\ log' = Append(log, c)
    /\ Goto(c, "syncdir")
    /\ UNCHANGED <<content, synced, lock, link, fd, snap, got, status,
                   readvars, kills, crashes>>

RenameFails(c) ==
    /\ At(c, "rename")
    /\ Abandon(c)
    /\ UNCHANGED <<fsvars, link, fd, snap, got, readvars, envvars>>

(* mutant: success without a sync of the directory *)
MutantNoDirSync(c) ==
    /\ At(c, "syncdir")
    /\ status' = [status EXCEPT ![c] = "ok"]
    /\ Goto(c, "close")
    /\ UNCHANGED <<fsvars, link, fd, snap, got, readvars, envvars>>

(* sync_parent_dir: the entry the directory has now is the durable one *)
SyncDir(c) ==
    /\ At(c, "syncdir")
    /\ entries' = {path}
    /\ status' = [status EXCEPT ![c] = "ok"]
    /\ Goto(c, "close")
    /\ UNCHANGED <<path, content, synced, stamp, lock, temps,
                   link, fd, snap, got, readvars, envvars>>

(* the replacement is committed, and an error is returned all the same *)
SyncDirFails(c) ==
    /\ At(c, "syncdir")
    /\ Abandon(c)
    /\ UNCHANGED <<fsvars, link, fd, snap, got, readvars, envvars>>

(* mutant: the error path leaves the temporary file *)
MutantKeepTemp(c) ==
    /\ At(c, "discard")
    /\ Goto(c, "close")
    /\ UNCHANGED <<fsvars, link, fd, snap, got, status, readvars, envvars>>

(* unlink of the temporary name; after a rename there is none *)
Discard(c) ==
    /\ At(c, "discard")
    /\ temps' = temps \ {c}
    /\ Goto(c, "close")
    /\ UNCHANGED <<path, entries, content, synced, stamp, lock,
                   link, fd, snap, got, status, readvars, envvars>>

(* a close that fails closes all the same, and turns success into an error *)
CloseStatus(c) ==
    \/ status' = status
    \/ status' = [status EXCEPT ![c] = "error"]

CloseSource(c) ==
    /\ At(c, "close")
    /\ lock' = Unlocked(ProcOf[c], fd[c])
    /\ CloseStatus(c)
    /\ Goto(c, "monitor")
    /\ UNCHANGED <<path, entries, content, synced, stamp, temps,
                   link, fd, snap, got, readvars, envvars>>

CloseMonitor(c) ==
    /\ At(c, "monitor")
    /\ lock' = Unlocked(ProcOf[c], fd[c])
    /\ CloseStatus(c)
    /\ Goto(c, "done")
    /\ UNCHANGED <<path, entries, content, synced, stamp, temps,
                   link, fd, snap, got, readvars, envvars>>

(* the steps a thread takes by itself: a lock may be refused, but a thread   *)
(* waiting for it cannot count on that                                       *)
Progress(c) ==
    \/ LstatSource(c)   \/ LstatRejects(c)
    \/ OpenSource(c)    \/ OpenFails(c)
    \/ LockSource(c)
    \/ InspectSource(c) \/ InspectRejects(c)
    \/ CreateTemp(c)    \/ CreateTempFails(c)
    \/ FilterStart(c)   \/ FilterRest(c)     \/ FilterFails(c)
    \/ FlushTemp(c)     \/ SyncTemp(c)       \/ TempIoFails(c)
    \/ CheckSource(c)   \/ CheckRejects(c)
    \/ RenameTemp(c)    \/ RenameFails(c)
    \/ SyncDir(c)       \/ SyncDirFails(c)
    \/ Discard(c)       \/ CloseSource(c)    \/ CloseMonitor(c)

CallStep(c) == Progress(c) \/ LockFails(c)

-----------------------------------------------------------------------------
(* filter_file_spooled reading the path: no lock, one descriptor *)

ReaderOpen(r) ==
    /\ rpc[r] = "open"
    /\ rfd' = [rfd EXCEPT ![r] = path]
    /\ rpc' = [rpc EXCEPT ![r] = "read"]
    /\ UNCHANGED <<fsvars, callvars, rgot, envvars>>

ReaderRead(r) ==
    /\ rpc[r] = "read"
    /\ rgot' = [rgot EXCEPT ![r] = content[rfd[r]]]
    /\ rpc' = [rpc EXCEPT ![r] = "rest"]
    /\ UNCHANGED <<fsvars, callvars, rfd, envvars>>

ReaderRest(r) ==
    /\ rpc[r] = "rest"
    /\ rgot' = [rgot EXCEPT ![r] = ReadRest(@, rfd[r])]
    /\ rpc' = [rpc EXCEPT ![r] = "close"]
    /\ UNCHANGED <<fsvars, callvars, rfd, envvars>>

ReaderClose(r) ==
    /\ rpc[r] = "close"
    /\ lock' = Unlocked(ReaderProc[r], rfd[r])
    /\ rpc' = [rpc EXCEPT ![r] = "done"]
    /\ UNCHANGED <<path, entries, content, synced, stamp, temps,
                   callvars, rfd, rgot, envvars>>

ReaderStep(r) == ReaderOpen(r) \/ ReaderRead(r) \/ ReaderRest(r) \/ ReaderClose(r)

-----------------------------------------------------------------------------
(* Programs that take no lock, killed processes and crashes *)

ForeignWrite(w) ==
    /\ \A i \in Inodes : w \notin Elems(content[i])
    /\ w \notin Elems(log)
    /\ Regular(path)
    /\ content' = [content EXCEPT ![path] = Append(@, w)]
    /\ stamp' = [stamp EXCEPT ![path] = @ + 1]
    /\ log' = Append(log, w)
    /\ UNCHANGED <<path, entries, synced, lock, temps, callvars, readvars,
                   kills, crashes>>

ForeignReplace(f) ==
    /\ f \notin Elems(log)
    /\ path' = f
    /\ entries' = entries \cup {f}
    /\ stamp' = [stamp EXCEPT ![path] = @ + 1]
    /\ log' = Append(log, f)
    /\ UNCHANGED <<content, synced, lock, temps, callvars, readvars,
                   kills, crashes>>

(* a call at "lstat" has not been made yet: it is made after the restart *)
Running(c) == pc[c] \notin {"lstat", "done", "dead"}

ReaderRunning(r) == rpc[r] \notin {"open", "done", "dead"}

(* the kernel closes what a killed process has open; its temp files stay *)
Kill(p) ==
    /\ kills < MaxKills
    /\ \E c \in Calls : ProcOf[c] = p /\ Running(c)
    /\ kills' = kills + 1
    /\ lock' = [i \in Inodes |-> IF lock[i] = p THEN None ELSE lock[i]]
    /\ pc' = [c \in Calls |-> IF ProcOf[c] = p /\ Running(c) THEN "dead" ELSE pc[c]]
    /\ rpc' = [r \in Readers |->
                 IF ReaderProc[r] = p /\ ReaderRunning(r) THEN "dead" ELSE rpc[r]]
    /\ UNCHANGED <<path, entries, content, synced, stamp, temps,
                   link, fd, snap, got, status, rfd, rgot, crashes, log>>

(* the path comes back as any entry not yet superseded by a synced one, and  *)
(* contents that were never synced are lost                                  *)
Crash ==
    /\ crashes < MaxCrashes
    /\ crashes' = crashes + 1
    /\ path' \in entries
    /\ entries' = {path'}
    /\ content' = [i \in Inodes |-> IF i \in synced THEN content[i] ELSE <<Torn>>]
    /\ log' = content'[path']
    /\ lock' = [i \in Inodes |-> None]
    /\ pc' = [c \in Calls |-> IF Running(c) THEN "dead" ELSE pc[c]]
    /\ rpc' = [r \in Readers |-> IF ReaderRunning(r) THEN "dead" ELSE rpc[r]]
    /\ UNCHANGED <<synced, stamp, temps, link, fd, snap, got, status,
                   rfd, rgot, kills>>

Finished ==
    /\ \A c \in Calls : pc[c] \in {"done", "dead"}
    /\ \A r \in Readers : rpc[r] \in {"done", "dead"}
    /\ UNCHANGED vars

Next ==
    \/ \E c \in Calls : CallStep(c)
    \/ \E r \in Readers : ReaderStep(r)
    \/ \E w \in Writers : ForeignWrite(w)
    \/ \E f \in Replacers : ForeignReplace(f)
    \/ \E p \in Procs : Kill(p)
    \/ Crash
    \/ Finished

Spec == Init /\ [][Next]_vars

(* Each thread keeps running: no call and no reader stops between two steps. *)
(* A call waiting for the lock goes on when the lock is free.                *)
Fairness ==
    /\ \A c \in Calls : WF_vars(Progress(c))
    /\ \A r \in Readers : WF_vars(ReaderStep(r))

FairSpec == Spec /\ Fairness

-----------------------------------------------------------------------------
(* Properties *)

EditsOf(i) == Elems(content[i])

(* No rewrite is lost: what the path holds is every change committed to it,  *)
(* in the order of the renames, so no call replaced a file it had not read   *)
(* (inline_lock_source, inline_source_path_still_matches, rename).           *)
NoLostUpdate == content[path] = log

(* Success is durable: once a call has returned ok, its rewrite is in every  *)
(* file a crash can leave at the path (fsync before rename, directory sync   *)
(* after it, and every later rewrite built on top of it).                    *)
AcknowledgedSurvives ==
    \A c \in Calls : status[c] = "ok" => \A i \in entries : c \in EditsOf(i)

(* Crash atomicity: whatever the path denotes, now or after a crash, is a    *)
(* complete file, never a temporary file half written or a mixture           *)
(* ("The completed temp file is durable before rename").                     *)
PathAlwaysComplete ==
    /\ path \in entries
    /\ \A i \in entries : i \in synced /\ Torn \notin EditsOf(i)

(* Every call that returns has removed its temporary name, whichever of its  *)
(* error paths it took; only a killed call leaves one behind.                *)
ReturnedCallsLeaveNoTemp ==
    \A c \in temps : pc[c] \notin {"lstat", "done"}

(* A lock is held only for a call that is still between its lock and its     *)
(* close: no return path leaves the source locked for everyone else.         *)
LocksHaveOwners ==
    \A i \in Inodes : lock[i] # None =>
        \E c \in Calls : ProcOf[c] = lock[i] /\ fd[c] = i /\ Running(c)

(* A concurrent filter_file_spooled reads one complete version of the file,  *)
(* whatever rewrites, kills and failures happen while it reads.              *)
ReadersSeeOneVersion ==
    \A r \in Readers : rpc[r] = "done" => Torn \notin Elems(rgot[r])

(* A call passes its identity check only with a replacement made from what   *)
(* the path holds at that moment: a change in place or a replacement by any  *)
(* program since the snapshot makes it fail closed.                          *)
CheckedReplacementIsCurrent ==
    [][\A c \in Calls : pc[c] = "check" /\ pc'[c] = "rename" =>
          content[c] = Append(content[path], c)]_vars

(* Every call and every reader returns or dies with its process: waiting for *)
(* the lock never lasts for ever, because every path out of a call closes    *)
(* the source.                                                               *)
EveryCallReturns ==
    /\ \A c \in Calls : <>(pc[c] \in {"done", "dead"})
    /\ \A r \in Readers : <>(rpc[r] \in {"done", "dead"})

-----------------------------------------------------------------------------
(* The inductive invariant behind the safety properties.  Callers cooperate  *)
(* when no two of them, readers included, share a process and no one else    *)
(* touches the file.                                                         *)

Cooperative ==
    /\ \A c, d \in Calls : ProcOf[c] = ProcOf[d] => c = d
    /\ \A r \in Readers, c \in Calls : ReaderProc[r] # ProcOf[c]
    /\ SelfReaders = {} /\ Writers = {} /\ Replacers = {}

Uncommitted == {"lstat", "open", "lock", "inspect", "temp", "filter", "copy",
                "flush", "sync", "check", "rename"}
Holding == OpenSteps \ {"lock", "monitor"}

(* an inode nobody writes any more *)
Frozen(i) == i = Source \/ (i \in Calls /\ pc[i] \notin Uncommitted)

HoldersHaveLock ==
    \A c \in Calls : pc[c] \in Holding => lock[fd[c]] = ProcOf[c]

OpenFilesFrozen ==
    /\ \A i \in entries : Frozen(i)
    /\ \A c \in Calls : fd[c] # None => Frozen(fd[c])

TempFollowsSource ==
    \A c \in Calls :
        /\ pc[c] = "copy" => got[c] = content[fd[c]]
        /\ pc[c] \in {"flush", "sync", "check", "rename"} =>
              content[c] = Append(content[fd[c]], c)
        /\ pc[c] \in {"check", "rename"} => c \in synced

CheckedIsCurrent ==
    \A c \in Calls : pc[c] = "rename" => path = fd[c]

CommitIsVisible ==
    \A c \in Calls : pc[c] = "syncdir" => c \in EditsOf(path)

InlineInv ==
    /\ TypeOK
    /\ HoldersHaveLock
    /\ OpenFilesFrozen
    /\ TempFollowsSource
    /\ CheckedIsCurrent
    /\ CommitIsVisible
    /\ NoLostUpdate
    /\ PathAlwaysComplete
    /\ AcknowledgedSurvives
=============================================================================
