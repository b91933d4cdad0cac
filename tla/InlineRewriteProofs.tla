------------------------ MODULE InlineRewriteProofs ------------------------
(***************************************************************************)
(* Proofs about InlineRewrite, for any number of calls, readers and        *)
(* processes and any bound on kills and crashes.                           *)
(***************************************************************************)
EXTENDS InlineRewrite, TLAPS

USE CallsAssumption, NamesAssumption

(* Appending one element adds exactly that element. *)
LEMMA ElemsOfAppend ==
    ASSUME NEW S, NEW s \in Seq(S), NEW e \in S
    PROVE  Elems(Append(s, e)) = Elems(s) \cup {e}
<1>1. /\ DOMAIN Append(s, e) = 1 .. (Len(s) + 1)
      /\ DOMAIN s = 1 .. Len(s)
      /\ Len(s) \in Nat
      /\ Append(s, e)[Len(s) + 1] = e
      /\ \A k \in 1 .. Len(s) : Append(s, e)[k] = s[k]
  OBVIOUS
<1>2. Elems(Append(s, e)) \subseteq Elems(s) \cup {e}
  BY <1>1 DEF Elems
<1>3. Elems(s) \subseteq Elems(Append(s, e))
  <2>1. SUFFICES ASSUME NEW k \in 1 .. Len(s)
                 PROVE  s[k] \in Elems(Append(s, e))
    BY <1>1 DEF Elems
  <2>2. k \in DOMAIN Append(s, e) /\ Append(s, e)[k] = s[k]
    BY <1>1
  <2> QED BY <2>2 DEF Elems
<1>4. e \in Elems(Append(s, e))
  <2>1. Len(s) + 1 \in DOMAIN Append(s, e)
    BY <1>1
  <2> QED BY <1>1, <2>1 DEF Elems
<1> QED BY <1>2, <1>3, <1>4

LEMMA InitTypeOK == Init => TypeOK
<1> SUFFICES ASSUME Init PROVE TypeOK
  OBVIOUS
<1>1. content \in [Inodes -> Seq(Edits)]
  <2>1. \A i \in Inodes : content[i] \in Seq(Edits)
    <3>1. <<>> \in Seq(Edits) OBVIOUS
    <3>2. \A i \in Replacers : <<i>> \in Seq(Edits)
      BY DEF Edits
    <3> QED BY <3>1, <3>2 DEF Init
  <2> QED BY <2>1 DEF Init
<1> QED BY <1>1 DEF Init, TypeOK, Inodes, Steps, OpenSteps

LEMMA CallTypeOK ==
    ASSUME TypeOK, NEW c \in Calls, CallStep(c) PROVE TypeOK'
<1> USE DEF TypeOK, Steps, OpenSteps, fsvars, callvars, readvars, envvars, At, Goto
<1>0. /\ c \in Edits /\ Torn \in Edits /\ c \in Inodes
      /\ None \notin Inodes /\ None \notin Procs
  BY DEF Edits, Inodes
<1>1. CASE LstatSource(c)
  BY <1>0, <1>1 DEF LstatSource
<1>2. CASE LstatRejects(c)
  BY <1>0, <1>2 DEF LstatRejects, Return
<1>3. CASE OpenSource(c)
  BY <1>0, <1>3 DEF OpenSource
<1>4. CASE OpenFails(c)
  BY <1>0, <1>4 DEF OpenFails, Return
<1>5. CASE LockSource(c)
  BY <1>0, <1>5 DEF LockSource
<1>6. CASE LockFails(c)
  BY <1>0, <1>6 DEF LockFails, CloseAndReturn, Return, Unlocked
<1>7. CASE InspectSource(c)
  BY <1>0, <1>7 DEF InspectSource
<1>8. CASE InspectRejects(c)
  BY <1>0, <1>8 DEF InspectRejects, CloseAndReturn, Return, Unlocked
<1>9. CASE CreateTemp(c)
  BY <1>0, <1>9 DEF CreateTemp
<1>10. CASE CreateTempFails(c)
  BY <1>0, <1>10 DEF CreateTempFails, CloseAndReturn, Return, Unlocked
<1>11. CASE FilterStart(c)
  BY <1>0, <1>11 DEF FilterStart, Unlocked
<1>12. CASE FilterRest(c)
  BY <1>0, <1>12 DEF FilterRest, ReadRest
<1>13. CASE FilterFails(c)
  BY <1>0, <1>13 DEF FilterFails, Abandon
<1>14. CASE FlushTemp(c)
  BY <1>0, <1>14 DEF FlushTemp
<1>15. CASE SyncTemp(c)
  BY <1>0, <1>15 DEF SyncTemp
<1>16. CASE TempIoFails(c)
  BY <1>0, <1>16 DEF TempIoFails, Abandon
<1>17. CASE CheckSource(c)
  BY <1>0, <1>17 DEF CheckSource
<1>18. CASE CheckRejects(c)
  BY <1>0, <1>18 DEF CheckRejects, Abandon
<1>19. CASE RenameTemp(c)
  BY <1>0, <1>19 DEF RenameTemp
<1>20. CASE RenameFails(c)
  BY <1>0, <1>20 DEF RenameFails, Abandon
<1>21. CASE SyncDir(c)
  BY <1>0, <1>21 DEF SyncDir
<1>22. CASE SyncDirFails(c)
  BY <1>0, <1>22 DEF SyncDirFails, Abandon
<1>23. CASE Discard(c)
  BY <1>0, <1>23 DEF Discard
<1>24. CASE CloseSource(c)
  BY <1>0, <1>24 DEF CloseSource, CloseStatus, Unlocked
<1>25. CASE CloseMonitor(c)
  BY <1>0, <1>25 DEF CloseMonitor, CloseStatus, Unlocked
<1> QED BY <1>1, <1>2, <1>3, <1>4, <1>5, <1>6, <1>7, <1>8, <1>9, <1>10, <1>11, <1>12, <1>13, <1>14, <1>15, <1>16, <1>17, <1>18, <1>19, <1>20, <1>21, <1>22, <1>23, <1>24, <1>25 DEF CallStep, Progress

LEMMA ReaderTypeOK ==
    ASSUME TypeOK, NEW r \in Readers, ReaderStep(r) PROVE TypeOK'
<1> USE DEF TypeOK, fsvars, callvars, readvars, envvars
<1>0. Torn \in Edits /\ None \notin Inodes
  BY DEF Edits, Inodes
<1>1. CASE ReaderOpen(r)
  BY <1>0, <1>1 DEF ReaderOpen
<1>2. CASE ReaderRead(r)
  BY <1>0, <1>2 DEF ReaderRead
<1>3. CASE ReaderRest(r)
  BY <1>0, <1>3 DEF ReaderRest, ReadRest
<1>4. CASE ReaderClose(r)
  BY <1>0, <1>4 DEF ReaderClose, Unlocked
<1> QED BY <1>1, <1>2, <1>3, <1>4 DEF ReaderStep

LEMMA NextTypeOK == TypeOK /\ [Next]_vars => TypeOK'
<1> SUFFICES ASSUME TypeOK, [Next]_vars PROVE TypeOK'
  OBVIOUS
<1> USE DEF TypeOK, fsvars, callvars, readvars, envvars
<1>1. CASE \E c \in Calls : CallStep(c)
  BY <1>1, CallTypeOK
<1>2. CASE \E r \in Readers : ReaderStep(r)
  BY <1>2, ReaderTypeOK
<1>3. ASSUME NEW w \in Writers, ForeignWrite(w) PROVE TypeOK'
  <2>1. w \in Edits
    BY DEF Edits
  <2> QED BY <1>3, <2>1 DEF ForeignWrite
<1>4. ASSUME NEW f \in Replacers, ForeignReplace(f) PROVE TypeOK'
  <2>1. f \in Edits /\ f \in Inodes
    BY DEF Edits, Inodes
  <2> QED BY <1>4, <2>1 DEF ForeignReplace
<1>5. ASSUME NEW p \in Procs, Kill(p) PROVE TypeOK'
  BY <1>5 DEF Kill, Running, Steps, OpenSteps
<1>6. CASE Crash
  <2>1. <<Torn>> \in Seq(Edits)
    BY DEF Edits
  <2>2. content' \in [Inodes -> Seq(Edits)] /\ path' \in Inodes
    BY <1>6, <2>1 DEF Crash
  <2>3. log' \in Seq(Edits)
    BY <1>6, <2>2 DEF Crash
  <2> QED BY <1>6, <2>2, <2>3 DEF Crash, Running, Steps, OpenSteps, ReaderRunning
<1>7. CASE Finished
  BY <1>7 DEF Finished, vars
<1>8. CASE UNCHANGED vars
  BY <1>8 DEF vars
<1> QED BY <1>1, <1>2, <1>3, <1>4, <1>5, <1>6, <1>7, <1>8 DEF Next

(* Every step of every call, reader, program, kill and crash keeps the types,*)
(* and a call between its open and its close always has a descriptor.        *)
THEOREM TypeCorrect == Spec => []TypeOK
<1>1. Init => TypeOK
  BY InitTypeOK
<1>2. TypeOK /\ [Next]_vars => TypeOK'
  BY NextTypeOK
<1> QED BY <1>1, <1>2, PTL DEF Spec

(* A call that closes a file drops no lock another call holds. *)
LEMMA CloseKeepsOthers ==
    ASSUME Cooperative, TypeOK, NEW c \in Calls, NEW d \in Calls, c # d,
           NEW i \in Inodes, NEW j, lock[i] = ProcOf[d]
    PROVE  Unlocked(ProcOf[c], j)[i] = ProcOf[d]
<1>1. ProcOf[d] # ProcOf[c]
  BY DEF Cooperative
<1> QED BY <1>1 DEF Unlocked, TypeOK

LEMMA CallInlineInv ==
    ASSUME Cooperative, InlineInv, NEW c \in Calls, CallStep(c), TypeOK'
    PROVE  InlineInv'
<1> USE DEF InlineInv, TypeOK, fsvars, callvars, readvars, envvars, At, Goto,
            HoldersHaveLock, OpenFilesFrozen, Frozen, TempFollowsSource, CheckedIsCurrent,
            CommitIsVisible, NoLostUpdate, PathAlwaysComplete, AcknowledgedSurvives,
            EditsOf, Uncommitted, Holding, OpenSteps
<1>0. c \in Inodes /\ None \notin Inodes /\ None \notin Procs
  BY DEF Inodes
<1>1. CASE LstatSource(c)
  BY <1>0, <1>1 DEF LstatSource
<1>2. CASE LstatRejects(c)
  BY <1>0, <1>2 DEF LstatRejects, Return
<1>3. CASE OpenSource(c)
  BY <1>0, <1>3 DEF OpenSource
<1>4. CASE OpenFails(c)
  BY <1>0, <1>4 DEF OpenFails, Return
<1>5. CASE LockSource(c)
  BY <1>0, <1>5, SMTT(60) DEF LockSource
<1>6. CASE LockFails(c)
  <2>1. HoldersHaveLock'
    BY <1>6, CloseKeepsOthers, SMTT(60) DEF LockFails, CloseAndReturn, Return
  <2> QED BY <1>0, <1>6, <2>1 DEF LockFails, CloseAndReturn, Return
<1>7. CASE InspectSource(c)
  BY <1>0, <1>7 DEF InspectSource
<1>8. CASE InspectRejects(c)
  <2>1. HoldersHaveLock'
    BY <1>8, CloseKeepsOthers, SMTT(60) DEF InspectRejects, CloseAndReturn, Return
  <2> QED BY <1>0, <1>8, <2>1 DEF InspectRejects, CloseAndReturn, Return
<1>9. CASE CreateTemp(c)
  <2>1. \A i \in Inodes : Frozen(i) => content'[i] = content[i]
    BY <1>9 DEF CreateTemp
  <2>2. OpenFilesFrozen' /\ TempFollowsSource'
    BY <1>0, <1>9, <2>1, SMTT(60) DEF CreateTemp
  <2>3. \A i \in entries : content'[i] = content[i]
    BY <2>1
  <2> QED BY <1>0, <1>9, <2>2, <2>3, SMTT(60) DEF CreateTemp
<1>10. CASE CreateTempFails(c)
  <2>1. HoldersHaveLock'
    BY <1>10, CloseKeepsOthers, SMTT(60) DEF CreateTempFails, CloseAndReturn, Return
  <2> QED BY <1>0, <1>10, <2>1 DEF CreateTempFails, CloseAndReturn, Return
<1>11. CASE FilterStart(c)
  <2>1. lock' = lock
    BY <1>11 DEF FilterStart, Cooperative
  <2> QED BY <1>0, <1>11, <2>1 DEF FilterStart
<1>12. CASE FilterRest(c)
  <2>1. \A i \in Inodes : Frozen(i) => content'[i] = content[i]
    BY <1>12 DEF FilterRest
  <2>2. content'[c] = Append(content[fd[c]], c) /\ content'[fd[c]] = content[fd[c]]
    BY <1>0, <1>12, <2>1 DEF FilterRest, ReadRest
  <2>3. OpenFilesFrozen' /\ TempFollowsSource'
    BY <1>0, <1>12, <2>1, <2>2, SMTT(60) DEF FilterRest
  <2>4. \A i \in entries : content'[i] = content[i]
    BY <2>1
  <2> QED BY <1>0, <1>12, <2>3, <2>4, SMTT(60) DEF FilterRest
<1>13. CASE FilterFails(c)
  BY <1>0, <1>13 DEF FilterFails, Abandon
<1>14. CASE FlushTemp(c)
  <2>1. TempFollowsSource'
    BY <1>14 DEF FlushTemp
  <2>2. HoldersHaveLock' /\ OpenFilesFrozen'
    BY <1>14 DEF FlushTemp
  <2>3. CheckedIsCurrent' /\ CommitIsVisible'
    BY <1>14 DEF FlushTemp
  <2>4. NoLostUpdate' /\ PathAlwaysComplete' /\ AcknowledgedSurvives'
    BY <1>14 DEF FlushTemp
  <2> HIDE DEF TypeOK, HoldersHaveLock, OpenFilesFrozen, TempFollowsSource, CheckedIsCurrent,
              CommitIsVisible, NoLostUpdate, PathAlwaysComplete, AcknowledgedSurvives
  <2> QED BY <2>1, <2>2, <2>3, <2>4
<1>15. CASE SyncTemp(c)
  BY <1>0, <1>15 DEF SyncTemp
<1>16. CASE TempIoFails(c)
  BY <1>0, <1>16 DEF TempIoFails, Abandon
<1>17. CASE CheckSource(c)
  BY <1>0, <1>17, SMTT(60) DEF CheckSource, StillMatches
<1>18. CASE CheckRejects(c)
  BY <1>0, <1>18 DEF CheckRejects, Abandon
<1>19. CASE RenameTemp(c)
  <2>1. fd[c] = path /\ content[c] = Append(content[path], c) /\ c \in synced
    BY <1>19 DEF RenameTemp
  <2>2. c # Torn /\ c \in Edits /\ content[path] \in Seq(Edits)
    BY DEF Edits
  <2>3. Elems(content[c]) = Elems(content[path]) \cup {c}
    BY <2>1, <2>2, ElemsOfAppend
  <2>4. CheckedIsCurrent'
    <3> SUFFICES ASSUME NEW d \in Calls, d # c, pc[d] = "rename" PROVE FALSE
      BY <1>19 DEF RenameTemp
    <3>1. lock[path] = ProcOf[c] /\ lock[path] = ProcOf[d]
      <4>1. pc[c] = "rename"
        BY <1>19 DEF RenameTemp
      <4>2. \A e \in Calls : pc[e] = "rename" => lock[path] = ProcOf[e]
        BY Zenon DEF HoldersHaveLock, CheckedIsCurrent, Holding, OpenSteps
      <4> QED BY <4>1, <4>2, Zenon
    <3>2. ProcOf[c] = ProcOf[d] => c = d
      BY DEF Cooperative
    <3> QED BY <3>1, <3>2
  <2>5. CommitIsVisible' /\ AcknowledgedSurvives'
    BY <1>0, <1>19, <2>3 DEF RenameTemp
  <2>6. NoLostUpdate'
    BY <1>0, <1>19, <2>1 DEF RenameTemp
  <2>7. PathAlwaysComplete'
    BY <1>0, <1>19, <2>1, <2>2, <2>3 DEF RenameTemp
  <2>8. HoldersHaveLock' /\ OpenFilesFrozen' /\ TempFollowsSource'
    BY <1>0, <1>19, SMTT(60) DEF RenameTemp
  <2> HIDE DEF TypeOK, HoldersHaveLock, OpenFilesFrozen, TempFollowsSource, CheckedIsCurrent,
              CommitIsVisible, NoLostUpdate, PathAlwaysComplete, AcknowledgedSurvives
  <2> QED BY <2>4, <2>5, <2>6, <2>7, <2>8
<1>20. CASE RenameFails(c)
  BY <1>0, <1>20 DEF RenameFails, Abandon
<1>21. CASE SyncDir(c)
  BY <1>0, <1>21 DEF SyncDir
<1>22. CASE SyncDirFails(c)
  BY <1>0, <1>22 DEF SyncDirFails, Abandon
<1>23. CASE Discard(c)
  BY <1>0, <1>23 DEF Discard
<1>24. CASE CloseSource(c)
  <2>1. HoldersHaveLock'
    BY <1>24, CloseKeepsOthers, SMTT(60) DEF CloseSource, CloseStatus
  <2> QED BY <1>0, <1>24, <2>1 DEF CloseSource, CloseStatus
<1>25. CASE CloseMonitor(c)
  <2>1. HoldersHaveLock'
    BY <1>25, CloseKeepsOthers, SMTT(60) DEF CloseMonitor, CloseStatus
  <2> QED BY <1>0, <1>25, <2>1 DEF CloseMonitor, CloseStatus
<1> QED BY <1>1, <1>2, <1>3, <1>4, <1>5, <1>6, <1>7, <1>8, <1>9, <1>10, <1>11, <1>12, <1>13, <1>14, <1>15, <1>16, <1>17, <1>18, <1>19, <1>20, <1>21, <1>22, <1>23, <1>24, <1>25 DEF CallStep, Progress

LEMMA ReaderInlineInv ==
    ASSUME Cooperative, InlineInv, NEW r \in Readers, ReaderStep(r), TypeOK'
    PROVE  InlineInv'
<1>1. UNCHANGED <<path, entries, content, synced, callvars, log>>
  BY DEF ReaderStep, ReaderOpen, ReaderRead, ReaderRest, ReaderClose,
         fsvars, callvars, envvars
<1>2. \A i \in Inodes, c \in Calls : lock[i] = ProcOf[c] => lock'[i] = ProcOf[c]
  <2> SUFFICES ASSUME ReaderClose(r), NEW i \in Inodes, NEW c \in Calls, lock[i] = ProcOf[c]
               PROVE  lock'[i] = ProcOf[c]
    BY DEF ReaderStep, ReaderOpen, ReaderRead, ReaderRest, fsvars
  <2>1. ProcOf[c] # ReaderProc[r]
    BY DEF Cooperative
  <2> QED BY <2>1 DEF ReaderClose, Unlocked, InlineInv, TypeOK
<1>3. HoldersHaveLock'
  BY <1>1, <1>2 DEF InlineInv, TypeOK, HoldersHaveLock, callvars, Holding, OpenSteps
<1> QED BY <1>1, <1>3 DEF InlineInv, callvars, OpenFilesFrozen, Frozen, TempFollowsSource,
            CheckedIsCurrent, CommitIsVisible, NoLostUpdate, PathAlwaysComplete,
            AcknowledgedSurvives, EditsOf

LEMMA KillInlineInv ==
    ASSUME Cooperative, InlineInv, NEW p \in Procs, Kill(p), TypeOK'
    PROVE  InlineInv'
<1>1. UNCHANGED <<path, entries, content, synced, fd, got, status, log>>
  BY DEF Kill
<1>2. \A c \in Calls : pc'[c] = pc[c] \/ pc'[c] = "dead"
  BY DEF Kill, InlineInv, TypeOK
<1>3. HoldersHaveLock'
  <2> SUFFICES ASSUME NEW c \in Calls, pc'[c] \in Holding
               PROVE  lock'[fd[c]] = ProcOf[c]
    BY <1>1 DEF HoldersHaveLock
  <2>1. pc'[c] = pc[c] /\ ProcOf[c] # p
    BY <1>2 DEF Holding, OpenSteps, Kill, Running, InlineInv, TypeOK
  <2>2. fd[c] \in Inodes /\ lock[fd[c]] = ProcOf[c]
    BY <2>1 DEF InlineInv, TypeOK, HoldersHaveLock, Holding
  <2> QED BY <2>1, <2>2 DEF Kill
<1>4. OpenFilesFrozen'
  BY <1>1, <1>2 DEF InlineInv, OpenFilesFrozen, Frozen, Uncommitted
<1>5. TempFollowsSource' /\ CheckedIsCurrent' /\ CommitIsVisible'
  BY <1>1, <1>2 DEF InlineInv, TempFollowsSource, CheckedIsCurrent, CommitIsVisible, EditsOf
<1> QED BY <1>1, <1>3, <1>4, <1>5
        DEF InlineInv, NoLostUpdate, PathAlwaysComplete, AcknowledgedSurvives, EditsOf

LEMMA CrashInlineInv ==
    ASSUME Cooperative, InlineInv, Crash, TypeOK'
    PROVE  InlineInv'
<1>1. UNCHANGED <<synced, fd, got, status>>
  BY DEF Crash
<1>2. \A c \in Calls : (pc'[c] = pc[c] /\ pc[c] \in {"lstat", "done", "dead"}) \/ pc'[c] = "dead"
  BY DEF Crash, Running, InlineInv, TypeOK
<1>3. path' \in entries /\ entries' = {path'} /\ content'[path'] = content[path']
  BY DEF Crash, InlineInv, TypeOK, PathAlwaysComplete
<1>4. HoldersHaveLock' /\ TempFollowsSource' /\ CheckedIsCurrent' /\ CommitIsVisible'
  BY <1>2 DEF HoldersHaveLock, Holding, OpenSteps, TempFollowsSource, CheckedIsCurrent,
              CommitIsVisible
<1>5. OpenFilesFrozen'
  BY <1>1, <1>2, <1>3 DEF InlineInv, OpenFilesFrozen, Frozen, Uncommitted
<1>6. NoLostUpdate'
  BY DEF Crash, NoLostUpdate
<1>7. PathAlwaysComplete' /\ AcknowledgedSurvives'
  BY <1>1, <1>3 DEF InlineInv, PathAlwaysComplete, AcknowledgedSurvives, EditsOf
<1> QED BY <1>4, <1>5, <1>6, <1>7 DEF InlineInv

LEMMA InitInlineInv == ASSUME Cooperative PROVE Init => InlineInv
<1> SUFFICES ASSUME Init PROVE InlineInv
  OBVIOUS
<1>1. TypeOK
  BY InitTypeOK
<1>2. Source \in Inodes /\ Source \notin Replacers /\ content[Source] = <<>>
  BY DEF Init, Inodes
<1>3. EditsOf(Source) = {}
  BY <1>2 DEF EditsOf, Elems
<1>4. \A c \in Calls : pc[c] = "lstat" /\ fd[c] = None /\ status[c] = "none"
  BY DEF Init
<1>5. HoldersHaveLock /\ OpenFilesFrozen /\ TempFollowsSource /\ CheckedIsCurrent
  BY <1>4 DEF Init, HoldersHaveLock, Holding, OpenSteps, OpenFilesFrozen, Frozen,
              TempFollowsSource, CheckedIsCurrent
<1>6. CommitIsVisible /\ NoLostUpdate /\ PathAlwaysComplete /\ AcknowledgedSurvives
  BY <1>2, <1>3, <1>4 DEF Init, CommitIsVisible, NoLostUpdate, PathAlwaysComplete,
                          AcknowledgedSurvives
<1> QED BY <1>1, <1>5, <1>6 DEF InlineInv

LEMMA NextInlineInv ==
    ASSUME Cooperative PROVE InlineInv /\ [Next]_vars => InlineInv'
<1> SUFFICES ASSUME InlineInv, [Next]_vars PROVE InlineInv'
  OBVIOUS
<1>1. TypeOK'
  BY NextTypeOK DEF InlineInv
<1>2. CASE \E c \in Calls : CallStep(c)
  BY <1>1, <1>2, CallInlineInv
<1>3. CASE \E r \in Readers : ReaderStep(r)
  BY <1>1, <1>3, ReaderInlineInv
<1>4. CASE \E p \in Procs : Kill(p)
  BY <1>1, <1>4, KillInlineInv
<1>5. CASE Crash
  BY <1>1, <1>5, CrashInlineInv
<1>6. CASE UNCHANGED vars
  BY <1>1, <1>6 DEF vars, fsvars, callvars, envvars, InlineInv, HoldersHaveLock,
         OpenFilesFrozen, Frozen, TempFollowsSource, CheckedIsCurrent, CommitIsVisible,
         NoLostUpdate, PathAlwaysComplete, AcknowledgedSurvives, EditsOf
<1>7. Writers = {} /\ Replacers = {}
  BY DEF Cooperative
<1> QED BY <1>2, <1>3, <1>4, <1>5, <1>6, <1>7 DEF Next, Finished

LEMMA InlineInvariant == ASSUME Cooperative PROVE Spec => []InlineInv
<1>1. Init => InlineInv
  BY InitInlineInv
<1>2. InlineInv /\ [Next]_vars => InlineInv'
  BY NextInlineInv
<1> QED BY <1>1, <1>2, PTL DEF Spec

(* Callers in separate processes lose no rewrite, however many calls,        *)
(* failures, kills and crashes there are: the lock held from before the      *)
(* snapshot until after the rename makes check and rename one step.          *)
THEOREM NoRewriteIsLost == ASSUME Cooperative PROVE Spec => []NoLostUpdate
<1>1. InlineInv => NoLostUpdate
  BY DEF InlineInv
<1> QED BY <1>1, InlineInvariant, PTL

(* A rewrite reported as done is in every file a crash can leave at the      *)
(* path, because later rewrites are made from the file that contains it.     *)
THEOREM SuccessIsDurable == ASSUME Cooperative PROVE Spec => []AcknowledgedSurvives
<1>1. InlineInv => AcknowledgedSurvives
  BY DEF InlineInv
<1> QED BY <1>1, InlineInvariant, PTL

(* The path never denotes an incomplete file, not even after a crash: only   *)
(* synced temporary files of complete copies are renamed.                    *)
THEOREM PathIsComplete == ASSUME Cooperative PROVE Spec => []PathAlwaysComplete
<1>1. InlineInv => PathAlwaysComplete
  BY DEF InlineInv
<1> QED BY <1>1, InlineInvariant, PTL

-----------------------------------------------------------------------------
(***************************************************************************)
(* What a call leaves behind when it ends, what its identity check is      *)
(* worth against programs that take no lock, and what a concurrent reader  *)
(* sees.  All but the last hold whoever shares a process and whatever      *)
(* foreign programs do.                                                    *)
(***************************************************************************)

(* the steps of a call whose temporary name may be in the directory *)
TempSteps == {"filter", "copy", "flush", "sync", "check", "rename", "discard", "dead"}

(* a temporary name belongs to a call that is still going to remove or       *)
(* rename it, or that was killed                                             *)
TempInv == \A c \in temps : pc[c] \in TempSteps

(* a lock has a holder that is going to close the locked inode *)
LockInv ==
    \A i \in Inodes : lock[i] # None =>
        \E c \in Calls : ProcOf[c] = lock[i] /\ fd[c] = i /\ pc[c] \in Holding

(* an inode no call is still writing *)
Settled(i) == i \in Calls => pc[i] \notin Uncommitted

(* the path and every descriptor denote settled inodes: only a program       *)
(* outside the lock can change one, and it changes the stamp as well         *)
SettledInv ==
    /\ path \in entries
    /\ \A i \in entries : Settled(i)
    /\ \A c \in Calls : fd[c] # None => Settled(fd[c])

(* while the stamp is the one of the snapshot, what was read is what is there *)
StampInv ==
    \A c \in Calls :
        /\ pc[c] \in {"temp", "filter", "copy", "flush", "sync", "check"} =>
              snap[c] <= stamp[fd[c]]
        /\ pc[c] = "copy" /\ snap[c] = stamp[fd[c]] => got[c] = content[fd[c]]
        /\ pc[c] \in {"flush", "sync", "check"} /\ snap[c] = stamp[fd[c]] =>
              content[c] = Append(content[fd[c]], c)

ExitInv == TypeOK /\ TempInv /\ LockInv

CheckInv == TypeOK /\ SettledInv /\ StampInv

(* an open reader has a complete file nobody writes, and has read that file *)
ReaderInv ==
    \A r \in Readers :
        /\ rpc[r] \in {"read", "rest", "close"} =>
              Frozen(rfd[r]) /\ Torn \notin EditsOf(rfd[r])
        /\ rpc[r] = "rest" => rgot[r] = content[rfd[r]]
        /\ rpc[r] \in {"close", "done"} => Torn \notin Elems(rgot[r])

-----------------------------------------------------------------------------
(* What one step of a call does to the path, the contents and the call's own *)
(* position: the other calls keep theirs, and a call writes its own          *)
(* temporary file only.                                                      *)
CallEffect(c) ==
    /\ \A d \in Calls \ {c} : /\ pc'[d] = pc[d] /\ fd'[d] = fd[d]
                               /\ snap'[d] = snap[d] /\ got'[d] = got[d]
    /\ \A i \in Inodes \ {c} : content'[i] = content[i]
    /\ pc[c] \notin {"temp", "copy"} => content' = content
    /\ pc[c] \notin Uncommitted => pc'[c] \notin Uncommitted
    /\ fd'[c] # fd[c] => fd'[c] = path
    /\ readvars' = readvars
    /\ \/ path' = path /\ entries' \in {entries, {path}} /\ stamp' = stamp
       \/ /\ pc'[c] = "syncdir" /\ path' = c /\ entries' = entries \cup {c}
          /\ stamp' = [stamp EXCEPT ![path] = @ + 1]

(* How a call gets from its snapshot to its check. *)
CallReads(c) ==
    /\ pc'[c] = "temp" => snap'[c] = stamp[fd[c]]
    /\ pc'[c] = "filter" => pc[c] = "temp" /\ snap'[c] = snap[c]
    /\ pc'[c] = "copy" => pc[c] = "filter" /\ snap'[c] = snap[c] /\ got'[c] = content[fd[c]]
    /\ pc'[c] = "flush" => /\ pc[c] = "copy" /\ snap'[c] = snap[c]
                           /\ content'[c] = Append(ReadRest(got[c], fd[c]), c)
    /\ pc'[c] = "sync" => pc[c] = "flush" /\ snap'[c] = snap[c]
    /\ pc'[c] = "check" => pc[c] = "sync" /\ snap'[c] = snap[c]
    /\ pc'[c] \in {"temp", "filter", "copy", "flush", "sync", "check"} =>
          fd'[c] = fd[c] /\ stamp' = stamp

LEMMA CallHasEffect ==
    ASSUME TypeOK, NEW c \in Calls, CallStep(c) PROVE CallEffect(c)
<1> USE DEF TypeOK, fsvars, callvars, readvars, envvars, At, Goto, Uncommitted, CallEffect
<1>1. CASE LstatSource(c)
  BY <1>1 DEF LstatSource
<1>2. CASE LstatRejects(c)
  BY <1>2 DEF LstatRejects, Return
<1>3. CASE OpenSource(c)
  BY <1>3 DEF OpenSource
<1>4. CASE OpenFails(c)
  BY <1>4 DEF OpenFails, Return
<1>5. CASE LockSource(c)
  BY <1>5 DEF LockSource
<1>6. CASE LockFails(c)
  BY <1>6 DEF LockFails, CloseAndReturn, Return, Unlocked
<1>7. CASE InspectSource(c)
  BY <1>7 DEF InspectSource
<1>8. CASE InspectRejects(c)
  BY <1>8 DEF InspectRejects, CloseAndReturn, Return, Unlocked
<1>9. CASE CreateTemp(c)
  BY <1>9 DEF CreateTemp
<1>10. CASE CreateTempFails(c)
  BY <1>10 DEF CreateTempFails, CloseAndReturn, Return, Unlocked
<1>11. CASE FilterStart(c)
  BY <1>11 DEF FilterStart, Unlocked
<1>12. CASE FilterRest(c)
  BY <1>12 DEF FilterRest
<1>13. CASE FilterFails(c)
  BY <1>13 DEF FilterFails, Abandon
<1>14. CASE FlushTemp(c)
  BY <1>14 DEF FlushTemp
<1>15. CASE SyncTemp(c)
  BY <1>15 DEF SyncTemp
<1>16. CASE TempIoFails(c)
  BY <1>16 DEF TempIoFails, Abandon
<1>17. CASE CheckSource(c)
  BY <1>17 DEF CheckSource
<1>18. CASE CheckRejects(c)
  BY <1>18 DEF CheckRejects, Abandon
<1>19. CASE RenameTemp(c)
  BY <1>19 DEF RenameTemp
<1>20. CASE RenameFails(c)
  BY <1>20 DEF RenameFails, Abandon
<1>21. CASE SyncDir(c)
  BY <1>21 DEF SyncDir
<1>22. CASE SyncDirFails(c)
  BY <1>22 DEF SyncDirFails, Abandon
<1>23. CASE Discard(c)
  BY <1>23 DEF Discard
<1>24. CASE CloseSource(c)
  BY <1>24 DEF CloseSource, CloseStatus, Unlocked
<1>25. CASE CloseMonitor(c)
  BY <1>25 DEF CloseMonitor, CloseStatus, Unlocked
<1> QED BY <1>1, <1>2, <1>3, <1>4, <1>5, <1>6, <1>7, <1>8, <1>9, <1>10, <1>11, <1>12, <1>13,
           <1>14, <1>15, <1>16, <1>17, <1>18, <1>19, <1>20, <1>21, <1>22, <1>23, <1>24, <1>25 DEF CallStep, Progress

LEMMA CallHasReads ==
    ASSUME TypeOK, NEW c \in Calls, CallStep(c) PROVE CallReads(c)
<1>0. c \in Inodes
  BY DEF Inodes
<1> USE DEF TypeOK, fsvars, callvars, readvars, envvars, At, Goto, CallReads
<1>1. CASE LstatSource(c)
  BY <1>0, <1>1 DEF LstatSource
<1>2. CASE LstatRejects(c)
  BY <1>0, <1>2 DEF LstatRejects, Return
<1>3. CASE OpenSource(c)
  BY <1>0, <1>3 DEF OpenSource
<1>4. CASE OpenFails(c)
  BY <1>0, <1>4 DEF OpenFails, Return
<1>5. CASE LockSource(c)
  BY <1>0, <1>5 DEF LockSource
<1>6. CASE LockFails(c)
  BY <1>0, <1>6 DEF LockFails, CloseAndReturn, Return, Unlocked
<1>7. CASE InspectSource(c)
  BY <1>0, <1>7 DEF InspectSource
<1>8. CASE InspectRejects(c)
  BY <1>0, <1>8 DEF InspectRejects, CloseAndReturn, Return, Unlocked
<1>9. CASE CreateTemp(c)
  BY <1>0, <1>9 DEF CreateTemp
<1>10. CASE CreateTempFails(c)
  BY <1>0, <1>10 DEF CreateTempFails, CloseAndReturn, Return, Unlocked
<1>11. CASE FilterStart(c)
  BY <1>0, <1>11 DEF FilterStart, Unlocked
<1>12. CASE FilterRest(c)
  BY <1>0, <1>12 DEF FilterRest
<1>13. CASE FilterFails(c)
  BY <1>0, <1>13 DEF FilterFails, Abandon
<1>14. CASE FlushTemp(c)
  BY <1>0, <1>14 DEF FlushTemp
<1>15. CASE SyncTemp(c)
  BY <1>0, <1>15 DEF SyncTemp
<1>16. CASE TempIoFails(c)
  BY <1>0, <1>16 DEF TempIoFails, Abandon
<1>17. CASE CheckSource(c)
  BY <1>0, <1>17 DEF CheckSource
<1>18. CASE CheckRejects(c)
  BY <1>0, <1>18 DEF CheckRejects, Abandon
<1>19. CASE RenameTemp(c)
  BY <1>0, <1>19 DEF RenameTemp
<1>20. CASE RenameFails(c)
  BY <1>0, <1>20 DEF RenameFails, Abandon
<1>21. CASE SyncDir(c)
  BY <1>0, <1>21 DEF SyncDir
<1>22. CASE SyncDirFails(c)
  BY <1>0, <1>22 DEF SyncDirFails, Abandon
<1>23. CASE Discard(c)
  BY <1>0, <1>23 DEF Discard
<1>24. CASE CloseSource(c)
  BY <1>0, <1>24 DEF CloseSource, CloseStatus, Unlocked
<1>25. CASE CloseMonitor(c)
  BY <1>0, <1>25 DEF CloseMonitor, CloseStatus, Unlocked
<1> QED BY <1>1, <1>2, <1>3, <1>4, <1>5, <1>6, <1>7, <1>8, <1>9, <1>10, <1>11, <1>12, <1>13,
           <1>14, <1>15, <1>16, <1>17, <1>18, <1>19, <1>20, <1>21, <1>22, <1>23, <1>24, <1>25 DEF CallStep, Progress

LEMMA CallTempInv ==
    ASSUME TypeOK, TempInv, NEW c \in Calls, CallStep(c) PROVE TempInv'
<1> USE DEF TypeOK, fsvars, callvars, At, Goto, TempInv, TempSteps
<1>1. CASE LstatSource(c)
  BY <1>1 DEF LstatSource
<1>2. CASE LstatRejects(c)
  BY <1>2 DEF LstatRejects, Return
<1>3. CASE OpenSource(c)
  BY <1>3 DEF OpenSource
<1>4. CASE OpenFails(c)
  BY <1>4 DEF OpenFails, Return
<1>5. CASE LockSource(c)
  BY <1>5 DEF LockSource
<1>6. CASE LockFails(c)
  BY <1>6 DEF LockFails, CloseAndReturn, Return, Unlocked
<1>7. CASE InspectSource(c)
  BY <1>7 DEF InspectSource
<1>8. CASE InspectRejects(c)
  BY <1>8 DEF InspectRejects, CloseAndReturn, Return, Unlocked
<1>9. CASE CreateTemp(c)
  BY <1>9 DEF CreateTemp
<1>10. CASE CreateTempFails(c)
  BY <1>10 DEF CreateTempFails, CloseAndReturn, Return, Unlocked
<1>11. CASE FilterStart(c)
  BY <1>11 DEF FilterStart, Unlocked
<1>12. CASE FilterRest(c)
  BY <1>12 DEF FilterRest
<1>13. CASE FilterFails(c)
  BY <1>13 DEF FilterFails, Abandon
<1>14. CASE FlushTemp(c)
  BY <1>14 DEF FlushTemp
<1>15. CASE SyncTemp(c)
  BY <1>15 DEF SyncTemp
<1>16. CASE TempIoFails(c)
  BY <1>16 DEF TempIoFails, Abandon
<1>17. CASE CheckSource(c)
  BY <1>17 DEF CheckSource
<1>18. CASE CheckRejects(c)
  BY <1>18 DEF CheckRejects, Abandon
<1>19. CASE RenameTemp(c)
  BY <1>19 DEF RenameTemp
<1>20. CASE RenameFails(c)
  BY <1>20 DEF RenameFails, Abandon
<1>21. CASE SyncDir(c)
  BY <1>21 DEF SyncDir
<1>22. CASE SyncDirFails(c)
  BY <1>22 DEF SyncDirFails, Abandon
<1>23. CASE Discard(c)
  BY <1>23 DEF Discard
<1>24. CASE CloseSource(c)
  BY <1>24 DEF CloseSource, CloseStatus, Unlocked
<1>25. CASE CloseMonitor(c)
  BY <1>25 DEF CloseMonitor, CloseStatus, Unlocked
<1> QED BY <1>1, <1>2, <1>3, <1>4, <1>5, <1>6, <1>7, <1>8, <1>9, <1>10, <1>11, <1>12, <1>13,
           <1>14, <1>15, <1>16, <1>17, <1>18, <1>19, <1>20, <1>21, <1>22, <1>23, <1>24, <1>25 DEF CallStep, Progress

(* A call that closes its source leaves no lock behind it. *)
LEMMA CloseLockInv ==
    ASSUME TypeOK, LockInv, NEW c \in Calls, fd[c] \in Inodes, fd' = fd,
           lock' = Unlocked(ProcOf[c], fd[c]),
           \A d \in Calls \ {c} : pc'[d] = pc[d]
    PROVE  LockInv'
<1> SUFFICES ASSUME NEW i \in Inodes, lock'[i] # None
             PROVE  \E d \in Calls : ProcOf[d] = lock'[i] /\ fd[d] = i /\ pc'[d] \in Holding
  BY DEF LockInv
<1>1. lock'[i] = lock[i] /\ (i = fd[c] => lock[i] # ProcOf[c])
  BY DEF Unlocked, TypeOK
<1>2. PICK d \in Calls : ProcOf[d] = lock[i] /\ fd[d] = i /\ pc[d] \in Holding
  BY <1>1 DEF LockInv
<1>3. d # c
  BY <1>1, <1>2
<1> QED BY <1>1, <1>2, <1>3

LEMMA CallLockInv ==
    ASSUME TypeOK, LockInv, NEW c \in Calls, CallStep(c) PROVE LockInv'
<1> USE DEF TypeOK, fsvars, callvars, At, Goto, LockInv, Holding, OpenSteps
<1>1. CASE LstatSource(c)
  BY <1>1 DEF LstatSource
<1>2. CASE LstatRejects(c)
  BY <1>2 DEF LstatRejects, Return
<1>3. CASE OpenSource(c)
  BY <1>3 DEF OpenSource
<1>4. CASE OpenFails(c)
  BY <1>4 DEF OpenFails, Return
<1>5. CASE LockSource(c)
  BY <1>5 DEF LockSource
<1>6. CASE LockFails(c)
  <2>1. /\ fd[c] \in Inodes /\ fd' = fd /\ lock' = Unlocked(ProcOf[c], fd[c])
        /\ \A d \in Calls \ {c} : pc'[d] = pc[d]
    BY <1>6 DEF LockFails, CloseAndReturn, Return
  <2> QED BY <2>1, CloseLockInv
<1>7. CASE InspectSource(c)
  BY <1>7 DEF InspectSource
<1>8. CASE InspectRejects(c)
  <2>1. /\ fd[c] \in Inodes /\ fd' = fd /\ lock' = Unlocked(ProcOf[c], fd[c])
        /\ \A d \in Calls \ {c} : pc'[d] = pc[d]
    BY <1>8 DEF InspectRejects, CloseAndReturn, Return
  <2> QED BY <2>1, CloseLockInv
<1>9. CASE CreateTemp(c)
  BY <1>9 DEF CreateTemp
<1>10. CASE CreateTempFails(c)
  <2>1. /\ fd[c] \in Inodes /\ fd' = fd /\ lock' = Unlocked(ProcOf[c], fd[c])
        /\ \A d \in Calls \ {c} : pc'[d] = pc[d]
    BY <1>10 DEF CreateTempFails, CloseAndReturn, Return
  <2> QED BY <2>1, CloseLockInv
<1>11. CASE FilterStart(c)
  BY <1>11 DEF FilterStart, Unlocked
<1>12. CASE FilterRest(c)
  BY <1>12 DEF FilterRest
<1>13. CASE FilterFails(c)
  BY <1>13 DEF FilterFails, Abandon
<1>14. CASE FlushTemp(c)
  BY <1>14 DEF FlushTemp
<1>15. CASE SyncTemp(c)
  BY <1>15 DEF SyncTemp
<1>16. CASE TempIoFails(c)
  BY <1>16 DEF TempIoFails, Abandon
<1>17. CASE CheckSource(c)
  BY <1>17 DEF CheckSource
<1>18. CASE CheckRejects(c)
  BY <1>18 DEF CheckRejects, Abandon
<1>19. CASE RenameTemp(c)
  BY <1>19 DEF RenameTemp
<1>20. CASE RenameFails(c)
  BY <1>20 DEF RenameFails, Abandon
<1>21. CASE SyncDir(c)
  BY <1>21 DEF SyncDir
<1>22. CASE SyncDirFails(c)
  BY <1>22 DEF SyncDirFails, Abandon
<1>23. CASE Discard(c)
  BY <1>23 DEF Discard
<1>24. CASE CloseSource(c)
  <2>1. /\ fd[c] \in Inodes /\ fd' = fd /\ lock' = Unlocked(ProcOf[c], fd[c])
        /\ \A d \in Calls \ {c} : pc'[d] = pc[d]
    BY <1>24 DEF CloseSource, CloseStatus
  <2> QED BY <2>1, CloseLockInv
<1>25. CASE CloseMonitor(c)
  <2>1. /\ fd[c] \in Inodes /\ fd' = fd /\ lock' = Unlocked(ProcOf[c], fd[c])
        /\ \A d \in Calls \ {c} : pc'[d] = pc[d]
    BY <1>25 DEF CloseMonitor, CloseStatus
  <2> QED BY <2>1, CloseLockInv
<1> QED BY <1>1, <1>2, <1>3, <1>4, <1>5, <1>6, <1>7, <1>8, <1>9, <1>10, <1>11, <1>12, <1>13,
           <1>14, <1>15, <1>16, <1>17, <1>18, <1>19, <1>20, <1>21, <1>22, <1>23, <1>24, <1>25 DEF CallStep, Progress

LEMMA NextExitInv == ExitInv /\ [Next]_vars => ExitInv'
<1> SUFFICES ASSUME ExitInv, [Next]_vars PROVE TempInv' /\ LockInv'
  BY NextTypeOK DEF ExitInv
<1> USE DEF ExitInv
<1>1. CASE \E c \in Calls : CallStep(c)
  BY <1>1, CallTempInv, CallLockInv
<1>2. ASSUME NEW r \in Readers, ReaderStep(r) PROVE TempInv' /\ LockInv'
  <2>1. /\ temps' = temps /\ pc' = pc /\ fd' = fd
        /\ \A i \in Inodes : lock'[i] \in {lock[i], None}
    BY <1>2 DEF ReaderStep, ReaderOpen, ReaderRead, ReaderRest, ReaderClose, Unlocked,
                TypeOK, fsvars, callvars
  <2> QED BY <2>1 DEF TempInv, LockInv
<1>3. CASE (\E w \in Writers : ForeignWrite(w)) \/ (\E f \in Replacers : ForeignReplace(f))
  BY <1>3 DEF ForeignWrite, ForeignReplace, callvars, TempInv, LockInv
<1>4. ASSUME NEW p \in Procs, Kill(p) PROVE TempInv' /\ LockInv'
  <2>1. \A c \in Calls : pc'[c] = pc[c] \/ pc'[c] = "dead"
    BY <1>4 DEF Kill
  <2>2. TempInv'
    BY <1>4, <2>1 DEF Kill, TempInv, TempSteps, TypeOK
  <2>3. LockInv'
    <3> SUFFICES ASSUME NEW i \in Inodes, lock'[i] # None
                 PROVE  \E c \in Calls : ProcOf[c] = lock'[i] /\ fd'[c] = i /\ pc'[c] \in Holding
      BY DEF LockInv
    <3>1. lock'[i] = lock[i] /\ lock[i] # p /\ fd' = fd
      BY <1>4 DEF Kill
    <3>2. PICK c \in Calls : ProcOf[c] = lock[i] /\ fd[c] = i /\ pc[c] \in Holding
      BY <3>1 DEF LockInv
    <3>3. pc'[c] = pc[c]
      BY <1>4, <3>1, <3>2 DEF Kill
    <3> QED BY <3>1, <3>2, <3>3
  <2> QED BY <2>2, <2>3
<1>5. CASE Crash
  <2>1. \A c \in Calls : pc'[c] = pc[c] \/ pc'[c] = "dead"
    BY <1>5 DEF Crash
  <2> QED BY <1>5, <2>1 DEF Crash, TempInv, TempSteps, TypeOK, LockInv
<1>6. CASE UNCHANGED vars
  BY <1>6 DEF vars, fsvars, callvars, TempInv, LockInv
<1> QED BY <1>1, <1>2, <1>3, <1>4, <1>5, <1>6 DEF Next, Finished

LEMMA ExitInvariant == Spec => []ExitInv
<1>1. Init => ExitInv
  BY InitTypeOK DEF Init, ExitInv, TempInv, LockInv
<1> QED BY <1>1, NextExitInv, PTL DEF Spec

(* Whichever way a call returns, its temporary name is gone: every error     *)
(* exit after mkstemp goes through the unlink, and a rename takes the name   *)
(* away; only a killed call leaves one.                                      *)
THEOREM ReturnedCallsAreClean == Spec => []ReturnedCallsLeaveNoTemp
<1>1. ExitInv => ReturnedCallsLeaveNoTemp
  BY DEF ExitInv, TempInv, TempSteps, ReturnedCallsLeaveNoTemp
<1> QED BY <1>1, ExitInvariant, PTL

(* No way out of a call leaves the source locked, for threads of one process *)
(* and mutations that read the rewritten file too: a lock has a holder with  *)
(* its close still to come.                                                  *)
THEOREM LocksAreClosed == Spec => []LocksHaveOwners
<1>1. ExitInv => LocksHaveOwners
  BY DEF ExitInv, LockInv, LocksHaveOwners, Holding, OpenSteps, Running
<1> QED BY <1>1, ExitInvariant, PTL

-----------------------------------------------------------------------------
LEMMA CallSettledInv ==
    ASSUME TypeOK, SettledInv, NEW c \in Calls, CallStep(c) PROVE SettledInv'
<1>1. CallEffect(c)
  BY CallHasEffect
<1>2. \A i \in Inodes : Settled(i) => Settled(i)'
  BY <1>1 DEF CallEffect, Settled
<1>3. pc'[c] = "syncdir" => Settled(c)'
  BY DEF Settled, Uncommitted
<1>4. path' \in entries' /\ \A i \in entries' : Settled(i)'
  <2>1. \/ path' = path /\ entries' \in {entries, {path}}
        \/ pc'[c] = "syncdir" /\ path' = c /\ entries' = entries \cup {c}
    BY <1>1, Zenon DEF CallEffect
  <2>2. path \in entries /\ \A i \in entries : Settled(i)'
    BY <1>2 DEF SettledInv, TypeOK
  <2> QED BY <1>3, <2>1, <2>2
<1>5. ASSUME NEW d \in Calls, fd'[d] # None PROVE Settled(fd[d])'
  <2>1. fd'[d] = fd[d] \/ fd'[d] = path
    BY <1>1 DEF CallEffect
  <2>2. path \in Inodes /\ Settled(path)
    BY DEF SettledInv, TypeOK
  <2>3. fd'[d] = fd[d] => fd'[d] \in Inodes /\ Settled(fd[d])
    BY <1>5 DEF SettledInv, TypeOK
  <2>4. PICK i \in Inodes : i = fd'[d] /\ Settled(i)
    BY <2>1, <2>2, <2>3
  <2>5. Settled(i)'
    BY <1>2, <2>4
  <2> QED BY <2>4, <2>5 DEF Settled
<1>6. \A d \in Calls : fd'[d] # None => Settled(fd[d])'
  BY <1>5
<1> QED BY <1>4, <1>6, Zenon DEF SettledInv

(* A step of one call keeps the other calls' copies faithful: it writes no   *)
(* settled inode, and stamps only grow.                                      *)
LEMMA CallStampInv ==
    ASSUME TypeOK, SettledInv, StampInv, NEW c \in Calls, CallStep(c), TypeOK'
    PROVE  StampInv'
<1>1. CallEffect(c) /\ CallReads(c)
  BY CallHasEffect, CallHasReads
<1>2. \A i \in Inodes : stamp'[i] \in {stamp[i], stamp[i] + 1}
  <2>1. stamp' = stamp \/ stamp' = [stamp EXCEPT ![path] = @ + 1]
    BY <1>1, Zenon DEF CallEffect
  <2>2. stamp \in [Inodes -> Nat] /\ path \in Inodes
    BY DEF TypeOK
  <2> QED BY <2>1, <2>2
<1>3. \A i \in Inodes : Settled(i) => content'[i] = content[i]
  <2>1. pc[c] \in {"temp", "copy"} => ~Settled(c)
    BY DEF Settled, Uncommitted
  <2> QED BY <1>1, <2>1 DEF CallEffect
<1> SUFFICES ASSUME NEW d \in Calls PROVE
        /\ pc'[d] \in {"temp", "filter", "copy", "flush", "sync", "check"} =>
              snap'[d] <= stamp'[fd'[d]]
        /\ pc'[d] = "copy" /\ snap'[d] = stamp'[fd'[d]] => got'[d] = content'[fd'[d]]
        /\ pc'[d] \in {"flush", "sync", "check"} /\ snap'[d] = stamp'[fd'[d]] =>
              content'[d] = Append(content'[fd'[d]], d)
  BY DEF StampInv
<1>4. CASE d # c
  <2>1. d \in Inodes /\ pc'[d] = pc[d] /\ fd'[d] = fd[d] /\ snap'[d] = snap[d] /\ got'[d] = got[d]
        /\ content'[d] = content[d]
    BY <1>1, <1>4 DEF CallEffect, Inodes
  <2>2. CASE pc[d] \in {"temp", "filter", "copy", "flush", "sync", "check"}
    <3>1. fd[d] \in Inodes /\ content'[fd[d]] = content[fd[d]]
      BY <1>3, <2>2 DEF SettledInv, TypeOK, OpenSteps
    <3>2. snap[d] \in Nat /\ stamp[fd[d]] \in Nat /\ snap[d] <= stamp[fd[d]]
      BY <2>2, <3>1 DEF StampInv, TypeOK
    <3>3. snap[d] = stamp'[fd[d]] => snap[d] = stamp[fd[d]]
      BY <1>2, <3>1, <3>2
    <3>4. snap[d] <= stamp'[fd[d]]
      BY <1>2, <3>1, <3>2
    <3> QED BY <2>1, <2>2, <3>1, <3>3, <3>4 DEF StampInv
  <2> QED BY <2>1, <2>2
<1>5. CASE d = c
  <2>1. CASE pc'[c] \in {"temp", "filter", "copy", "flush", "sync", "check"}
    <3>1. fd'[c] = fd[c] /\ stamp' = stamp
      BY <1>1, <2>1 DEF CallReads
    <3>2. fd[c] \in Inodes /\ content'[fd[c]] = content[fd[c]]
      BY <1>3, <2>1, <3>1 DEF SettledInv, TypeOK, OpenSteps
    <3>3. stamp[fd[c]] \in Nat
      BY <3>2 DEF TypeOK
    <3>4. CASE pc'[c] = "temp"
      BY <1>1, <1>5, <3>1, <3>3, <3>4 DEF CallReads
    <3>5. CASE pc'[c] = "filter"
      BY <1>1, <1>5, <3>1, <3>5 DEF CallReads, StampInv
    <3>6. CASE pc'[c] = "copy"
      BY <1>1, <1>5, <3>1, <3>2, <3>6 DEF CallReads, StampInv
    <3>7. CASE pc'[c] = "flush"
      BY <1>1, <1>5, <3>1, <3>2, <3>7 DEF CallReads, StampInv, ReadRest
    <3>8. CASE pc'[c] \in {"sync", "check"}
      <4>1. content' = content
        BY <1>1, <3>8 DEF CallReads, CallEffect
      <4> QED BY <1>1, <1>5, <3>1, <3>8, <4>1 DEF CallReads, StampInv
    <3> QED BY <2>1, <3>4, <3>5, <3>6, <3>7, <3>8
  <2> QED BY <1>5, <2>1
<1> QED BY <1>4, <1>5

(* A step outside the calls that writes only the file at the path, and       *)
(* raises its stamp when it does, keeps every call's copy faithful.          *)
LEMMA OtherStampInv ==
    ASSUME TypeOK, SettledInv, StampInv, fd' = fd, snap' = snap, got' = got,
           \A c \in Calls : pc'[c] = pc[c] \/ pc'[c] = "dead",
           \A i \in Inodes : \/ stamp'[i] = stamp[i] + 1
                             \/ stamp'[i] = stamp[i] /\ content'[i] = content[i],
           \A i \in Inodes : i # path => content'[i] = content[i]
    PROVE  StampInv'
<1> SUFFICES ASSUME NEW c \in Calls, pc'[c] \in {"temp", "filter", "copy", "flush", "sync", "check"}
             PROVE  /\ snap[c] <= stamp'[fd[c]]
                    /\ pc'[c] = "copy" /\ snap[c] = stamp'[fd[c]] => got[c] = content'[fd[c]]
                    /\ pc'[c] \in {"flush", "sync", "check"} /\ snap[c] = stamp'[fd[c]] =>
                          content'[c] = Append(content'[fd[c]], c)
  BY DEF StampInv
<1>1. pc'[c] = pc[c]
  OBVIOUS
<1>2. fd[c] \in Inodes /\ snap[c] \in Nat /\ stamp[fd[c]] \in Nat /\ snap[c] <= stamp[fd[c]]
  BY <1>1 DEF TypeOK, OpenSteps, StampInv
<1>3. content'[c] = content[c]
  <2>1. c \in Inodes /\ ~Settled(c) /\ Settled(path)
    BY <1>1 DEF Inodes, Settled, Uncommitted, SettledInv
  <2> QED BY <2>1
<1>4. CASE stamp'[fd[c]] = stamp[fd[c]] + 1
  BY <1>2, <1>4
<1>5. CASE stamp'[fd[c]] = stamp[fd[c]] /\ content'[fd[c]] = content[fd[c]]
  BY <1>1, <1>2, <1>3, <1>5 DEF StampInv
<1> QED BY <1>2, <1>4, <1>5

LEMMA NextCheckInv == CheckInv /\ [Next]_vars => CheckInv'
<1> SUFFICES ASSUME CheckInv, [Next]_vars PROVE SettledInv' /\ StampInv'
  BY NextTypeOK DEF CheckInv
<1>0. TypeOK'
  BY NextTypeOK DEF CheckInv
<1> USE DEF CheckInv
<1>1. CASE \E c \in Calls : CallStep(c)
  BY <1>0, <1>1, CallSettledInv, CallStampInv
<1>2. ASSUME NEW r \in Readers, ReaderStep(r) PROVE SettledInv' /\ StampInv'
  <2>1. UNCHANGED <<path, entries, content, stamp, pc, fd, snap, got>>
    BY <1>2 DEF ReaderStep, ReaderOpen, ReaderRead, ReaderRest, ReaderClose, fsvars, callvars
  <2> QED BY <2>1 DEF SettledInv, Settled, StampInv
<1>3. ASSUME NEW w \in Writers, ForeignWrite(w) PROVE SettledInv' /\ StampInv'
  <2>1. /\ UNCHANGED <<path, entries, pc, fd, snap, got>>
        /\ stamp' = [stamp EXCEPT ![path] = @ + 1]
        /\ content' = [content EXCEPT ![path] = Append(@, w)]
    BY <1>3 DEF ForeignWrite, callvars
  <2>2. SettledInv'
    BY <2>1 DEF SettledInv, Settled
  <2>3. /\ \A i \in Inodes : \/ stamp'[i] = stamp[i] + 1
                             \/ stamp'[i] = stamp[i] /\ content'[i] = content[i]
        /\ \A i \in Inodes : i # path => content'[i] = content[i]
    BY <2>1 DEF TypeOK
  <2>4. StampInv'
    BY <2>1, <2>3, OtherStampInv
  <2> QED BY <2>2, <2>4
<1>4. ASSUME NEW f \in Replacers, ForeignReplace(f) PROVE SettledInv' /\ StampInv'
  <2>1. /\ UNCHANGED <<content, pc, fd, snap, got>> /\ path' = f /\ entries' = entries \cup {f}
        /\ stamp' = [stamp EXCEPT ![path] = @ + 1]
    BY <1>4 DEF ForeignReplace, callvars
  <2>2. Settled(f)'
    BY DEF Settled
  <2>3. SettledInv'
    BY <2>1, <2>2 DEF SettledInv, Settled
  <2>4. /\ \A i \in Inodes : \/ stamp'[i] = stamp[i] + 1
                             \/ stamp'[i] = stamp[i] /\ content'[i] = content[i]
        /\ \A i \in Inodes : i # path => content'[i] = content[i]
    BY <2>1 DEF TypeOK
  <2>5. StampInv'
    BY <2>1, <2>4, OtherStampInv
  <2> QED BY <2>3, <2>5
<1>5. ASSUME NEW p \in Procs, Kill(p) PROVE SettledInv' /\ StampInv'
  <2>1. UNCHANGED <<path, entries, content, stamp, fd, snap, got>>
    BY <1>5 DEF Kill
  <2>2. \A c \in Calls : pc'[c] = pc[c] \/ pc'[c] = "dead"
    BY <1>5 DEF Kill
  <2>3. \A i : Settled(i) => Settled(i)'
    BY <2>2 DEF Settled, Uncommitted
  <2>4. SettledInv'
    BY <2>1, <2>3 DEF SettledInv
  <2>5. StampInv'
    BY <2>1, <2>2, OtherStampInv
  <2> QED BY <2>4, <2>5
<1>6. CASE Crash
  <2>1. \A c \in Calls : pc'[c] = "dead" \/ (pc'[c] = pc[c] /\ pc[c] \in {"lstat", "done", "dead"})
    BY <1>6 DEF Crash, Running
  <2>2. \A i : Settled(i) => Settled(i)'
    BY <2>1 DEF Settled, Uncommitted
  <2>3. SettledInv'
    BY <1>6, <2>2 DEF Crash, SettledInv
  <2>4. StampInv'
    BY <2>1 DEF StampInv
  <2> QED BY <2>3, <2>4
<1>7. CASE UNCHANGED vars
  BY <1>7 DEF vars, fsvars, callvars, SettledInv, Settled, StampInv
<1> QED BY <1>1, <1>2, <1>3, <1>4, <1>5, <1>6, <1>7 DEF Next, Finished

LEMMA CheckInvariant == Spec => []CheckInv
<1>1. Init => CheckInv
  <2> SUFFICES ASSUME Init PROVE SettledInv /\ StampInv
    BY InitTypeOK DEF CheckInv
  <2>1. SettledInv
    BY DEF Init, SettledInv, Settled
  <2>2. \A c \in Calls : pc[c] = "lstat"
    BY DEF Init
  <2>3. StampInv
    BY <2>2 DEF StampInv
  <2> QED BY <2>1, <2>3
<1> QED BY <1>1, NextCheckInv, PTL DEF Spec

(* The identity check is worth what it says against anybody: when a call     *)
(* passes inline_source_path_still_matches, its replacement was made from    *)
(* what the path holds at that moment, whatever threads, programs that take  *)
(* no lock, replacements and failures came before.                           *)
THEOREM PassedCheckIsCurrent == Spec => CheckedReplacementIsCurrent
<1>1. CheckInv /\ [Next]_vars =>
        [\A c \in Calls : pc[c] = "check" /\ pc'[c] = "rename" =>
              content[c] = Append(content[path], c)]_vars
  <2> SUFFICES ASSUME CheckInv, Next, NEW c \in Calls, pc[c] = "check", pc'[c] = "rename"
               PROVE  content[c] = Append(content[path], c)
    OBVIOUS
  <2> USE DEF CheckInv, TypeOK
  <2>1. \E d \in Calls : CallStep(d)
    <3> HIDE DEF CheckInv
    <3>0. pc'[c] # pc[c] /\ pc'[c] # "dead" /\ pc \in [Calls -> Steps]
      BY DEF CheckInv
    <3>1. CASE \E r \in Readers : ReaderStep(r)
      BY <3>0, <3>1, Zenon DEF ReaderStep, ReaderOpen, ReaderRead, ReaderRest, ReaderClose, callvars
    <3>2. CASE \E w \in Writers \cup Replacers : ForeignWrite(w) \/ ForeignReplace(w)
      BY <3>0, <3>2, Zenon DEF ForeignWrite, ForeignReplace, callvars
    <3>3. CASE (\E p \in Procs : Kill(p)) \/ Crash
      BY <3>0, <3>3, Zenon DEF Kill, Crash
    <3>4. CASE Finished
      BY <3>0, <3>4, Zenon DEF Finished, vars, callvars
    <3>5. \A w : w \in Writers \/ w \in Replacers => w \in Writers \cup Replacers
      BY Zenon
    <3> QED BY <3>1, <3>2, <3>3, <3>4, <3>5, Zenon DEF Next
  <2>2. PICK d \in Calls : CallStep(d)
    BY <2>1
  <2>3. d = c
    BY <2>2, CallHasEffect DEF CallEffect
  <2>4. CheckSource(c)
    BY <2>2, <2>3 DEF CallStep, Progress, At, Goto, Return, CloseAndReturn, Abandon,
         LstatSource, LstatRejects, OpenSource, OpenFails, LockSource, LockFails, InspectSource,
         InspectRejects, CreateTemp, CreateTempFails, FilterStart, FilterRest, FilterFails,
         FlushTemp, SyncTemp, TempIoFails, CheckRejects, RenameTemp, RenameFails, SyncDir,
         SyncDirFails, Discard, CloseSource, CloseMonitor
  <2>5. path = fd[c] /\ snap[c] = stamp[fd[c]]
    BY <2>4 DEF CheckSource, StillMatches
  <2> QED BY <2>5 DEF StampInv
<1> QED BY <1>1, CheckInvariant, PTL DEF Spec, CheckedReplacementIsCurrent

-----------------------------------------------------------------------------
LEMMA InitReaderInv == Init => ReaderInv
BY DEF Init, ReaderInv

(* A step that leaves the readers alone and writes no frozen inode. *)
LEMMA OtherReaderInv ==
    ASSUME TypeOK, ReaderInv, rfd' = rfd, rgot' = rgot,
           \A r \in Readers : rpc'[r] = rpc[r] \/ rpc'[r] = "dead",
           \A i \in Inodes : Frozen(i) => Frozen(i)' /\ content'[i] = content[i]
    PROVE  ReaderInv'
<1> SUFFICES ASSUME NEW r \in Readers, rpc'[r] = rpc[r]
             PROVE  /\ rpc[r] \in {"read", "rest", "close"} =>
                          Frozen(rfd[r])' /\ Torn \notin Elems(content'[rfd[r]])
                    /\ rpc[r] = "rest" => rgot[r] = content'[rfd[r]]
                    /\ rpc[r] \in {"close", "done"} => Torn \notin Elems(rgot[r])
  BY DEF ReaderInv, EditsOf
<1>1. CASE rpc[r] \in {"read", "rest", "close"}
  <2>1. rfd[r] \in Inodes /\ Frozen(rfd[r]) /\ Torn \notin Elems(content[rfd[r]])
    BY <1>1 DEF TypeOK, ReaderInv, EditsOf
  <2>2. Frozen(rfd[r])' /\ content'[rfd[r]] = content[rfd[r]]
    BY <2>1
  <2> QED BY <1>1, <2>1, <2>2 DEF ReaderInv
<1> QED BY <1>1 DEF ReaderInv

LEMMA NextReaderInv ==
    ASSUME Cooperative PROVE InlineInv /\ ReaderInv /\ [Next]_vars => ReaderInv'
<1> SUFFICES ASSUME InlineInv, ReaderInv, [Next]_vars PROVE ReaderInv'
  OBVIOUS
<1>0. TypeOK
  BY DEF InlineInv
<1>1. ASSUME NEW c \in Calls, CallStep(c) PROVE ReaderInv'
  <2>1. CallEffect(c)
    BY <1>0, <1>1, CallHasEffect
  <2>2. rfd' = rfd /\ rgot' = rgot /\ rpc' = rpc
    BY <2>1 DEF CallEffect, readvars
  <2>3. Frozen(c) => pc[c] \notin {"temp", "copy"}
    BY DEF Frozen, Uncommitted
  <2>4. \A i \in Inodes : Frozen(i) => Frozen(i)' /\ content'[i] = content[i]
    BY <2>1, <2>3 DEF CallEffect, Frozen
  <2> QED BY <1>0, <2>2, <2>4, OtherReaderInv
<1>2. ASSUME NEW r \in Readers, ReaderStep(r) PROVE ReaderInv'
  <2>1. /\ UNCHANGED <<path, entries, content, pc>>
        /\ \A s \in Readers \ {r} : rpc'[s] = rpc[s] /\ rfd'[s] = rfd[s] /\ rgot'[s] = rgot[s]
    BY <1>0, <1>2 DEF ReaderStep, ReaderOpen, ReaderRead, ReaderRest, ReaderClose, fsvars,
                      callvars, TypeOK
  <2> SUFFICES
        /\ rpc'[r] \in {"read", "rest", "close"} =>
              Frozen(rfd'[r]) /\ Torn \notin EditsOf(rfd'[r])
        /\ rpc'[r] = "rest" => rgot'[r] = content[rfd'[r]]
        /\ rpc'[r] \in {"close", "done"} => Torn \notin Elems(rgot'[r])
    BY <2>1 DEF ReaderInv, Frozen, EditsOf
  <2>2. CASE ReaderOpen(r)
    BY <1>0, <2>2 DEF ReaderOpen, TypeOK, InlineInv, PathAlwaysComplete, OpenFilesFrozen
  <2>3. CASE ReaderRead(r)
    BY <1>0, <2>3 DEF ReaderRead, TypeOK, ReaderInv
  <2>4. CASE ReaderRest(r)
    BY <1>0, <2>4 DEF ReaderRest, ReadRest, TypeOK, ReaderInv, EditsOf
  <2>5. CASE ReaderClose(r)
    BY <1>0, <2>5 DEF ReaderClose, TypeOK, ReaderInv
  <2> QED BY <1>2, <2>2, <2>3, <2>4, <2>5 DEF ReaderStep
<1>3. ASSUME NEW p \in Procs, Kill(p) PROVE ReaderInv'
  <2>1. /\ rfd' = rfd /\ rgot' = rgot /\ content' = content
        /\ \A r \in Readers : rpc'[r] = rpc[r] \/ rpc'[r] = "dead"
        /\ \A c \in Calls : pc'[c] = pc[c] \/ pc'[c] = "dead"
    BY <1>3 DEF Kill
  <2>2. \A i \in Inodes : Frozen(i) => Frozen(i)'
    BY <2>1 DEF Frozen, Uncommitted
  <2> QED BY <1>0, <2>1, <2>2, OtherReaderInv
<1>4. CASE Crash
  <2>1. /\ rgot' = rgot
        /\ \A r \in Readers : rpc'[r] = "dead" \/ (rpc'[r] = rpc[r] /\ rpc[r] \in {"open", "done", "dead"})
    BY <1>4 DEF Crash, ReaderRunning
  <2> QED BY <2>1 DEF ReaderInv
<1>5. CASE UNCHANGED vars
  BY <1>5 DEF vars, fsvars, callvars, readvars, ReaderInv, Frozen, EditsOf
<1>6. Writers = {} /\ Replacers = {}
  BY DEF Cooperative
<1> QED BY <1>1, <1>2, <1>3, <1>4, <1>5, <1>6 DEF Next, Finished

(* A filter_file_spooled that runs next to cooperating rewrites reads one    *)
(* complete version of the file, however many rewrites are committed, fail   *)
(* or are killed while it reads: a rename changes the path, never the inode  *)
(* the reader has open.                                                      *)
THEOREM ReadersReadOneVersion ==
    ASSUME Cooperative PROVE Spec => []ReadersSeeOneVersion
<1>1. InlineInv /\ ReaderInv /\ [Next]_vars => ReaderInv'
  BY NextReaderInv
<1>2. ReaderInv => ReadersSeeOneVersion
  BY DEF ReaderInv, ReadersSeeOneVersion
<1>3. Spec => []InlineInv
  BY InlineInvariant
<1> QED BY <1>1, <1>2, <1>3, InitReaderInv, PTL DEF Spec

=============================================================================
