---------------------------- MODULE CuratedMemory ----------------------------
(***************************************************************************)
(* The curated memory file that several processes share                    *)
(* (src/src/memory/CuratedMemoryStore.cpp): each keeps a list of its own,  *)
(* tests an entry against it, takes the lock of the file, reads the file   *)
(* anew, and replaces it by renaming a temporary file.  Writing may fail,  *)
(* and a process may die between any two steps and start again.            *)
(*                                                                         *)
(* One of the two files; an entry is a value with a size.                  *)
(***************************************************************************)
EXTENDS Integers, Sequences, FiniteSets, SequencesExt

CONSTANTS
  CurProcesses,  \* processes with the file open
  CurEntries,    \* entries
  CurSize,       \* size of each entry, a function
  CurLimit,      \* memory_char_limit
  CurShortWrites, \* whether the disk may fill up while the temporary file is written
  CurMaxOps,     \* bound: operations
  CurMaxCrashes  \* bound: crashes

ASSUME CurAssumption ==
  /\ {CurLimit, CurMaxOps, CurMaxCrashes} \subseteq Nat /\ CurShortWrites \in BOOLEAN
  /\ "none" \notin CurProcesses

VARIABLES
  curFile,     \* entries of the file
  curTmp,      \* entries of the temporary file
  curList,     \* memory_entries_ of each process
  curCall,     \* operation of each process: [op, entries, pc]; remove takes away the
               \* first of the entries that hold its substring
  curLock,     \* process holding the flock, or "none"
  curSaved,    \* entries whose add has written them and no remove has taken since
  curOps, curCrashes  \* operations begun, crashes

curVars == <<curFile, curTmp, curList, curCall, curLock, curSaved, curOps, curCrashes>>

CurIdle == [op |-> "none", entries |-> {}, pc |-> "idle"]
CurGoWith(p, call) == curCall' = [curCall EXCEPT ![p] = call]
CurGo(p, pc) == curCall' = [curCall EXCEPT ![p].pc = pc]
CurDone(p) == CurGoWith(p, CurIdle)
CurAt(p, pc) == curCall[p].pc = pc

CurTotal(list) == FoldSeq(LAMBDA e, n : CurSize[e] + n, 0, list)

\* Tested before the lock: the list may be older than the file.
CurTooLong(list, entry) ==
  CurSize[entry] + CurTotal(list) + (IF list = <<>> THEN 0 ELSE 2) > CurLimit

\* open() when the process starts; nothing reads the file again but add and remove.
CurOpen(p) == curList' = [curList EXCEPT ![p] = curFile]

CurBegin(p, op, entries) ==
  /\ curCall[p] = CurIdle /\ curOps < CurMaxOps
  /\ curOps' = curOps + 1
  /\ CurGoWith(p, [op |-> op, entries |-> entries, pc |-> "lock"])
  /\ UNCHANGED <<curFile, curTmp, curList, curLock, curSaved, curCrashes>>

\* An entry the list has is not added, one that is too much is refused.
CurAdd(p, entry) ==
  /\ ~Contains(curList[p], entry) /\ ~CurTooLong(curList[p], entry)
  /\ CurBegin(p, "add", {entry})

CurRemove(p, entries) == CurBegin(p, "remove", entries)

\* The memory tool's targets "user" and "memory"; entries() is a copy of the list.
CurMemoryTool(p) ==
  \/ \E e \in CurEntries : CurAdd(p, e)
  \/ \E S \in SUBSET CurEntries : CurRemove(p, S)

\* The kernel drops the lock of a process that dies.
FileLock(p, valid) ==
  /\ CurAt(p, "lock")
  /\ valid => curLock = "none"
  /\ curLock' = IF valid THEN p ELSE curLock
  /\ IF valid THEN CurGo(p, "read") ELSE CurDone(p)
  /\ UNCHANGED <<curFile, curTmp, curList, curSaved, curOps, curCrashes>>

\* The change of a list, if there is one.
CurHits(list, c) == {i \in DOMAIN list : list[i] \in c.entries}
CurChanged(list, c) ==
  IF c.op = "add"
  THEN IF CurHits(list, c) = {} THEN Append(list, CHOOSE e \in c.entries : TRUE) ELSE list
  ELSE IF CurHits(list, c) = {} THEN list ELSE RemoveAt(list, Min(CurHits(list, c)))

\* Faulty variant: the list that is changed was read before the lock.
CurReadStale(p) ==
  LET list == CurChanged(curList[p], curCall[p])
  IN /\ CurAt(p, "read")
     /\ curList' = [curList EXCEPT ![p] = list]
     /\ CurGo(p, IF list # curFile THEN "write" ELSE "unlock")
     /\ UNCHANGED <<curFile, curTmp, curLock, curSaved, curOps, curCrashes>>

\* read_file under the lock, then the change of what it has read.
CurRead(p) ==
  LET list == CurChanged(curFile, curCall[p])
  IN /\ CurAt(p, "read")
     /\ curList' = [curList EXCEPT ![p] = list]
     /\ CurGo(p, IF list # curFile THEN "write" ELSE "unlock")
     /\ UNCHANGED <<curFile, curTmp, curLock, curSaved, curOps, curCrashes>>

\* write_file opens the temporary file; what it writes into it is not checked.
CurWriteFile(p, opened) ==
  /\ CurAt(p, "write")
  /\ IF opened
     THEN /\ \E n \in IF CurShortWrites THEN 0..Len(curList[p]) ELSE {Len(curList[p])} :
               curTmp' = SubSeq(curList[p], 1, n)
          /\ CurGo(p, "rename")
     ELSE UNCHANGED curTmp /\ CurGo(p, "unlock")
  /\ UNCHANGED <<curFile, curList, curLock, curSaved, curOps, curCrashes>>

CurRename(p, renamed) ==
  /\ CurAt(p, "rename")
  /\ IF renamed
     THEN /\ curFile' = curTmp
          /\ curSaved' = IF curCall[p].op = "add" THEN curSaved \cup curCall[p].entries
                         ELSE curSaved \ (ToSet(curFile) \ ToSet(curList[p]))
     ELSE UNCHANGED <<curFile, curSaved>>
  /\ CurGo(p, "unlock")
  /\ UNCHANGED <<curTmp, curList, curLock, curOps, curCrashes>>

CurUnlock(p) ==
  /\ CurAt(p, "unlock")
  /\ curLock' = "none"
  /\ CurDone(p)
  /\ UNCHANGED <<curFile, curTmp, curList, curSaved, curOps, curCrashes>>

\* The process dies and is started again: open() reads the file.
CurCrash(p) ==
  /\ curCrashes < CurMaxCrashes /\ curCall[p] # CurIdle
  /\ curCrashes' = curCrashes + 1
  /\ curLock' = IF curLock = p THEN "none" ELSE curLock
  /\ CurDone(p)
  /\ CurOpen(p)
  /\ UNCHANGED <<curFile, curTmp, curSaved, curOps>>

CurInit ==
  /\ curFile = <<>> /\ curTmp = <<>>
  /\ curList = [p \in CurProcesses |-> <<>>]
  /\ curCall = [p \in CurProcesses |-> CurIdle]
  /\ curLock = "none" /\ curSaved = {} /\ curOps = 0 /\ curCrashes = 0

CurNext ==
  \E p \in CurProcesses :
    \/ CurMemoryTool(p)
    \/ CurRead(p) \/ CurUnlock(p) \/ CurCrash(p)
    \/ \E ok \in BOOLEAN : FileLock(p, ok) \/ CurWriteFile(p, ok) \/ CurRename(p, ok)

CurSpec == CurInit /\ [][CurNext]_curVars

-----------------------------------------------------------------------------
CurTypeOK ==
  /\ ToSet(curFile) \cup ToSet(curTmp) \cup curSaved \subseteq CurEntries
  /\ curLock \in CurProcesses \cup {"none"}
  /\ curOps \in 0..CurMaxOps /\ curCrashes \in 0..CurMaxCrashes

(***************************************************************************)
(* Whatever the lists of the processes say, the file holds each entry that *)
(* an add has written and no remove has taken away, once: no process       *)
(* undoes what another has written, and a failed write or a crash changes  *)
(* nothing, while the disk does not fill up (CuratedMemoryStore::add,      *)
(* remove, write_file).                                                    *)
(***************************************************************************)
FileKeepsWhatWasSaved == IsInjective(curFile) /\ ToSet(curFile) = curSaved

=============================================================================
