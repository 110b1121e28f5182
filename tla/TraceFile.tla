------------------------------ MODULE TraceFile ------------------------------
(***************************************************************************)
(* The trace file (src/src/trace/JsonlWriter.cpp): the listener of an      *)
(* agent loop (TraceEventListener.cpp) appends one line per event and then *)
(* trims the file to the newest max_entries lines: it counts the lines,    *)
(* copies the last ones into a temporary file and renames that.  Only the  *)
(* append is made under the mutex of the writer, and processes that share  *)
(* the directory share both files without any lock.  A process may end     *)
(* between two steps, every step may fail, and all of it only warns.       *)
(*                                                                         *)
(* A line is a number; it is appended whole, and so is the copy, unless    *)
(* the process ends within it.  What an event records is left out.         *)
(***************************************************************************)
EXTENDS Integers, Sequences, SequencesExt

CONSTANTS
  TrcWriters,    \* processes with a trace listener
  TrcStorage,    \* StoragePolicy: "rolling" or "full"; with "none" there is no writer
  TrcMaxEntries, \* max_entries_, at least 1
  TrcMaxLines, TrcMaxFaults \* bounds: events written, failed steps and crashes

ASSUME TrcAssumption ==
  /\ TrcStorage \subseteq {"rolling", "full"}
  /\ TrcMaxEntries \in Nat \ {0} /\ {TrcMaxLines, TrcMaxFaults} \subseteq Nat

VARIABLES
  trcStorage, \* storage_
  trcFile,    \* runtime-trace.jsonl
  trcTemp,    \* runtime-trace.jsonl.tmp, empty when there is none
  trcCall,    \* write() of each process: [pc, skip]
  trcLines,   \* every line that was appended, a history
  trcFaults,
  trcLate,    \* lines appended since a trim last came to its end
  trcOverlap  \* whether an event was written while another process was trimming

trcVars == <<trcStorage, trcFile, trcTemp, trcCall, trcLines, trcFaults, trcLate, trcOverlap>>

TrcIdle == [pc |-> "idle", skip |-> 0]
TrcGo(w, pc, skip) == trcCall' = [trcCall EXCEPT ![w] = [pc |-> pc, skip |-> skip]]
TrcDone(w) == TrcGo(w, "idle", 0)
TrcTrimming(w) == \E o \in TrcWriters \ {w} : trcCall[o].pc \in {"count", "copy", "rename"}
TrcFault == trcFaults < TrcMaxFaults /\ trcFaults' = trcFaults + 1
LastLines(file, skip) == SubSeq(file, skip + 1, Len(file))

-----------------------------------------------------------------------------
\* write(): append_line(), which may fail to open the file, and then the trim.
TrcAppend(w) ==
  /\ trcCall[w] = TrcIdle /\ Len(trcLines) < TrcMaxLines
  /\ trcFile' = Append(trcFile, Len(trcLines) + 1)
  /\ trcLines' = Append(trcLines, Len(trcLines) + 1)
  /\ TrcGo(w, IF trcStorage = "rolling" THEN "count" ELSE "idle", 0)
  /\ trcOverlap' = (trcOverlap \/ TrcTrimming(w))
  /\ trcLate' = trcLate + 1
  /\ UNCHANGED <<trcStorage, trcTemp, trcFaults>>

TrcAppendFails(w) ==
  /\ trcCall[w] = TrcIdle /\ TrcFault
  /\ TrcGo(w, IF trcStorage = "rolling" THEN "count" ELSE "idle", 0)
  /\ trcOverlap' = (trcOverlap \/ TrcTrimming(w))
  /\ UNCHANGED <<trcStorage, trcFile, trcTemp, trcLines, trcLate>>

\* trim_to_last_entries: count_nonempty_lines
TrcCount(w) ==
  /\ trcCall[w].pc = "count"
  /\ IF Len(trcFile) <= TrcMaxEntries
     THEN TrcDone(w) /\ trcLate' = 0
     ELSE TrcGo(w, "copy", Len(trcFile) - TrcMaxEntries) /\ UNCHANGED trcLate
  /\ UNCHANGED <<trcStorage, trcFile, trcTemp, trcLines, trcFaults, trcOverlap>>

\* The temporary file is truncated when it is opened: one that a dead process left is gone.
Copied(w) == LastLines(trcFile, trcCall[w].skip)

\* Faulty variant: the temporary file is opened to append.
TrcCopyAppends(w) ==
  /\ trcCall[w].pc = "copy"
  /\ trcTemp' = trcTemp \o Copied(w)
  /\ TrcGo(w, "rename", 0)
  /\ UNCHANGED <<trcStorage, trcFile, trcLines, trcFaults, trcLate, trcOverlap>>

TrcCopy(w) ==
  /\ trcCall[w].pc = "copy"
  /\ trcTemp' = Copied(w)
  /\ TrcGo(w, "rename", 0)
  /\ UNCHANGED <<trcStorage, trcFile, trcLines, trcFaults, trcLate, trcOverlap>>

TrcRename(w) ==
  /\ trcCall[w].pc = "rename"
  /\ trcFile' = trcTemp /\ trcTemp' = <<>>
  /\ TrcDone(w)
  /\ trcLate' = 0
  /\ UNCHANGED <<trcStorage, trcLines, trcFaults, trcOverlap>>

\* A file cannot be opened: nothing is counted, or nothing copied.  The rename fails: the
\* temporary file is removed.
TrcTrimFails(w) ==
  /\ trcCall[w].pc \in {"count", "copy", "rename"} /\ TrcFault
  /\ trcTemp' = IF trcCall[w].pc = "rename" THEN <<>> ELSE trcTemp
  /\ TrcDone(w)
  /\ UNCHANGED <<trcStorage, trcFile, trcLines, trcLate, trcOverlap>>

\* The process ends, within the copy too, and a new one takes its place.
TrcCrash(w) ==
  /\ trcCall[w] # TrcIdle /\ TrcFault
  /\ trcTemp' \in IF trcCall[w].pc = "copy"
                  THEN {SubSeq(Copied(w), 1, n) : n \in 0..Len(Copied(w))} ELSE {trcTemp}
  /\ TrcDone(w)
  /\ UNCHANGED <<trcStorage, trcFile, trcLines, trcLate, trcOverlap>>

TrcInit ==
  /\ trcStorage \in TrcStorage
  /\ trcFile = <<>> /\ trcTemp = <<>> /\ trcLines = <<>>
  /\ trcCall = [w \in TrcWriters |-> TrcIdle]
  /\ trcFaults = 0 /\ trcLate = 0 /\ trcOverlap = FALSE

TrcNext ==
  \E w \in TrcWriters :
    \/ TrcAppend(w) \/ TrcAppendFails(w) \/ TrcCount(w) \/ TrcCopy(w) \/ TrcRename(w)
    \/ TrcTrimFails(w) \/ TrcCrash(w)

TrcSpec == TrcInit /\ [][TrcNext]_trcVars

-----------------------------------------------------------------------------
TrcTypeOK ==
  /\ trcStorage \in TrcStorage
  /\ ToSet(trcFile) \cup ToSet(trcTemp) \subseteq ToSet(trcLines)
  /\ \A w \in TrcWriters : trcCall[w].pc \in {"idle", "count", "copy", "rename"}
                           /\ trcCall[w].skip \in Nat
  /\ trcFaults \in 0..TrcMaxFaults /\ trcLate \in 0..Len(trcLines) /\ trcOverlap \in BOOLEAN

\* Whatever step fails and wherever a process ends, the file holds the newest lines, in
\* order and each once: at least max_entries of them, and no more than that and those
\* appended since a trim last ended.  Only processes whose writes overlap can break this.
TraceKeepsTheNewest ==
  ~trcOverlap =>
    /\ \E skip \in 0..Len(trcLines) :
         /\ trcFile = LastLines(trcLines, skip)
         /\ skip > 0 => trcStorage = "rolling" /\ Len(trcFile) >= TrcMaxEntries
    /\ trcStorage = "rolling" => Len(trcFile) <= TrcMaxEntries + trcLate

=============================================================================
