------------------------------- MODULE LogFiles -------------------------------
(***************************************************************************)
(* The log of a process (src/src/log/RotatingSink.h): the active file with *)
(* the buffer of its FILE, and the files sealed under the second they were *)
(* sealed in, of which the oldest are deleted.  The sink runs under the    *)
(* mutex of its base class, so its steps are those of one thread; what can *)
(* come between them is the end of the process.  A step that throws leaves *)
(* the sink without a file: it drops every later record in silence.        *)
(*                                                                         *)
(* Records are numbers with a size, so no two are the same, and a file is   *)
(* as long as the set of its records.  A second process logging into the   *)
(* same directory, and a clock that is set back, are left out.             *)
(***************************************************************************)
EXTENDS Integers, FiniteSets, Sequences, SequencesExt

CONSTANTS
  LogSizes,    \* sizes of a record
  LogMaxFile,  \* max_file_bytes
  LogMaxTotal, \* max_total_bytes
  LogMaxRecords, LogMaxClock, LogMaxStarts \* bounds: records, seconds, starts of the process

ASSUME LogAssumption ==
  /\ LogSizes \subseteq Nat \ {0} /\ LogSizes # {} /\ IsFiniteSet(LogSizes)
  /\ {LogMaxFile, LogMaxTotal, LogMaxRecords, LogMaxClock, LogMaxStarts} \subseteq Nat

VARIABLES
  logPc,     \* "on", within seal_and_rotate, "off": file_ is null, or "down"
  logActive, \* agent.log
  logBuffer, \* records written to file_ and not flushed
  logCount,  \* written_bytes_
  logSealed, \* sealed files, the oldest first: [second, records]
  logClock,  \* seconds
  logStarts, \* starts of the process
  logTaken,  \* every record the sink has taken, a history
  logLost,   \* records of a buffer that died with the process, and of a file another
             \* one has replaced
  logStuck   \* whether a file could not be deleted

logVars == <<logPc, logActive, logBuffer, logCount, logSealed, logClock, logStarts,
             logTaken, logLost, logStuck>>

LogBytes(records) == SumFunction([r \in records |-> r.size])
LogContents(files) == UNION {ToSet(f.records) : f \in ToSet(files)}
LogTotal(files) == LogBytes(LogContents(files))

-----------------------------------------------------------------------------
\* open_active
LogOpen ==
  /\ logPc = "open"
  /\ logPc' \in {"on", "off"}
  /\ logCount' = IF logPc' = "on" THEN LogBytes(ToSet(logActive)) ELSE logCount
  /\ UNCHANGED <<logActive, logBuffer, logSealed, logClock, logStarts, logTaken, logLost,
                 logStuck>>

\* sink_it_; the record that fills the file closes it, which flushes it (close_active).
LogSink(size) ==
  /\ logPc = "on" /\ Len(logTaken) < LogMaxRecords
  /\ LET r == [id |-> Len(logTaken) + 1, size |-> size]
         full == logCount + size >= LogMaxFile
     IN /\ logTaken' = Append(logTaken, r)
        /\ logPc' = IF full THEN "rename" ELSE "on"
        /\ logActive' = IF full THEN Append(logActive \o logBuffer, r) ELSE logActive
        /\ logBuffer' = IF full THEN <<>> ELSE Append(logBuffer, r)
  /\ logCount' = logCount + size
  /\ UNCHANGED <<logSealed, logClock, logStarts, logLost, logStuck>>

\* flush_ after a warning, or a buffer that is full
LogFlush ==
  /\ logPc = "on" /\ logBuffer # <<>>
  /\ logActive' = logActive \o logBuffer
  /\ logBuffer' = <<>>
  /\ UNCHANGED <<logPc, logCount, logSealed, logClock, logStarts, logTaken, logLost, logStuck>>

\* seal_and_rotate: a file sealed in the same second, which is the last, is replaced.
LogRename ==
  /\ logPc = "rename"
  /\ LET sealed == [second |-> logClock, records |-> logActive]
         replaces == logSealed # <<>> /\ Last(logSealed).second = logClock
     IN IF replaces
        THEN /\ logSealed' = Append(Front(logSealed), sealed)
             /\ logLost' = logLost \cup ToSet(Last(logSealed).records)
        ELSE logSealed' = Append(logSealed, sealed) /\ UNCHANGED logLost
  /\ logActive' = <<>> /\ logPc' = "cleanup"
  /\ UNCHANGED <<logBuffer, logCount, logClock, logStarts, logTaken, logStuck>>

\* Faulty variant: the newest sealed files are deleted first.
CleanupNewest(files, stuck) ==
  Reverse(FoldLeft(LAMBDA acc, f : IF acc.total <= LogMaxTotal \/ f.second \in stuck
                                   THEN [acc EXCEPT !.kept = Append(@, f)]
                                   ELSE [acc EXCEPT !.total = @ - LogBytes(ToSet(f.records))],
                   [kept |-> <<>>, total |-> LogTotal(files)], Reverse(files)).kept)

\* cleanup_sealed: the sealed files from the oldest on until the rest fits; one that cannot
\* be deleted stays and counts.
Cleanup(files, stuck) ==
  FoldLeft(LAMBDA acc, f : IF acc.total <= LogMaxTotal \/ f.second \in stuck
                           THEN [acc EXCEPT !.kept = Append(@, f)]
                           ELSE [acc EXCEPT !.total = @ - LogBytes(ToSet(f.records))],
           [kept |-> <<>>, total |-> LogTotal(files)], files).kept

LogCleanup ==
  /\ logPc = "cleanup"
  /\ \E stuck \in {{}} \cup {{f.second} : f \in ToSet(logSealed)} :
       /\ logSealed' = Cleanup(logSealed, stuck)
       /\ logStuck' = (logStuck \/ stuck # {})
  /\ logPc' = "open"
  /\ UNCHANGED <<logActive, logBuffer, logCount, logClock, logStarts, logTaken, logLost>>

\* rename or the walk of the directory throws, after file_ was closed.
LogThrows ==
  /\ logPc \in {"rename", "cleanup"}
  /\ logPc' = "off"
  /\ UNCHANGED <<logActive, logBuffer, logCount, logSealed, logClock, logStarts, logTaken,
                 logLost, logStuck>>

\* The destructor flushes the file; a process that is killed does not.
LogStop(clean) ==
  /\ logPc # "down"
  /\ logPc' = "down"
  /\ logActive' = IF clean THEN logActive \o logBuffer ELSE logActive
  /\ logLost' = IF clean THEN logLost ELSE logLost \cup ToSet(logBuffer)
  /\ logBuffer' = <<>>
  /\ clean => logPc \in {"on", "off"}
  /\ UNCHANGED <<logCount, logSealed, logClock, logStarts, logTaken, logStuck>>

LogStart ==
  /\ logPc = "down" /\ logStarts < LogMaxStarts
  /\ logPc' = "open" /\ logStarts' = logStarts + 1 /\ logCount' = 0
  /\ UNCHANGED <<logActive, logBuffer, logSealed, logClock, logTaken, logLost, logStuck>>

LogTick ==
  /\ logClock < LogMaxClock
  /\ logClock' = logClock + 1
  /\ UNCHANGED <<logPc, logActive, logBuffer, logCount, logSealed, logStarts, logTaken,
                 logLost, logStuck>>

LogInit ==
  /\ logPc = "open" /\ logActive = <<>> /\ logBuffer = <<>> /\ logCount = 0
  /\ logSealed = <<>> /\ logClock = 0 /\ logStarts = 1
  /\ logTaken = <<>> /\ logLost = {} /\ logStuck = FALSE

LogNext ==
  \/ \E size \in LogSizes : LogSink(size)
  \/ \E clean \in BOOLEAN : LogStop(clean)
  \/ LogOpen \/ LogFlush \/ LogRename \/ LogCleanup \/ LogThrows \/ LogStart \/ LogTick

LogSpec == LogInit /\ [][LogNext]_logVars

-----------------------------------------------------------------------------
LogTypeOK ==
  /\ logPc \in {"on", "off", "down", "open", "rename", "cleanup"}
  /\ {logCount, logClock, logStarts} \subseteq Nat
  /\ \A r \in ToSet(logActive) \cup ToSet(logBuffer) \cup ToSet(logTaken) \cup logLost :
       r.id \in Nat /\ r.size \in LogSizes
  /\ \A f \in ToSet(logSealed) : f.second \in Nat
  /\ logStuck \in BOOLEAN

LogKept == FlattenSeq([i \in DOMAIN logSealed |-> logSealed[i].records])
             \o (logActive \o logBuffer)
LogSince(i) == {logTaken[j] : j \in i..Len(logTaken)}

\* A file has less than max_file_bytes, or nothing, when a record is added to it, unless a
\* process ended before it was sealed and the next one added to it.
LogMost == (IF LogMaxFile = 0 THEN 0 ELSE LogMaxFile - 1) + logStarts * Max(LogSizes)

\* Rotation, the cleanup and restarts keep the end of the log: the files hold, in order and
\* once each, the records from some point on, but for those a killed process had not flushed
\* and those of a file replaced within its second.  And what was deleted was old enough:
\* max_total_bytes were logged after it, or that less the size of a file.
LogKeepsTheNewest ==
  ~logStuck =>
    /\ \A i, j \in DOMAIN LogKept : i < j => LogKept[i].id < LogKept[j].id
    /\ \E i \in 1..Len(logTaken) + 1 : ToSet(LogKept) = LogSince(i) \ logLost
    /\ \A i \in DOMAIN logTaken :
         logTaken[i] \notin ToSet(LogKept) \cup logLost =>
           LogBytes(LogSince(i + 1)) > LogMaxTotal - LogMost

=============================================================================
