-------------------------- MODULE MemoryExtractor --------------------------
(***************************************************************************)
(* MemoryExtractor of src/src/memory over the conversation store: a worker  *)
(* thread with a connection of its own reads what was said since a          *)
(* conversation's watermark, asks the provider for facts, stores them and   *)
(* moves the watermark.  The UI thread hands it a conversation when a       *)
(* session ends, the worker itself at startup; the process may die at any   *)
(* point and be started again.                                              *)
(*                                                                         *)
(* Abstracted: the facts of a batch are stored in one step, of which only   *)
(* the completion is recorded.  A batch's budget counts what the messages   *)
(* and their labels take of max_chars.                                      *)
(***************************************************************************)
EXTENDS ConversationStore

CONSTANTS
  MaxMessages,  \* config_.max_messages
  MaxChars,     \* config_.max_chars
  Label,        \* characters a message costs beside its text: 8 in the code
  ImportsBesideWorker  \* bound: are imports explored with a worker running?

ASSUME LimitsAreNaturals ==
  /\ MaxMessages \in Nat /\ MaxChars \in Nat /\ Label \in Nat
  /\ ImportsBesideWorker \in BOOLEAN

VARIABLES
  enable,     \* config_.enable: is there a worker?
  up,         \* is the process running?
  stop,       \* stop_
  queue,      \* queue_
  queued,     \* queued_: the conversations queued or being processed
  worker,     \* where the worker thread is
  job,        \* process(): the conversation, or NoConversation
  batch,      \* process(): the rows read
  watermark,  \* table extraction_progress; 0 without a row
  extracted,  \* rows whose facts were stored
  slipped     \* was a watermark misread, not written, or lost in a crash?

shared == <<stop, queue, queued>>
process == <<worker, job, batch>>
memory == <<enable, watermark, extracted, slipped>>
vars == <<storeVars, up, shared, process, memory>>

WorkerStates ==
  {"off", "catchup", "wait", "load", "chat", "store", "watermark"}

------------------------------------------------------------------------------
(* The queries *)

\* Faulty variant: the row at the watermark is read again.
UnreadFrom(c, from) ==
  {i \in RowsOf(db.rows, c) :
     /\ i >= from
     /\ db.rows[i].active
     /\ IsDialogue(db.rows[i].msg)}

\* Active user and assistant rows behind a watermark.
Unread(c, from) ==
  {i \in RowsOf(db.rows, c) :
     /\ i > from
     /\ db.rows[i].active
     /\ IsDialogue(db.rows[i].msg)}

\* ORDER BY id DESC LIMIT max_messages
Newest(c, from) ==
  {i \in Unread(c, from) :
     Cardinality({j \in Unread(c, from) : j > i}) < MaxMessages}

\* Does the row use up what is left of the budget?  A message longer than that
\* is cut; an empty one costs nothing.
Exhausts(c, from, i) ==
  LET read == {j \in Newest(c, from) : j <= i /\ db.rows[j].msg.size > 0}
  IN  MapThenSumSet(LAMBDA j : db.rows[j].msg.size + Label, read) >= MaxChars

\* The rows of a batch: the loop ends behind the first that exhausts it.
Batch(c, from) ==
  {i \in Newest(c, from) :
     \A j \in Newest(c, from) : j < i => ~Exhausts(c, from, j)}

HasUser(rows) == \E i \in rows : db.rows[i].msg.role = "user"

Pending(c) ==
  /\ \E i \in RowsOf(db.rows, c) : db.rows[i].active /\ i > watermark[c]
  /\ \E i \in RowsOf(db.rows, c) : db.rows[i].msg.role = "user"

------------------------------------------------------------------------------
(* The queue *)

Ignored(c) == stop \/ c = NoConversation \/ c \in queued

Enqueue(c) ==
  /\ queue' = IF Ignored(c) THEN queue ELSE Append(queue, c)
  /\ queued' = IF Ignored(c) THEN queued ELSE queued \cup {c}

------------------------------------------------------------------------------
(* The worker thread *)

\* The rows of the query come in any order; a failed query ends the catch-up.
StartupCatchUp ==
  /\ worker = "catchup"
  /\ \/ /\ \E order \in SetToSeqs({c \in db.convs : Pending(c) /\ ~Ignored(c)}) :
             /\ queue' = queue \o order
             /\ queued' = queued \cup Range(order)
        /\ UNCHANGED faults
     \/ Fault /\ UNCHANGED <<queue, queued>>
  /\ worker' = "wait"
  /\ UNCHANGED <<store, calls, session, used, up, stop, job,
                 batch, memory>>

TakeJob ==
  /\ worker = "wait" /\ queue # << >>
  /\ job' = Head(queue)
  /\ queue' = Tail(queue)
  /\ worker' = "load"
  /\ UNCHANGED <<storeVars, up, stop, queued, batch, memory>>

WorkerEnds ==
  /\ worker = "wait" /\ queue = << >> /\ stop
  /\ worker' = "off"
  /\ UNCHANGED <<storeVars, up, shared, job, batch, memory>>

\* Every way out of process(): the conversation may be enqueued again.
Finish ==
  /\ queued' = queued \ {job}
  /\ worker' = "wait"
  /\ job' = NoConversation
  /\ batch' = {}
  /\ UNCHANGED <<up, stop, queue>>

\* Faulty variant: without a user message the conversation stays in queued_.
LoadRowsForgetting(rows) ==
  /\ worker = "load"
  /\ IF HasUser(rows)
     THEN /\ batch' = rows
          /\ worker' = "chat"
          /\ UNCHANGED <<up, shared, job>>
     ELSE /\ worker' = "wait"
          /\ job' = NoConversation
          /\ UNCHANGED <<up, shared, batch>>

\* Faulty variant: without a user message the conversation is queued again.
LoadRowsRetrying(rows) ==
  /\ worker = "load"
  /\ IF HasUser(rows)
     THEN /\ batch' = rows
          /\ worker' = "chat"
          /\ UNCHANGED <<up, shared, job>>
     ELSE /\ queue' = Append(queue, job)
          /\ worker' = "wait"
          /\ job' = NoConversation
          /\ UNCHANGED <<up, stop, queued, batch>>

\* A batch without a user message is left unread.
LoadRows(rows) ==
  /\ worker = "load"
  /\ IF HasUser(rows)
     THEN /\ batch' = rows
          /\ worker' = "chat"
          /\ UNCHANGED <<up, shared, job>>
     ELSE Finish

Load ==
  /\ LoadRows(Batch(job, watermark[job]))
  /\ UNCHANGED <<storeVars, memory>>

\* A failed step of the query ends a batch as its last row does.
LoadCutShort ==
  /\ \E end \in Batch(job, watermark[job]) :
       LoadRows({i \in Batch(job, watermark[job]) : i < end})
  /\ Fault
  /\ UNCHANGED <<store, calls, session, used, memory>>

\* A failed step of the watermark's SELECT counts as no row.
LoadFromStart ==
  /\ LoadRows(Batch(job, 0))
  /\ Fault
  /\ slipped' = TRUE
  /\ UNCHANGED <<store, calls, session, used, enable, watermark, extracted>>

\* The database cannot be opened or a statement not be prepared, or the
\* provider answers with an error.
ProcessFails ==
  /\ worker \in {"load", "chat"}
  /\ Fault
  /\ Finish
  /\ UNCHANGED <<store, calls, session, used, memory>>

ProviderAnswers ==
  /\ worker = "chat"
  /\ worker' = "store"
  /\ UNCHANGED <<storeVars, up, shared, job, batch, memory>>

FactsStored ==
  /\ worker = "store"
  /\ worker' = "watermark"
  /\ extracted' = extracted \cup batch
  /\ UNCHANGED <<storeVars, up, shared, job, batch, enable, watermark, slipped>>

\* Faulty variant: the watermark moves to the newest row there is.
SetWatermarkToNewest ==
  /\ worker = "watermark"
  /\ watermark' = [watermark EXCEPT ![job] = Max(batch \cup RowsOf(db.rows, job))]
  /\ Finish
  /\ UNCHANGED <<storeVars, enable, extracted, slipped>>

SetWatermark ==
  /\ worker = "watermark"
  /\ watermark' = [watermark EXCEPT ![job] = Max(batch)]
  /\ Finish
  /\ UNCHANGED <<storeVars, enable, extracted, slipped>>

\* The result of the UPDATE is not looked at.
WatermarkNotSet ==
  /\ worker = "watermark"
  /\ Fault
  /\ slipped' = TRUE
  /\ Finish
  /\ UNCHANGED <<store, calls, session, used, enable, watermark, extracted>>

------------------------------------------------------------------------------
(* The session and the process *)

\* /new
StartNewSession ==
  /\ up /\ ui = "idle" /\ ~in_txn
  /\ Enqueue(session)
  /\ session' = NoConversation
  /\ UNCHANGED <<store, calls, used, faults, up, stop,
                 process, memory>>

\* /resume, of a conversation load() finds
ResumeSession(c) ==
  /\ up /\ ui = "idle" /\ ~in_txn
  /\ c \in work.convs
  /\ Enqueue(session)
  /\ session' = c
  /\ UNCHANGED <<store, calls, used, faults, up, stop,
                 process, memory>>

\* /quit, Ctrl+Q: the agent may be busy.
Leave ==
  /\ up /\ ui = "idle"
  /\ Enqueue(session)
  /\ ui' = "left"
  /\ UNCHANGED <<store, importing, session, used, faults,
                 up, stop, process, memory>>

\* The agent thread is joined, the session handed over once more, and the
\* extractor's destructor asks the worker to stop.
Shutdown ==
  /\ up /\ ui = "left" /\ ~in_txn /\ ~stop
  /\ Enqueue(session)
  /\ stop' = TRUE
  /\ UNCHANGED <<storeVars, up, process, memory>>

Ended ==
  /\ up' = FALSE
  /\ stop' = FALSE /\ queue' = << >> /\ queued' = {}
  /\ worker' = "off" /\ job' = NoConversation /\ batch' = {}
  /\ StoreClosed
  /\ UNCHANGED <<enable, watermark, extracted>>

WorkerJoined ==
  /\ up /\ stop /\ worker = "off"
  /\ Ended
  /\ UNCHANGED <<faults, slipped>>

Crash ==
  /\ up
  /\ Fault
  /\ Ended
  /\ slipped' = (slipped \/ worker = "watermark")

StartProcess ==
  /\ ~up
  /\ up' = TRUE
  /\ worker' = IF enable THEN "catchup" ELSE "off"
  /\ UNCHANGED <<storeVars, shared, job, batch, memory>>

------------------------------------------------------------------------------

Init ==
  /\ StoreInit
  /\ enable \in BOOLEAN /\ up = FALSE
  /\ stop = FALSE /\ queue = << >> /\ queued = {}
  /\ worker = "off" /\ job = NoConversation /\ batch = {}
  /\ watermark = [c \in Convs |-> 0] /\ extracted = {} /\ slipped = FALSE

WorkerNext ==
  \/ StartupCatchUp
  \/ TakeJob
  \/ WorkerEnds
  \/ Load
  \/ LoadCutShort
  \/ LoadFromStart
  \/ ProcessFails
  \/ ProviderAnswers
  \/ FactsStored
  \/ SetWatermark
  \/ WatermarkNotSet

StoreNext ==
  /\ up /\ ~stop
  /\ \/ AgentNext
     \/ (enable => ImportsBesideWorker) /\ ImportNext
  /\ UNCHANGED <<up, shared, process, memory>>

SessionNext ==
  \/ StartNewSession
  \/ \E c \in Convs : ResumeSession(c)
  \/ Leave
  \/ Shutdown

Next ==
  \/ StoreNext
  \/ WorkerNext
  \/ SessionNext
  \/ WorkerJoined
  \/ Crash
  \/ StartProcess

Spec == Init /\ [][Next]_vars

\* Threads that can go on do: the worker, whose provider answers or fails in
\* the end, and main(), which returns when it has joined the worker.
FairSpec == Spec /\ WF_vars(WorkerNext) /\ WF_vars(WorkerJoined)

------------------------------------------------------------------------------
(* Properties *)

TypeOK ==
  /\ StoreTypeOK
  /\ enable \in BOOLEAN /\ up \in BOOLEAN /\ stop \in BOOLEAN
  /\ queue \in Seq(Convs) /\ queued \subseteq Convs
  /\ worker \in WorkerStates
  /\ job \in Convs \cup {NoConversation}
  /\ batch \subseteq Nat
  /\ watermark \in [Convs -> Nat]
  /\ extracted \subseteq Nat /\ slipped \in BOOLEAN

\* queued_ is what keeps a conversation from being queued twice: it holds what
\* is in the queue, each once, and what is being processed, and nothing else,
\* or a conversation is read twice or never again.
QueuedOnce ==
  /\ queued = Range(queue) \cup ({job} \ {NoConversation})
  /\ \A i, j \in 1..Len(queue) : i # j => queue[i] # queue[j]
  /\ job \notin Range(queue)

\* Rows of a conversation the query of a batch skipped for newer ones.
Capped(i) ==
  Cardinality({j \in RowsOf(db.rows, db.rows[i].conv) :
                 j > i /\ IsDialogue(db.rows[j].msg)}) >= MaxMessages

\* Whatever was said at or before a watermark has had its facts stored, unless
\* it was archived first or max_messages newer messages pushed it out: rows
\* that come in while the provider works, a budget that cuts a batch short and
\* a failure at any step do not make the watermark pass a message unread.
WatermarkIsHonest ==
  \A i \in DOMAIN db.rows :
    LET row == db.rows[i] IN
      row.active /\ IsDialogue(row.msg) /\ i <= watermark[row.conv] =>
        i \in extracted \/ Capped(i)

\* A row whose facts are stored is not sent to the provider again, unless its
\* watermark was misread, not written or lost in a crash.
ReadOnce ==
  worker \in {"chat", "store"} /\ batch \cap extracted # {} => slipped

\* A conversation handed to the extractor does not stay in queued_, where it
\* would keep every later trigger out: it is processed, or the process ends.
QueuedIsProcessed ==
  \A c \in Convs : (enable /\ c \in queued) ~> (c \notin queued)

\* A process asked to stop works off its queue and ends.
ShutdownEnds == stop ~> ~up

=============================================================================
