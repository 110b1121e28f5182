------------------------- MODULE ConversationStore -------------------------
(***************************************************************************)
(* SqliteConversationStore of src/src/conversation and the two threads that *)
(* share its one connection: the agent thread, which saves what is said and *)
(* archives a compacted history in a transaction, and the UI thread, which  *)
(* imports conversations, an agent being busy or not.  A statement of one   *)
(* thread lands in the transaction the other has open.                      *)
(*                                                                         *)
(* Abstracted: an append is one step, as only its INSERT is seen by others; *)
(* titles, times and the fields of a message but its role and its length    *)
(* are left out.  AgentLoop models when the agent saves and what it does    *)
(* about an append that failed; here it may say, or compact what is stored, *)
(* at any time.                                                             *)
(***************************************************************************)
EXTENDS Transcript, Integers, FiniteSets, FiniteSetsExt, SequencesExt

CONSTANTS
  Kinds,      \* [role, size] of the messages said or imported
  Sessions,   \* bound: ids of the conversations the agent creates
  Imports,    \* bound: ids of the conversations imported
  MaxLines,   \* bound: rows of an import
  MaxRows,    \* bound: row ids given out
  MaxFaults   \* bound: calls that fail, and crashes

Roles == {"system", "user", "assistant", "tool"}

\* The identity of a message is the first row that holds it; 0 for a summary.
Message == [id : Nat, role : Roles, size : Nat]

ASSUME BoundsAreNaturals ==
  /\ Sessions \subseteq Nat \ {NoConversation}
  /\ Imports \subseteq Nat \ {NoConversation}
  /\ MaxLines \in Nat /\ MaxRows \in Nat /\ MaxFaults \in Nat
  /\ Kinds \subseteq [role : Roles, size : Nat]

Convs == Sessions \cup Imports

Row == [conv : Convs, seq : Nat, msg : Message, active : BOOLEAN]

VARIABLES
  db,         \* the database as other connections and a restart see it
  work,       \* the database as this connection sees it
  in_txn,     \* is the agent thread in the transaction of a compaction?
  ui,         \* the UI thread: "idle", "import", "remove", or "left" for good
  importing,  \* import_jsonl(): the conversation being filled
  session,    \* conversation_id of the agent's session
  used,       \* the conversation ids given out
  faults      \* calls that failed so far, and crashes

store == <<db, work, in_txn>>
calls == <<ui, importing>>
storeVars == <<store, calls, session, used, faults>>

------------------------------------------------------------------------------
(* The tables: conversations, messages and the AUTOINCREMENT counter. *)

IsDatabase(d) ==
  /\ d = [convs |-> d.convs, rows |-> d.rows, last |-> d.last]
  /\ d.convs \subseteq Convs /\ d.last \in Nat
  /\ DOMAIN d.rows \subseteq 1..d.last
  /\ d.rows \in [DOMAIN d.rows -> Row]

EmptyDatabase == [convs |-> {}, rows |-> << >>, last |-> 0]

RowsOf(rows, c) == {i \in DOMAIN rows : rows[i].conv = c}

\* Faulty variant: archived rows are not counted.
NextSeqOfActive(rows, c) ==
  LET taken == {rows[i].seq : i \in {j \in RowsOf(rows, c) : rows[j].active}}
  IN  IF taken = {} THEN 0 ELSE Max(taken) + 1

NextSeq(rows, c) ==
  LET taken == {rows[i].seq : i \in RowsOf(rows, c)}
  IN  IF taken = {} THEN 0 ELSE Max(taken) + 1

WithConversation(d, c) == [d EXCEPT !.convs = @ \cup {c}]

\* Messages inserted one after the other, each with the next seq.
WithRows(d, c, msgs) ==
  [convs |-> d.convs, last |-> d.last + Len(msgs),
   rows |-> [i \in DOMAIN d.rows \cup (d.last + 1..d.last + Len(msgs)) |->
               IF i <= d.last THEN d.rows[i]
               ELSE [conv |-> c, msg |-> msgs[i - d.last],
                     seq |-> NextSeq(d.rows, c) + i - d.last - 1,
                     active |-> TRUE]]]

WithArchived(d, c) ==
  [d EXCEPT !.rows = [i \in DOMAIN d.rows |->
                        IF d.rows[i].conv = c
                        THEN [d.rows[i] EXCEPT !.active = FALSE]
                        ELSE d.rows[i]]]

\* DELETE of a conversation cascades to its rows.
Without(d, c) ==
  [convs |-> d.convs \ {c}, last |-> d.last,
   rows |-> [i \in DOMAIN d.rows \ RowsOf(d.rows, c) |-> d.rows[i]]]

\* The messages of a conversation in the order of seq.
MessagesOf(rows, c, active) ==
  LET ids == {i \in RowsOf(rows, c) : rows[i].active = active}
      Before(i) == {j \in ids : rows[j].seq < rows[i].seq}
  IN  [k \in 1..Cardinality(ids) |->
         rows[CHOOSE i \in ids : Cardinality(Before(i)) = k - 1].msg]

\* A statement that changes the tables: outside a transaction it commits.
Write(new) ==
  /\ work' = new
  /\ db' = IF in_txn THEN db ELSE new
  /\ UNCHANGED in_txn

Fault ==
  /\ faults < MaxFaults
  /\ faults' = faults + 1

------------------------------------------------------------------------------
(* The agent thread *)

MessageOf(kind, id) == [id |-> id, role |-> kind.role, size |-> kind.size]

CreateConversation(c) ==
  /\ ~in_txn /\ session = NoConversation
  /\ c \notin used
  /\ Write(WithConversation(work, c))
  /\ session' = c
  /\ used' = used \cup {c}
  /\ UNCHANGED <<calls, faults>>

Say(kind) ==
  /\ ~in_txn /\ session # NoConversation
  /\ work.last < MaxRows
  /\ Write(WithRows(work, session, <<MessageOf(kind, work.last + 1)>>))
  /\ UNCHANGED <<calls, session, used, faults>>

Compressed(msgs, cut, kind) ==
  SubSeq(msgs, 1, cut[1]) \o <<MessageOf(kind, 0)>>
    \o SubSeq(msgs, cut[2] + 1, Len(msgs))

\* Faulty variant: the UPDATE is committed before the transaction begins.
BeginArchiveLate(msgs) ==
  /\ ~in_txn /\ session # NoConversation
  /\ work.last + Len(msgs) <= MaxRows
  /\ in_txn' = TRUE
  /\ work' = WithRows(WithArchived(work, session), session, msgs)
  /\ db' = WithArchived(work, session)
  /\ UNCHANGED <<calls, session, used, faults>>

\* BEGIN, the archiving UPDATE and the INSERTs
BeginArchive(msgs) ==
  /\ ~in_txn /\ session # NoConversation
  /\ work.last + Len(msgs) <= MaxRows
  /\ in_txn' = TRUE
  /\ work' = WithRows(WithArchived(work, session), session, msgs)
  /\ UNCHANGED <<db, calls, session, used, faults>>

CommitArchive ==
  /\ in_txn
  /\ db' = work
  /\ in_txn' = FALSE
  /\ UNCHANGED <<work, calls, session, used, faults>>

\* A statement inside the transaction, or the COMMIT, failed.
RollbackArchive ==
  /\ in_txn
  /\ Fault
  /\ work' = db
  /\ in_txn' = FALSE
  /\ UNCHANGED <<db, calls, session, used>>

------------------------------------------------------------------------------
(* The UI thread: import_jsonl() *)

BeginImport(c) ==
  /\ ui = "idle"
  /\ c \notin used
  /\ Write(WithConversation(work, c))
  /\ ui' = "import"
  /\ importing' = c
  /\ used' = used \cup {c}
  /\ UNCHANGED <<session, faults>>

StoreLine(kind) ==
  /\ work.last < MaxRows
  /\ Cardinality(RowsOf(work.rows, importing)) < MaxLines
  /\ importing \in work.convs
  /\ Write(WithRows(work, importing, <<MessageOf(kind, work.last + 1)>>))

ImportLine(kind) ==
  /\ ui = "import"
  /\ StoreLine(kind)
  /\ UNCHANGED <<calls, session, used, faults>>

\* append() failed: before its INSERT, behind it (the row is stored), or
\* because the conversation is gone, rolled back with the agent's transaction.
ImportLineFails(kind) ==
  /\ ui = "import"
  /\ \/ Fault /\ UNCHANGED store
     \/ Fault /\ StoreLine(kind)
     \/ importing \notin work.convs /\ UNCHANGED <<store, faults>>
  /\ ui' = "remove"
  /\ UNCHANGED <<importing, session, used>>

\* What remove() returns is not looked at.
RemovePartial ==
  /\ ui = "remove"
  /\ \/ Write(Without(work, importing))
     \/ UNCHANGED store
  /\ ui' = "idle"
  /\ importing' = NoConversation
  /\ UNCHANGED <<session, used, faults>>

\* At the end of the file; or at a malformed line, which is an error that
\* leaves what is stored.
ImportReturns ==
  /\ ui = "import"
  /\ ui' = "idle"
  /\ importing' = NoConversation
  /\ UNCHANGED <<store, session, used, faults>>

------------------------------------------------------------------------------

StoreInit ==
  /\ db = EmptyDatabase /\ work = EmptyDatabase /\ in_txn = FALSE
  /\ ui = "idle" /\ importing = NoConversation
  /\ session = NoConversation /\ used = {}
  /\ faults = 0

AgentNext ==
  \/ \E c \in Sessions : CreateConversation(c)
  \/ \E kind \in Kinds : Say(kind)
  \/ LET msgs == MessagesOf(work.rows, session, TRUE)
     IN  \E cut \in Cuts(msgs), kind \in Kinds :
           IsDialogue(kind) /\ BeginArchive(Compressed(msgs, cut, kind))
  \/ CommitArchive
  \/ RollbackArchive

ImportNext ==
  \/ \E c \in Imports : BeginImport(c)
  \/ \E kind \in Kinds : ImportLine(kind) \/ ImportLineFails(kind)
  \/ RemovePartial
  \/ ImportReturns

\* The process ends or dies: an open transaction is gone.
StoreClosed ==
  /\ work' = db /\ in_txn' = FALSE
  /\ ui' = "idle" /\ importing' = NoConversation
  /\ session' = NoConversation
  /\ UNCHANGED <<db, used>>

------------------------------------------------------------------------------
(* Properties *)

StoreTypeOK ==
  /\ IsDatabase(db) /\ IsDatabase(work) /\ in_txn \in BOOLEAN
  /\ ui \in {"idle", "import", "remove", "left"}
  /\ importing \in Convs \cup {NoConversation}
  /\ session \in Convs \cup {NoConversation} /\ used \subseteq Convs
  /\ faults \in Nat

\* Among the rows of a conversation seq grows with the row id, and archived
\* rows come before active ones: load(), which orders by seq, and the
\* extractor, which orders by id, see the same order, and the rows of a
\* compaction follow all it replaced.
RowsInOrder ==
  \A i, j \in DOMAIN db.rows :
    db.rows[i].conv = db.rows[j].conv /\ i < j =>
      /\ db.rows[i].seq < db.rows[j].seq
      /\ db.rows[i].active => db.rows[j].active

\* A conversation is there from the end of its import on.
ImportsAreKept ==
  [][\A c \in work.convs : c = importing \/ c \in work'.convs]_storeVars

Transcripts ==
  [c \in db.convs |-> [archived |-> MessagesOf(db.rows, c, FALSE),
                       active |-> MessagesOf(db.rows, c, TRUE)]]

Log == INSTANCE TranscriptLog WITH transcripts <- Transcripts

\* Committed conversations move as TranscriptLog says: a compaction is seen
\* whole or not at all, nothing archived changes and nothing is reordered,
\* whatever the two threads, rollbacks and crashes do.
ImplementsTranscriptLog == Log!Spec

=============================================================================
