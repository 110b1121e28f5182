----------------------------- MODULE Transcript -----------------------------
(***************************************************************************)
(* What the agent sees of a stored conversation: the interface              *)
(* IConversationStore, abstracted to one value per conversation.  The rows *)
(* of a conversation are split into those a compaction archived and those   *)
(* load() returns.  SQLite's view of the same operations is in              *)
(* ConversationStore, which implements this one.                            *)
(***************************************************************************)
EXTENDS Sequences, Naturals

NoConversation == 0

EmptyTranscript == [archived |-> << >>, active |-> << >>]

TranscriptOf(Msg) == [archived : Seq(Msg), active : Seq(Msg)]

\* append(): the message becomes the last active row.
Appended(conv, msg) == [conv EXCEPT !.active = Append(@, msg)]

\* archive_and_compact(): every active row is archived, then the compacted
\* messages are inserted as the new active rows.
Compacted(conv, msgs) ==
  [archived |-> conv.archived \o conv.active, active |-> msgs]

\* load(): the rows a restarted or resumed session starts from.
Loaded(conv) == conv.active

Ids(msgs) == {msgs[i].id : i \in 1..Len(msgs)}

StoredIds(conv) == Ids(conv.archived) \cup Ids(conv.active)

(* A compression replaces messages cut[1] + 1 .. cut[2] by one summary.  The
   stretch does not start at a tool result; what follows it holds the last
   user or assistant message unless the stretch is a single message. *)

IsDialogue(msg) == msg.role \in {"user", "assistant"}

Cuts(msgs) ==
  {cut \in (0..Len(msgs)) \X (1..Len(msgs)) :
     /\ cut[1] < cut[2]
     /\ msgs[cut[1] + 1].role # "tool"
     /\ \/ cut[2] = cut[1] + 1
        \/ \E i \in cut[2] + 1..Len(msgs) : IsDialogue(msgs[i])
        \/ \A i \in cut[1] + 1..Len(msgs) : ~IsDialogue(msgs[i])}

=============================================================================
