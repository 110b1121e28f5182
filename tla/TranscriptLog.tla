--------------------------- MODULE TranscriptLog ---------------------------
(***************************************************************************)
(* What IConversationStore promises about its conversations, without rows,  *)
(* transactions or threads: a transcript comes into being empty, grows at   *)
(* its end, is compacted as a whole, and may be removed as a whole.  Several *)
(* conversations may move in one step.                                      *)
(***************************************************************************)
EXTENDS Transcript, SequencesExt

VARIABLE transcripts  \* a transcript for each stored conversation

Init == transcripts = << >>

Grows(old, new) ==
  /\ new.archived = old.archived
  /\ IsPrefix(old.active, new.active)

\* A compaction leaves a summary at least.
IsCompacted(old, new) ==
  /\ new = Compacted(old, new.active)
  /\ new.active # << >>

Moves(before, after) ==
  \A c \in DOMAIN after :
    IF c \notin DOMAIN before THEN after[c].archived = << >>
    ELSE Grows(before[c], after[c]) \/ IsCompacted(before[c], after[c])

Next == Moves(transcripts, transcripts')

Spec == Init /\ [][Next]_transcripts

=============================================================================
