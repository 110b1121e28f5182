------------------------------- MODULE ChatArea -------------------------------
(***************************************************************************)
(* The transcript on the screen (src/src/tui/ChatArea.cpp): its rows, the  *)
(* text that is being streamed, the lines both are wrapped into, which are *)
(* kept from frame to frame, and the part of them a window shows.  What    *)
(* changes it: the callbacks of the agent thread (TuiApp.cpp,              *)
(* TuiEventListener.cpp), which run on the UI thread in the order they     *)
(* were posted, the commands, the wheel, and the size of the terminal.     *)
(*                                                                         *)
(* A text is a sequence of glyphs and line breaks; a glyph takes one cell  *)
(* and may be broken at, so a line is its number of glyphs.  Words, which  *)
(* are kept together, and blanks are left out.  Chunks of tool calls never *)
(* reach the transcript: TuiApp passes on text, Done and errors only.      *)
(***************************************************************************)
EXTENDS Integers, Sequences, SequencesExt

Glyph == 1
Break == 0

CONSTANTS
  ChatTexts,    \* texts of rows, sequences over {Glyph, Break}
  ChatChunks,   \* texts of chunks
  ChatWidths,   \* widths a frame may have
  ChatViewport, \* lines a frame shows
  ChatMaxRows,  \* bound: rows
  ChatMaxText   \* bound: length of what is streamed

ASSUME ChatAssumption ==
  /\ ChatWidths \subseteq Nat \ {0}
  /\ ChatTexts \cup ChatChunks \subseteq Seq({Glyph, Break})
  /\ {ChatViewport, ChatMaxRows, ChatMaxText} \subseteq Nat

VARIABLES
  chatRows,    \* messages_: [role, text], and whether the model has said it
  chatStream,  \* streaming_content_
  chatTail,    \* streaming_tail_
  chatFinal, chatOpen, \* streaming_final_, and the length of streaming_provisional_
  chatWrapped, \* wrapped_lines_
  chatWidth, chatCached, \* layout_width_, cached_width_; 0 before the first frame
  chatVerbose, \* verbose_
  chatTop, chatFollow, \* scroll_top_, follow_bottom_
  chatSaid     \* all that was streamed since the transcript was cleared, a history

chatVars == <<chatRows, chatStream, chatTail, chatFinal, chatOpen, chatWrapped, chatWidth,
              chatCached, chatVerbose, chatTop, chatFollow, chatSaid>>
chatStreaming == <<chatStream, chatTail, chatFinal, chatOpen>>
chatView == <<chatWrapped, chatWidth, chatCached, chatVerbose, chatTop, chatFollow>>

ScrollStep == 3

\* wrap_by_width: the lines of a text; a width of 0 only breaks where the text does.
WrapByWidth(text, width) ==
  LET step(acc, x) ==
        IF x = Break THEN [lines |-> Append(acc.lines, acc.line), line |-> 0]
        ELSE IF width > 0 /\ acc.line >= width
        THEN [lines |-> Append(acc.lines, acc.line), line |-> 1]
        ELSE [acc EXCEPT !.line = @ + 1]
      end == FoldLeft(step, [lines |-> <<>>, line |-> 0], text)
  IN IF text = <<>> \/ Last(text) = Break THEN end.lines ELSE Append(end.lines, end.line)

\* fold_streaming: all lines of the tail but an open last one are final; the tail keeps
\* what follows its last break.
FoldTail(tail, width) ==
  LET lines == WrapByWidth(tail, width)
      broken == Last(tail) = Break
      last == SelectLastInSeq(tail, LAMBDA x : x = Break)
  IN [lines |-> IF broken THEN lines ELSE Front(lines),
      open |-> IF broken THEN 0 ELSE Last(lines),
      tail |-> SubSeq(tail, last + 1, Len(tail))]

FoldStreaming(final, open, tail, width) ==
  IF tail = <<>>
  THEN chatFinal' = final /\ chatOpen' = open /\ chatTail' = tail
  ELSE LET folded == FoldTail(tail, width)
       IN /\ chatFinal' = final \o folded.lines
          /\ chatOpen' = folded.open
          /\ chatTail' = folded.tail

MessageHeight(row, lines, verbose) ==
  CASE row.role = "user" -> Len(lines) + 3
    [] row.role = "assistant" -> Len(lines) + 1
    [] row.role = "tool" -> IF verbose THEN 4 ELSE 1
    [] row.role = "system" -> Len(lines)

StreamingHeight(final, open) ==
  LET n == Len(final) + (IF open > 0 THEN 1 ELSE 0) IN IF n = 0 THEN 0 ELSE n + 1

-----------------------------------------------------------------------------
\* Rows.

ChatRow(role, text, said) == [role |-> role, text |-> text, said |-> said]
ChatAppend(role, text, said) ==
  /\ Len(chatRows) < ChatMaxRows
  /\ chatRows' = Append(chatRows, ChatRow(role, text, said))

AppendUser(text) ==
  ChatAppend("user", text, FALSE) /\ UNCHANGED <<chatStreaming, chatView, chatSaid>>
AppendSystem(text) ==
  ChatAppend("system", text, FALSE) /\ UNCHANGED <<chatStreaming, chatView, chatSaid>>
\* What a command answers; and what the loop puts out, without streaming or after the
\* last of its iterations, which has ended with Done.
AppendAssistant(text, said) ==
  /\ ChatAppend("assistant", text, said)
  /\ said => chatStream = <<>>
  /\ chatSaid' = IF said THEN chatSaid \o text ELSE chatSaid
  /\ UNCHANGED <<chatStreaming, chatView>>
\* append_tool_start and append_tool_end: no row is provisional, so each is a new row.
AppendToolRow(text) ==
  ChatAppend("tool", text, FALSE) /\ UNCHANGED <<chatStreaming, chatView, chatSaid>>

\* When the program starts with a conversation; texts are not empty.
RestoreHistory(question, answer) ==
  /\ chatRows = <<>> /\ chatCached = 0 /\ chatSaid = <<>> /\ ChatMaxRows >= 2
  /\ chatRows' = <<ChatRow("user", question, FALSE), ChatRow("assistant", answer, TRUE)>>
  /\ chatSaid' = answer
  /\ UNCHANGED <<chatStreaming, chatView>>

-----------------------------------------------------------------------------
\* The stream.  A run that is interrupted or fails brings no Done.

AppendStreamChunk(text) ==
  /\ Len(chatSaid \o text) <= ChatMaxText
  /\ chatStream' = chatStream \o text
  /\ FoldStreaming(chatFinal, chatOpen, chatTail \o text, chatWidth)
  /\ chatSaid' = chatSaid \o text
  /\ UNCHANGED <<chatRows, chatView>>

FinishMessage ==
  /\ IF chatStream = <<>> THEN UNCHANGED <<chatRows, chatStreaming>>
     ELSE /\ ChatAppend("assistant", chatStream, TRUE)
          /\ chatStream' = <<>> /\ chatTail' = <<>> /\ chatFinal' = <<>> /\ chatOpen' = 0
  /\ UNCHANGED <<chatView, chatSaid>>

StreamFn(kind, text) ==
  CASE kind = "content" -> AppendStreamChunk(text)
    [] kind = "done" -> FinishMessage
    [] kind = "error" -> AppendSystem(text)
    [] OTHER -> UNCHANGED chatVars

OnEvent(type, text) ==
  CASE type \in {"ToolCallStart", "ToolCallEnd"} -> AppendToolRow(text)
    [] type \in {"Error", "Interrupt"} -> AppendSystem(text)
    [] OTHER -> UNCHANGED chatVars

\* Faulty variant: clear keeps the wrapped lines.
ChatClearRows ==
  /\ chatRows' = <<>> /\ UNCHANGED chatWrapped
  /\ chatStream' = <<>> /\ chatTail' = <<>> /\ chatFinal' = <<>> /\ chatOpen' = 0
  /\ chatTop' = 0 /\ chatFollow' = TRUE
  /\ chatSaid' = <<>>
  /\ UNCHANGED <<chatWidth, chatCached, chatVerbose>>

\* clear, by /clear and /new; the first may come in the middle of a stream.
ChatClear ==
  /\ chatRows' = <<>> /\ chatWrapped' = <<>>
  /\ chatStream' = <<>> /\ chatTail' = <<>> /\ chatFinal' = <<>> /\ chatOpen' = 0
  /\ chatTop' = 0 /\ chatFollow' = TRUE
  /\ chatSaid' = <<>>
  /\ UNCHANGED <<chatWidth, chatCached, chatVerbose>>

-----------------------------------------------------------------------------
\* Frames.

\* ensure_wrapped: another width wraps everything anew, otherwise only the new rows.
EnsureWrapped(width) ==
  /\ chatCached' = width
  /\ chatWrapped' = [i \in DOMAIN chatRows |->
                       IF width = chatCached /\ i \in DOMAIN chatWrapped THEN chatWrapped[i]
                       ELSE WrapByWidth(chatRows[i].text, width)]
  /\ IF width = chatCached THEN UNCHANGED chatStreaming
     ELSE FoldStreaming(<<>>, 0, chatStream, width) /\ UNCHANGED chatStream

\* After ensure_wrapped.
TotalLines ==
  FoldLeft(LAMBDA n, i : n + MessageHeight(chatRows[i], chatWrapped'[i], chatVerbose), 0,
           [i \in DOMAIN chatRows |-> i])
    + StreamingHeight(chatFinal', chatOpen')
MaxScroll == IF TotalLines > ChatViewport THEN TotalLines - ChatViewport ELSE 0
ChatClamped == IF chatTop > MaxScroll THEN MaxScroll ELSE chatTop

\* A frame: the width of the terminal, then render.
ChatRender(width) ==
  /\ chatWidth' = width
  /\ EnsureWrapped(width)
  /\ chatTop' = IF chatFollow THEN MaxScroll ELSE ChatClamped
  /\ UNCHANGED <<chatRows, chatVerbose, chatFollow, chatSaid>>

WheelTop == IF chatFollow THEN MaxScroll ELSE chatTop

\* Faulty variant: the wheel goes on above the first line.
WheelUpUnbounded ==
  /\ EnsureWrapped(chatWidth)
  /\ chatTop' = IF WheelTop > 0 THEN WheelTop - ScrollStep ELSE WheelTop
  /\ chatFollow' = (chatFollow /\ WheelTop <= 0)
  /\ UNCHANGED <<chatRows, chatWidth, chatVerbose, chatSaid>>

WheelUp ==
  /\ EnsureWrapped(chatWidth)
  /\ chatTop' = IF WheelTop > ScrollStep THEN WheelTop - ScrollStep ELSE 0
  /\ chatFollow' = (chatFollow /\ WheelTop <= 0)
  /\ UNCHANGED <<chatRows, chatWidth, chatVerbose, chatSaid>>

WheelDown ==
  /\ EnsureWrapped(chatWidth)
  /\ LET down == IF WheelTop + ScrollStep < MaxScroll THEN WheelTop + ScrollStep ELSE MaxScroll
     IN IF WheelTop < MaxScroll
        THEN chatTop' = down /\ chatFollow' = (chatFollow \/ down >= MaxScroll)
        ELSE chatTop' = WheelTop /\ UNCHANGED chatFollow
  /\ UNCHANGED <<chatRows, chatWidth, chatVerbose, chatSaid>>

SetVerbose ==
  /\ chatVerbose' = ~chatVerbose
  /\ UNCHANGED <<chatRows, chatStreaming, chatWrapped, chatWidth, chatCached, chatTop,
                 chatFollow, chatSaid>>

-----------------------------------------------------------------------------
ChatInit ==
  /\ chatRows = <<>> /\ chatStream = <<>> /\ chatTail = <<>> /\ chatFinal = <<>>
  /\ chatOpen = 0 /\ chatWrapped = <<>> /\ chatWidth = 0 /\ chatCached = 0
  /\ chatVerbose = FALSE /\ chatTop = 0 /\ chatFollow = TRUE /\ chatSaid = <<>>

ChatNext ==
  \/ \E text \in ChatTexts :
       \/ AppendUser(text) \/ AppendSystem(text)
       \/ \E said \in BOOLEAN : AppendAssistant(text, said)
       \/ \E type \in {"ToolCallStart", "ToolCallEnd", "Error", "Interrupt", "other"} :
            OnEvent(type, text)
       \/ \E answer \in ChatTexts : RestoreHistory(text, answer)
  \/ \E text \in ChatChunks, kind \in {"content", "done", "error", "toolcall"} :
       StreamFn(kind, text)
  \/ ChatClear \/ SetVerbose
  \/ chatWidth > 0 /\ (WheelUp \/ WheelDown)
  \/ \E width \in ChatWidths : ChatRender(width)

ChatSpec == ChatInit /\ [][ChatNext]_chatVars

-----------------------------------------------------------------------------
ChatTypeOK ==
  /\ \A i \in DOMAIN chatRows : chatRows[i].role \in {"user", "assistant", "tool", "system"}
  /\ Len(chatRows) <= ChatMaxRows /\ chatTop \in Nat /\ chatOpen \in Nat

ChatRowsSaid == FlattenSeq([i \in DOMAIN chatRows |->
  IF chatRows[i].said THEN chatRows[i].text ELSE <<>>])

(***************************************************************************)
(* The transcript holds what the model has said since it was last cleared, *)
(* all of it, once and in order, whatever was interrupted, resized or      *)
(* appended in between.  Each row that has been wrapped is shown by the    *)
(* lines of its own text at the width of the frame.  So is the stream,     *)
(* while none of its lines is longer than the width: the lines of a longer *)
(* one are added again with every chunk (ChatArea::fold_streaming,         *)
(* ensure_wrapped, finish_message, clear).                                 *)
(***************************************************************************)
ChatShowsWhatCame ==
  /\ ChatRowsSaid \o chatStream = chatSaid
  /\ \A i \in DOMAIN chatWrapped :
       i \in DOMAIN chatRows /\ chatWrapped[i] = WrapByWidth(chatRows[i].text, chatCached)
  /\ WrapByWidth(chatStream, chatCached) = WrapByWidth(chatStream, 0)
       => chatFinal \o (IF chatOpen > 0 THEN <<chatOpen>> ELSE <<>>)
            = WrapByWidth(chatStream, chatCached)

=============================================================================
