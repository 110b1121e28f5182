------------------------- MODULE ContextCompressor -------------------------
(***************************************************************************)
(* ContextCompressor of src/src/agent and the context it is called on: the  *)
(* history of an AgentLoop behind its system prompt.  A context over its    *)
(* threshold keeps a head and a tail; a summary replaces what is between.   *)
(* The summariser, an LLM call, may fail.                                   *)
(*                                                                         *)
(* Abstracted: a message is long or short and has a size in tokens; a long  *)
(* tool result, or long tool arguments, may have been cut down to short.  A *)
(* summary covers the messages its prompt was made of.  Percentages are     *)
(* integers.  last_savings_pct_, ineffective_count_ and last_prompt_tokens_ *)
(* only feed should_compress(), which nothing calls, and are left out.      *)
(***************************************************************************)
EXTENDS Transcript, Integers, FiniteSetsExt

CONSTANTS
  ContextLength,     \* context_length, in tokens
  ThresholdPercent,  \* threshold_percent
  TargetPercent,     \* target_ratio
  ProtectFirstN, ProtectLastN,
  FallbackShown,     \* messages a fallback summary shows: 8 in the code
  LongTokens, ShortTokens,  \* tokens of a long message and of any other
  MaxResults,        \* bound: tool results of one assistant message
  MaxMessages        \* bound: messages of a behaviour

ASSUME SizesAreNaturals ==
  /\ ContextLength \in Nat /\ ThresholdPercent \in 0..100
  /\ TargetPercent \in 0..100 /\ ProtectFirstN \in Nat
  /\ ProtectLastN \in Nat /\ FallbackShown \in Nat
  /\ LongTokens \in Nat /\ ShortTokens \in Nat
  /\ MaxResults \in Nat /\ MaxMessages \in Nat

Roles == {"system", "user", "assistant", "tool"}

\* A message: an assistant message may carry tool calls; a "long" text or
\* argument list is "pruned" once it is cut down; "covers" holds the
\* identities a message speaks for, its own or those a summary was made of.
Prunable(msg) == msg.long /\ (msg.role = "tool" \/ msg.calls)

Message ==
  {msg \in [role : Roles, id : Nat, calls : BOOLEAN, long : BOOLEAN,
             pruned : BOOLEAN, covers : SUBSET Nat] :
     msg.pruned => Prunable(msg)}

VARIABLES
  history,            \* AgentLoop::history_
  compression_count,  \* compression_count_, only compared with zero: 0 or 1
  previous_summary,   \* previous_summary_: what it covers, {} when empty
  abort_on_failure,   \* config_.abort_on_summary_failure
  running,            \* is a run() under way?
  next_id,            \* identity of the next message; 0 is a summary's
  session_start,      \* the first identity of this session
  fell_back           \* was a fallback summary made in this session?

vars == <<history, compression_count, previous_summary, abort_on_failure,
          running, next_id, session_start, fell_back>>

------------------------------------------------------------------------------
(* Budgets: recompute_budgets(), estimate_tokens() *)

Least(a, b)    == IF a <= b THEN a ELSE b
Greatest(a, b) == IF a <= b THEN b ELSE a

MinContextFloor == 64000

ThresholdTokens ==
  LET percent == Least(95, Greatest(5, ThresholdPercent))
      floored == Greatest((ContextLength * percent) \div 100, MinContextFloor)
  IN  IF floored >= ContextLength
      THEN Greatest(1, Least((ContextLength * 85) \div 100, ContextLength - 1))
      ELSE floored

TailTokenBudget ==
  (ThresholdTokens * Least(80, Greatest(10, TargetPercent))) \div 100

Tokens(msg) == IF msg.long /\ ~msg.pruned THEN LongTokens ELSE ShortTokens

EstimateTokens(msgs) ==
  MapThenSumSet(LAMBDA i : Tokens(msgs[i]), 1..Len(msgs))

------------------------------------------------------------------------------
(* Where the head ends and the tail begins.  "head" and "cut" count messages:
   the middle is head + 1 .. cut. *)

ProtectHeadSize(msgs) ==
  LET system == IF msgs[1].role = "system" THEN 1 ELSE 0
      kept == IF compression_count = 0 /\ previous_summary = {}
              THEN Least(system + ProtectFirstN, Len(msgs))
              ELSE system
  IN  Min({head \in kept..Len(msgs) :
             head = Len(msgs) \/ msgs[head + 1].role # "tool"})

\* The tail weighs ten tokens more for each of its messages.
TailWeight(msgs, cut) ==
  MapThenSumSet(LAMBDA i : Tokens(msgs[i]) + 10, cut + 1..Len(msgs))

\* The loop that grows the tail backwards until it is over its budget.
BudgetCut(msgs, head, min_tail) ==
  LET soft_ceiling == Greatest(1, (TailTokenBudget * 3) \div 2)
      Stops(cut) == /\ TailWeight(msgs, cut) > soft_ceiling
                    /\ Len(msgs) - cut >= min_tail
  IN  Min({cut \in head..Len(msgs) : \A c \in cut..Len(msgs) - 1 : ~Stops(c)})

\* Faulty variant: the fallback is not applied, the tail may be too short.
FindTailCutOverBudget(msgs, head) ==
  IF Len(msgs) <= head + 1 THEN Len(msgs)
  ELSE Greatest(BudgetCut(msgs, head, 0), head + 1)

\* Faulty variant: the newest dialogue message is not looked for.
FindTailCutAnywhere(msgs, head) ==
  IF Len(msgs) <= head + 1 THEN Len(msgs)
  ELSE LET min_tail == Least(ProtectLastN, Len(msgs) - head - 1)
           budget == Least(BudgetCut(msgs, head, min_tail),
                           Len(msgs) - min_tail)
       IN  IF budget <= head THEN Len(msgs) - min_tail ELSE budget

FindTailCut(msgs, head) ==
  LET n == Len(msgs)
      min_tail == Least(ProtectLastN, n - head - 1)
      fallback == n - min_tail
      budget == Least(BudgetCut(msgs, head, min_tail), fallback)
      split == IF budget <= head THEN Greatest(fallback, head + 1) ELSE budget
      dialogue == {i \in head..n - 1 : IsDialogue(msgs[i + 1])}
      kept == IF dialogue = {} THEN split ELSE Least(split, Max(dialogue))
  IN  IF n <= head + 1 THEN n ELSE Greatest(kept, head + 1)

\* prune_old_tool_results(): long tool results and long tool arguments before
\* the tail, those of the head included.
PruneOldToolResults(msgs) ==
  LET cut == FindTailCut(msgs, ProtectHeadSize(msgs))
  IN  [i \in 1..Len(msgs) |->
         IF i <= cut /\ Prunable(msgs[i])
         THEN [msgs[i] EXCEPT !.pruned = TRUE] ELSE msgs[i]]

------------------------------------------------------------------------------
(* compress(): a function of the messages, of the compressor's state and of
   whether the summariser answers *)

Covered(msgs) == UNION {msgs[i].covers : i \in 1..Len(msgs)}

\* Before a system, assistant or tool message nothing is flipped to it.
SummaryRole(last_head, first_tail) ==
  LET role    == IF last_head = "user" THEN "assistant" ELSE "user"
      flipped == IF role = "user" THEN "assistant" ELSE "user"
  IN  IF role = first_tail /\ flipped # last_head THEN flipped ELSE role

RoleAt(msgs, i) == IF i \in 1..Len(msgs) THEN msgs[i].role ELSE "user"

SummaryMessage(role, covers) ==
  [role |-> role, id |-> 0, calls |-> FALSE, long |-> FALSE,
   pruned |-> FALSE, covers |-> covers]

\* The text a summary is made of: summarize() feeds the previous summary and
\* the middle to the provider, static_fallback_summary() quotes the last few
\* messages of the middle.
SummaryCovers(middle, answered) ==
  IF answered THEN previous_summary \cup Covered(middle)
  ELSE Covered(SubSeq(middle, Greatest(1, Len(middle) - FallbackShown + 1),
                      Len(middle)))

\* Faulty variant: the first message of the tail is taken for the middle's.
RebuiltShort(pruned, head, cut, covers) ==
  SubSeq(pruned, 1, head) \o <<SummaryMessage("user", covers)>>
    \o SubSeq(pruned, cut + 2, Len(pruned))

\* Faulty variant: the tail is put before what was kept of the head.
RebuiltOutOfOrder(pruned, head, cut, covers) ==
  SubSeq(pruned, 1, 1) \o SubSeq(pruned, cut + 1, Len(pruned))
    \o <<SummaryMessage("user", covers)>> \o SubSeq(pruned, 2, head)

Rebuilt(pruned, head, cut, covers) ==
  LET role == SummaryRole(RoleAt(pruned, head), RoleAt(pruned, cut + 1))
  IN  SubSeq(pruned, 1, head) \o <<SummaryMessage(role, covers)>>
        \o SubSeq(pruned, cut + 1, Len(pruned))

NotCompressed(msgs) ==
  [messages |-> msgs, compressed |-> FALSE, fallback |-> FALSE,
   previous |-> previous_summary]

\* The part behind the searches: nothing to replace, no summary, or a summary.
CompressAt(msgs, pruned, head, cut, answered) ==
  LET covers == SummaryCovers(SubSeq(pruned, head + 1, cut), answered)
  IN  IF head >= cut THEN NotCompressed(pruned)
      ELSE IF ~answered /\ abort_on_failure THEN NotCompressed(msgs)
      ELSE [messages |-> Rebuilt(pruned, head, cut, covers),
            compressed |-> TRUE, fallback |-> ~answered,
            previous |-> IF answered THEN covers ELSE previous_summary]

CompressPruned(msgs, pruned, answered) ==
  LET head == ProtectHeadSize(pruned)
  IN  CompressAt(msgs, pruned, head, FindTailCut(pruned, head), answered)

Compress(msgs, answered) ==
  IF EstimateTokens(msgs) <= ThresholdTokens THEN NotCompressed(msgs)
  ELSE CompressPruned(msgs, PruneOldToolResults(msgs), answered)

------------------------------------------------------------------------------
(* The callers *)

SystemPrompt == [role |-> "system", id |-> 0, calls |-> FALSE,
                 long |-> FALSE, pruned |-> FALSE, covers |-> {}]

Messages == <<SystemPrompt>> \o history

Said(role, id, calls, long) ==
  [role |-> role, id |-> id, calls |-> calls, long |-> long,
   pruned |-> FALSE, covers |-> {id}]

Init ==
  /\ history = << >>
  /\ compression_count = 0 /\ previous_summary = {}
  /\ abort_on_failure \in BOOLEAN
  /\ running = FALSE
  /\ next_id = 1 /\ session_start = 1
  /\ fell_back = FALSE

\* run() starts with the user's message.
UserSays ==
  /\ ~running
  /\ next_id <= MaxMessages
  /\ \E long \in BOOLEAN :
       history' = Append(history, Said("user", next_id, FALSE, long))
  /\ next_id' = next_id + 1
  /\ running' = TRUE
  /\ UNCHANGED <<compression_count, previous_summary, abort_on_failure,
                 session_start, fell_back>>

\* What becomes of the compressor and of the history after a compress() whose
\* result the caller takes up or not.
AfterCompress(result, taken, reply) ==
  /\ history' = (IF taken THEN Tail(result.messages) ELSE history) \o reply
  /\ compression_count' = IF result.compressed THEN 1 ELSE compression_count
  /\ previous_summary' = result.previous
  /\ fell_back' = (fell_back \/ (taken /\ result.fallback))
  /\ next_id' = next_id + Len(reply)
  /\ UNCHANGED <<abort_on_failure, session_start>>

\* CallProviderStep: the compressed list is sent, and installed if shorter.
CallProvider(reply) ==
  /\ running
  /\ next_id + Len(reply) <= MaxMessages + 1
  /\ \E answered \in BOOLEAN :
       LET result == Compress(Messages, answered)
       IN  AfterCompress(result, /\ result.compressed
                                 /\ Len(result.messages) < Len(Messages),
                         reply)

\* The answer is a text, and ends the run; or an error, with the same end.
Answer ==
  /\ \E long \in BOOLEAN, fails \in BOOLEAN :
       CallProvider(IF fails THEN << >>
                    ELSE <<Said("assistant", next_id, FALSE, long)>>)
  /\ running' = FALSE

\* The answer asks for tools; their results are collected behind it.
ToolTurn ==
  /\ \E long \in BOOLEAN, results \in UNION {[1..n -> BOOLEAN] : n \in 1..MaxResults} :
       CallProvider(<<Said("assistant", next_id, TRUE, long)>>
                      \o [k \in 1..Len(results) |->
                            Said("tool", next_id + k, FALSE, results[k])])
  /\ running' = TRUE

\* run() may stop after any tool turn: the last iteration, an interrupt.
EndRun ==
  /\ running
  /\ running' = FALSE
  /\ UNCHANGED <<history, compression_count, previous_summary,
                 abort_on_failure, next_id, session_start, fell_back>>

\* /compact: compress_context() installs what was compressed.
CompressContext ==
  /\ ~running
  /\ \E answered \in BOOLEAN :
       LET result == Compress(Messages, answered)
       IN  AfterCompress(result, result.compressed, << >>)
  /\ UNCHANGED running

\* /new: the compressor is not told.
NewSession ==
  /\ ~running
  /\ history' = << >>
  /\ session_start' = next_id
  /\ fell_back' = FALSE
  /\ UNCHANGED <<compression_count, previous_summary, abort_on_failure,
                 running, next_id>>

Next == UserSays \/ Answer \/ ToolTurn \/ EndRun \/ CompressContext \/ NewSession

Spec == Init /\ [][Next]_vars

------------------------------------------------------------------------------
(* Properties *)

(* What the variables hold; only a long tool result or long tool arguments are
   ever cut down. *)
TypeOK ==
  /\ history \in Seq(Message)
  /\ compression_count \in 0..1
  /\ previous_summary \in SUBSET Nat
  /\ abort_on_failure \in BOOLEAN /\ running \in BOOLEAN
  /\ next_id \in Nat \ {0} /\ session_start \in Nat \ {0}
  /\ fell_back \in BOOLEAN

(* Whatever is said in a session stays before the model, itself or in a
   summary made of it, in the history and in the request of the next call,
   however often it is compressed; only a fallback summary may drop it. *)
NothingForgotten ==
  ~fell_back =>
    /\ session_start..next_id - 1 \subseteq Covered(history)
    /\ session_start..next_id - 1
         \subseteq Covered(Compress(Messages, TRUE).messages)

(* The stretch compress() replaces is one AgentLoop reckons with: it does not
   begin at a tool result, and it leaves a user or assistant message behind it
   unless it is a single message (protect_head_size, find_tail_cut). *)
CutIsAllowed ==
  LET pruned == PruneOldToolResults(Messages)
      head == ProtectHeadSize(pruned)
      cut == FindTailCut(pruned, head)
  IN  head < cut => <<head - 1, cut - 1>> \in Cuts(history)

(* The protect_last_n most recent messages, or all behind the head but one,
   survive a compress() word for word, whoever pruned or summarised before. *)
RecentMessagesVerbatim ==
  \A answered \in BOOLEAN :
    LET kept == Compress(Messages, answered).messages
        recent == Least(ProtectLastN, Len(Messages) - ProtectHeadSize(Messages) - 1)
    IN  \A i \in 0..recent - 1 :
          kept[Len(kept) - i] = Messages[Len(Messages) - i]

(* The messages of a compressed context are in the order they were said. *)
OrderKept ==
  \A i, j \in 1..Len(history) :
    i < j /\ history[i].id # 0 /\ history[j].id # 0
      => history[i].id < history[j].id

(* "Always keep the most recent user/assistant message in the tail": the
   request of a run holds it, whole or pruned. *)
NewestDialogueKept ==
  LET dialogue == {i \in 1..Len(history) : IsDialogue(history[i])}
      request == Compress(Messages, TRUE).messages
  IN  running /\ dialogue # {} =>
        history[Max(dialogue)].id \in Ids(request)

=============================================================================
