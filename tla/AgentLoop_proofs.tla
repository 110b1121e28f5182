--------------------------- MODULE AgentLoop_proofs ---------------------------
(***************************************************************************)
(* Machine-checked invariants of AgentLoop, for every number of iterations, *)
(* calls, runs and messages, every set of tool kinds and every switch: its  *)
(* types, the permission gates of the tool loop, and what saving leaves     *)
(* behind; then the conversation it keeps, which is its history, its rows   *)
(* and the messages not saved yet, and what a step of a run may never do.   *)
(***************************************************************************)
EXTENDS AgentLoop, SequenceTheorems, TLAPS

------------------------------------------------------------------------------
(* Messages *)

\* Every constructor of a message returns a message.
LEMMA MessageTypes ==
  ASSUME NEW id \in Nat, NEW n \in Nat, NEW of \in Nat, NEW m \in Modes,
         NEW role \in {"user", "assistant"}
  PROVE  /\ UserMessage(id, m) \in Message
         /\ AssistantMessage(id, n) \in Message
         /\ ToolMessage(id, of, n) \in Message
         /\ SystemMessage(id) \in Message
         /\ SummaryMessage(id, role) \in Message
  BY DEF UserMessage, AssistantMessage, ToolMessage, SystemMessage,
         SummaryMessage, Message, Roles, Modes

\* The identities of a list of messages are naturals.
LEMMA IdsAreNaturals ==
  ASSUME NEW msgs \in Seq(Message)
  PROVE  Ids(msgs) \subseteq Nat
<1>1. \A i \in 1..Len(msgs) : msgs[i] \in Message
  BY ElementOfSeq
<1>2. \A i \in 1..Len(msgs) : msgs[i].id \in Nat
  BY <1>1 DEF Message
<1> QED
  BY <1>2 DEF Ids

\* append_to_history() keeps both lists sequences of messages.
LEMMA AppendToHistoryType ==
  ASSUME TypeOK, NEW msgs \in Seq(Message), AppendToHistory(msgs)
  PROVE  /\ history' \in Seq(Message) /\ pending_persist' \in Seq(Message)
         /\ said' \in SUBSET Nat /\ next_id' \in Nat
<1>1. Ids(msgs) \subseteq Nat
  BY IdsAreNaturals
<1>2. history' \in Seq(Message) /\ pending_persist' \in Seq(Message)
  BY ConcatProperties DEF AppendToHistory, TypeOK
<1>3. said' \in SUBSET Nat
  BY <1>1 DEF AppendToHistory, TypeOK
<1>4. next_id' \in Nat
  BY DEF AppendToHistory, TypeOK
<1> QED
  BY <1>2, <1>3, <1>4

\* The compressed list is a sequence of messages.
LEMMA CompressedAtType ==
  ASSUME NEW msgs \in Seq(Message), next_id \in Nat, NEW cut \in Cuts(msgs),
         NEW role \in {"user", "assistant"}
  PROVE  CompressedAt(msgs, cut, role) \in Seq(Message)
<1>1. /\ cut[1] \in 0..Len(msgs) /\ cut[2] \in 1..Len(msgs)
  BY DEF Cuts
<1>2. SubSeq(msgs, 1, cut[1]) \in Seq(Message)
  BY <1>1, SubSeqProperties
<1>3. SubSeq(msgs, cut[2] + 1, Len(msgs)) \in Seq(Message)
  BY <1>1, SubSeqProperties
<1>4. <<SummaryMessage(next_id, role)>> \in Seq(Message)
  BY DEF SummaryMessage, Message, Roles
<1> QED
  BY <1>2, <1>3, <1>4, ConcatProperties DEF CompressedAt

------------------------------------------------------------------------------
(* Type correctness *)

\* The conversations and runs are counted within their bounds.
Counted ==
  /\ created <= runs
  /\ runs <= MaxRuns

TypeInv == TypeOK /\ Counted

LEMMA NoCtxType == NoCtx \in CtxType
  BY DEF NoCtx, CtxType, Modes

\* The fields of a TurnContext.
LEMMA CtxFields ==
  ASSUME NEW c \in CtxType
  PROVE  /\ c.results \in Nat /\ c.id \in Nat /\ c.compressed \in BOOLEAN
         /\ c.mode \in Modes /\ c.plan_file \in BOOLEAN
         /\ c.calls \in Seq(Kinds)
  BY DEF CtxType

\* What the steps write into a TurnContext keeps its type.
LEMMA CtxUpdates ==
  ASSUME NEW c \in CtxType
  PROVE  /\ [c EXCEPT !.results = c.results + 1] \in CtxType
         /\ [c EXCEPT !.stop = TRUE] \in CtxType
         /\ [c EXCEPT !.calls = << >>, !.results = 0] \in CtxType
<1>1. << >> \in Seq(Kinds)
  OBVIOUS
<1>2. c.results + 1 \in Nat
  BY DEF CtxType
<1>3. [c EXCEPT !.results = c.results + 1] \in CtxType
  BY <1>2 DEF CtxType
<1>4. [c EXCEPT !.stop = TRUE] \in CtxType
  BY DEF CtxType
<1>5. [c EXCEPT !.calls = << >>, !.results = 0] \in CtxType
  BY <1>1 DEF CtxType
<1> QED
  BY <1>3, <1>4, <1>5

LEMMA InitTypeInv == Init => TypeInv
<1> SUFFICES ASSUME Init PROVE TypeInv
  OBVIOUS
<1>1. store \in [Conversations -> TranscriptOf(Message)]
  BY DEF Init, TranscriptOf, EmptyTranscript
<1>2. ctx \in CtxType
  BY NoCtxType DEF Init
<1>3. last_exec \in [kind : AllKinds \cup {"none"}, mode : Modes,
                     asked : BOOLEAN]
  BY DEF Init, NoExec, Modes
<1>4. << >> \in Seq(Message)
  OBVIOUS
<1>5. Counted
  BY BoundsAreNaturals DEF Init, Counted
<1>6. TypeOK
  BY <1>1, <1>2, <1>3, <1>4
     DEF Init, TypeOK, Modes, NoConversation
<1> QED
  BY <1>5, <1>6 DEF TypeInv

\* run() keeps the types; a conversation is created only with a new run.
LEMMA RunTypeInv == TypeInv /\ Run => TypeInv'
<1> SUFFICES ASSUME TypeInv, Run PROVE TypeInv'
  OBVIOUS
<1>1. <<UserMessage(next_id, mode)>> \in Seq(Message)
  BY MessageTypes DEF TypeInv, TypeOK
<1>2. /\ history' \in Seq(Message) /\ pending_persist' \in Seq(Message)
      /\ said' \in SUBSET Nat /\ next_id' \in Nat
  BY <1>1, AppendToHistoryType DEF Run, TypeInv
<1>3. /\ conversation_id' \in Conversations \cup {NoConversation}
      /\ created' \in Nat /\ created' <= runs'
      /\ runs' \in Nat /\ runs' <= MaxRuns
  BY BoundsAreNaturals
     DEF Run, CreateConversation, TypeInv, TypeOK, Counted, Conversations,
         NoConversation
<1>4. store_failed' \in BOOLEAN
  BY DEF Run, CreateConversation, TypeInv, TypeOK
<1> QED
  BY <1>2, <1>3, <1>4
     DEF Run, TypeInv, TypeOK, Counted, permissionVars, RunPoints

\* CallProviderStep keeps the types: the answer is a sequence of calls, and a
\* compressed history a sequence of messages.
LEMMA CallProviderTypeInv == TypeInv /\ CallProvider => TypeInv'
<1> SUFFICES ASSUME TypeInv, CallProvider PROVE TypeInv'
  OBVIOUS
<1>1. PICK compressed \in BOOLEAN :
        /\ CompressHistory(compressed)
        /\ ProviderAnswers(compressed) \/ ReturnError
  BY DEF CallProvider
<1>2. history' \in Seq(Message) /\ next_id' \in Nat
  <2>1. CASE ~compressed
    BY <1>1, <2>1 DEF CompressHistory, TypeInv, TypeOK
  <2>2. CASE compressed
    <3>1. PICK cut \in Cuts(history), role \in {"user", "assistant"} :
            history' = CompressedAt(history, cut, role)
      BY <1>1, <2>2 DEF CompressHistory
    <3>2. history' \in Seq(Message)
      BY <3>1, CompressedAtType DEF TypeInv, TypeOK
    <3> QED
      BY <1>1, <2>2, <3>2 DEF CompressHistory, TypeInv, TypeOK
  <2> QED
    BY <2>1, <2>2
<1>3. /\ ctx' \in CtxType /\ pc' \in {"parse", "idle"}
      /\ iteration' \in Nat /\ compression_applied' \in BOOLEAN
      /\ outcome' \in {"running", "error"} \cup {outcome}
      /\ UNCHANGED <<live, runs>>
  <2>1. CASE ReturnError
    BY <2>1, NoCtxType DEF ReturnError
  <2>2. CASE ProviderAnswers(compressed)
    <3>1. PICK n \in 0..MaxCalls, tool_use \in BOOLEAN :
            \E calls \in [1..n -> Kinds] :
              ctx' = [ctx EXCEPT !.calls = calls, !.tool_use = tool_use,
                                 !.compressed = compressed]
      BY <2>2 DEF ProviderAnswers
    <3>2. PICK calls \in [1..n -> Kinds] :
              ctx' = [ctx EXCEPT !.calls = calls, !.tool_use = tool_use,
                                 !.compressed = compressed]
      BY <3>1
    <3>3. calls \in Seq(Kinds)
      BY <3>1, <3>2, BoundsAreNaturals
    <3>4. ctx' \in CtxType
      BY <3>2, <3>3 DEF TypeInv, TypeOK, CtxType
    <3> QED
      BY <2>2, <3>4 DEF ProviderAnswers, TypeInv, TypeOK
  <2> QED
    BY <1>1, <2>1, <2>2
<1> QED
  BY <1>2, <1>3
     DEF CallProvider, TypeInv, TypeOK, Counted, permissionVars, ghostVars,
         RunPoints, ChainSteps

\* The steps that append to the conversation keep the types.
LEMMA AppendingTypeInv ==
  TypeInv /\ (ParseResponse \/ CollectResults \/ PlanHandoff) => TypeInv'
<1> SUFFICES ASSUME TypeInv, ParseResponse \/ CollectResults \/ PlanHandoff
             PROVE  TypeInv'
  OBVIOUS
<1>1. CASE ParseResponse
  <2>1. <<AssistantMessage(next_id, Len(ctx.calls))>> \in Seq(Message)
    BY MessageTypes DEF TypeInv, TypeOK, CtxType, Modes
  <2>2. /\ history' \in Seq(Message) /\ pending_persist' \in Seq(Message)
        /\ said' \in SUBSET Nat /\ next_id' \in Nat
    BY <1>1, <2>1, AppendToHistoryType DEF ParseResponse, TypeInv
  <2>3. ctx' \in CtxType
    BY <1>1 DEF ParseResponse, TypeInv, TypeOK, CtxType
  <2> QED
    BY <1>1, <2>2, <2>3
       DEF ParseResponse, TypeInv, TypeOK, Counted, permissionVars, ghostVars,
           RunPoints, ChainSteps
<1>2. CASE CollectResults
  <2> DEFINE msgs == [i \in 1..ctx.results |->
                        ToolMessage(next_id + i - 1, ctx.id, i)]
  <2>1. ctx.results \in Nat /\ ctx.id \in Nat /\ next_id \in Nat
    BY DEF TypeInv, TypeOK, CtxType
  <2>2. msgs \in Seq(Message)
    <3>1. \A i \in 1..ctx.results :
            ToolMessage(next_id + i - 1, ctx.id, i) \in Message
      BY <2>1 DEF ToolMessage, Message, Roles
    <3> QED
      BY <2>1, <3>1, IsASeq
  <2>3. AppendToHistory(msgs)
    BY <1>2 DEF CollectResults
  <2> HIDE DEF msgs
  <2>4. /\ history' \in Seq(Message) /\ pending_persist' \in Seq(Message)
        /\ said' \in SUBSET Nat /\ next_id' \in Nat
    BY <2>2, <2>3, AppendToHistoryType DEF TypeInv
  <2>5. ctx' \in CtxType
    BY <1>2, <2>1, CtxUpdates DEF CollectResults, TypeInv, TypeOK
  <2> QED
    BY <1>2, <2>4, <2>5
       DEF CollectResults, TypeInv, TypeOK, Counted, permissionVars,
           ghostVars, RunPoints
<1>3. CASE PlanHandoff
  <2>1. Restored \in Modes
    BY DEF Restored, TypeInv, TypeOK, Modes
  <2>2. <<UserMessage(next_id, Restored)>> \in Seq(Message)
    BY <2>1, MessageTypes DEF TypeInv, TypeOK
  <2>3. /\ history' \in Seq(Message) /\ pending_persist' \in Seq(Message)
        /\ said' \in SUBSET Nat /\ next_id' \in Nat
    BY <1>3, <2>2, AppendToHistoryType DEF PlanHandoff, TypeInv
  <2>4. ctx' \in CtxType
    BY <1>3, NoCtxType DEF PlanHandoff, NextIteration
  <2>5. ctx.compressed \in BOOLEAN
    BY CtxFields DEF TypeInv, TypeOK
  <2>6. iteration' \in Nat /\ compression_applied' \in BOOLEAN
    BY <1>3, <2>5 DEF PlanHandoff, NextIteration, TypeInv, TypeOK
  <2> QED
    BY ZenonT(30), <1>3, <2>1, <2>3, <2>4, <2>6
       DEF PlanHandoff, NextIteration, TypeInv, TypeOK, Counted, ghostVars,
           RunPoints
<1> QED
  BY <1>1, <1>2, <1>3

\* The steps that only move the thread or change its TurnContext.
LEMMA ControlTypeInv ==
  ASSUME TypeInv,
         \/ BeginIteration \/ MaxIterationsReached \/ Interrupted
         \/ ChainStopped \/ ExecuteTools \/ ToolBlocked \/ ToolRejected
         \/ ApprovalAborted \/ ToolsDone \/ EndTurn \/ ContinueTurn
  PROVE  TypeInv'
<1> USE DEF TypeInv, TypeOK, Counted, messageVars, permissionVars, ghostVars,
            RunPoints, ChainSteps, SavePoints
<1>1. CASE BeginIteration
  <2>1. ctx' \in CtxType
    BY <1>1, NoCtxType DEF BeginIteration, CtxType
  <2> QED
    BY <1>1, <2>1 DEF BeginIteration
<1>2. CASE MaxIterationsReached
  BY <1>2, NoCtxType DEF MaxIterationsReached, ReturnOk
<1>3. CASE Interrupted
  BY <1>3, NoCtxType DEF Interrupted, ReturnError
<1>4. CASE ChainStopped
  BY <1>4 DEF ChainStopped
<1>5. CASE ExecuteTools
  BY <1>5 DEF ExecuteTools
<1>6. CASE ToolBlocked \/ ToolRejected
  <2>1. ctx' \in CtxType
    <3>1. ctx \in CtxType
      OBVIOUS
    <3>2. ctx' = [ctx EXCEPT !.results = ctx.results + 1]
      BY <1>6 DEF ToolBlocked, ToolRejected, PushResult
    <3> QED
      BY <3>1, <3>2, CtxUpdates
  <2> QED
    BY <1>6, <2>1 DEF ToolBlocked, ToolRejected, PushResult
<1>7. CASE ApprovalAborted
  <2>1. ctx' \in CtxType
    BY <1>7 DEF ApprovalAborted, CtxType
  <2> QED
    BY <1>7, <2>1 DEF ApprovalAborted
<1>8. CASE ToolsDone
  BY <1>8 DEF ToolsDone
<1>9. CASE EndTurn
  BY <1>9, NoCtxType DEF EndTurn, ReturnOk, CtxType
<1>10. CASE ContinueTurn
  BY <1>10, NoCtxType DEF ContinueTurn, NextIteration, CtxType
<1> QED
  BY <1>1, <1>2, <1>3, <1>4, <1>5, <1>6, <1>7, <1>8, <1>9, <1>10

\* A tool that is executed keeps the types; plan_exit restores a mode.
LEMMA ToolExecutedTypeInv == TypeInv /\ ToolExecuted => TypeInv'
<1> SUFFICES ASSUME TypeInv, ToolExecuted PROVE TypeInv'
  OBVIOUS
<1>1. ctx \in CtxType
  BY DEF TypeInv, TypeOK
<1>2. ctx' \in CtxType
  <2>1. ctx' = [ctx EXCEPT !.results = ctx.results + 1]
    BY DEF ToolExecuted, PushResult
  <2> QED
    BY <1>1, <2>1, CtxUpdates
<1>3. last_exec' \in [kind : AllKinds \cup {"none"}, mode : Modes,
                      asked : BOOLEAN]
  <2>1. ctx.calls \in Seq(Kinds) /\ ctx.results \in Nat
    BY <1>1, CtxFields
  <2>2. Call \in Kinds
    BY <2>1, ElementOfSeq DEF ToolExecuted, HasCall, Call
  <2>3. NeedsApproval(Call) \in BOOLEAN
    BY DEF NeedsApproval
  <2> QED
    BY <2>2, <2>3, KindsAreKnown DEF ToolExecuted, TypeInv, TypeOK
<1>4. /\ mode' \in Modes /\ previous' \in Modes
      /\ exit_approved' \in BOOLEAN /\ plan_file' \in BOOLEAN
      /\ plan_approved' \in BOOLEAN
  <2>1. Restored \in Modes
    BY DEF Restored, TypeInv, TypeOK, Modes
  <2> QED
    BY <2>1 DEF ToolExecuted, PlanExit, permissionVars, TypeInv, TypeOK
<1> QED
  BY <1>2, <1>3, <1>4
     DEF ToolExecuted, PushResult, messageVars, TypeInv, TypeOK, Counted

\* The three verdicts of the loop guard keep the types.
LEMMA LoopDetectTypeInv == TypeInv /\ LoopDetect => TypeInv'
<1> SUFFICES ASSUME TypeInv, LoopDetect PROVE TypeInv'
  OBVIOUS
<1>1. ctx \in CtxType /\ next_id \in Nat /\ history \in Seq(Message)
  BY DEF TypeInv, TypeOK
<1>2. ctx' \in CtxType /\ history' \in Seq(Message) /\ next_id' \in Nat
  <2>1. CASE LoopContinue
    BY <1>1, <2>1 DEF LoopContinue
  <2>2. CASE LoopBlock
    <3>1. SystemMessage(next_id) \in Message
      BY <1>1 DEF SystemMessage, Message, Roles
    <3>2. history' \in Seq(Message)
      BY <1>1, <2>2, <3>1, AppendProperties DEF LoopBlock
    <3>3. ctx' = [ctx EXCEPT !.calls = << >>, !.results = 0]
      BY <2>2 DEF LoopBlock
    <3>4. ctx' \in CtxType
      BY <1>1, <3>3, CtxUpdates
    <3> QED
      BY <1>1, <2>2, <3>2, <3>4 DEF LoopBlock
  <2>3. CASE LoopBreak
    BY <1>1, <2>3, CtxUpdates DEF LoopBreak
  <2> QED
    BY <2>1, <2>2, <2>3 DEF LoopDetect
<1> QED
  BY <1>2
     DEF LoopDetect, permissionVars, ghostVars, TypeInv, TypeOK, Counted,
         RunPoints, ChainSteps

------------------------------------------------------------------------------
(* The store's operations on one conversation *)

\* append() and archive_and_compact() keep a transcript a transcript.
LEMMA TranscriptUpdates ==
  ASSUME NEW conv \in TranscriptOf(Message), NEW msg \in Message,
         NEW msgs \in Seq(Message)
  PROVE  /\ Appended(conv, msg) \in TranscriptOf(Message)
         /\ Compacted(conv, msgs) \in TranscriptOf(Message)
         /\ Loaded(conv) \in Seq(Message)
<1>1. conv.archived \in Seq(Message) /\ conv.active \in Seq(Message)
  BY DEF TranscriptOf
<1>2. Append(conv.active, msg) \in Seq(Message)
  BY <1>1, AppendProperties
<1>3. conv.archived \o conv.active \in Seq(Message)
  BY <1>1, ConcatProperties
<1> QED
  BY <1>1, <1>2, <1>3 DEF Appended, Compacted, Loaded, TranscriptOf

\* Saving keeps the types.
LEMMA SavingTypeInv ==
  TypeInv /\ (PersistMessage \/ PersistDone \/ ArchiveAndCompact) => TypeInv'
<1> SUFFICES ASSUME TypeInv,
                    PersistMessage \/ PersistDone \/ ArchiveAndCompact
             PROVE  TypeInv'
  OBVIOUS
<1>1. CASE PersistMessage
  <2>1. /\ pending_persist \in Seq(Message) /\ pending_persist # << >>
        /\ store \in [Conversations -> TranscriptOf(Message)]
        /\ conversation_id \in Conversations
    BY <1>1 DEF PersistMessage, TypeInv, TypeOK
  <2>2. Head(pending_persist) \in Message
    BY <2>1, HeadTailProperties
  <2>3. Tail(pending_persist) \in Seq(Message)
    BY <2>1, HeadTailProperties
  <2>4. Appended(store[conversation_id], Head(pending_persist))
          \in TranscriptOf(Message)
    BY <2>1, <2>2, TranscriptUpdates
  <2>5. store' \in [Conversations -> TranscriptOf(Message)]
    BY <1>1, <2>1, <2>4 DEF PersistMessage
  <2>6. store_failed' \in BOOLEAN
    BY <1>1 DEF PersistMessage, TypeInv, TypeOK
  <2> QED
    BY <1>1, <2>3, <2>5, <2>6
       DEF PersistMessage, permissionVars, runVars, ghostVars, TypeInv, TypeOK,
           Counted
<1>2. CASE PersistDone
  <2>1. (compression_applied /\ Archives) \in BOOLEAN
    OBVIOUS
  <2> QED
    BY <1>2, <2>1
       DEF PersistDone, messageVars, permissionVars, ghostVars, TypeInv,
           TypeOK, Counted, SavePoints
<1>3. CASE ArchiveAndCompact
  <2> DEFINE kept == IF live = << >> THEN history ELSE live
  <2>1. kept \in Seq(Message)
    BY DEF TypeInv, TypeOK
  <2> HIDE DEF kept
  <2>2. store \in [Conversations -> TranscriptOf(Message)]
    BY DEF TypeInv, TypeOK
  <2>3. store' \in [Conversations -> TranscriptOf(Message)]
    <3>1. CASE UNCHANGED store
      BY <2>2, <3>1
    <3>2. CASE store' = [store EXCEPT ![conversation_id] =
                           Compacted(@, kept)]
      <4>1. ASSUME conversation_id \in Conversations
            PROVE  Compacted(store[conversation_id], kept)
                     \in TranscriptOf(Message)
        <5>1. store[conversation_id] \in TranscriptOf(Message)
          BY <2>2, <4>1
        <5> QED
          BY <2>1, <5>1, ConcatProperties DEF Compacted, TranscriptOf
      <4> QED
        BY <2>2, <3>2, <4>1
    <3> QED
      BY <1>3, <3>1, <3>2 DEF ArchiveAndCompact, kept
  <2>4. << >> \in Seq(Message)
    OBVIOUS
  <2>5. history' \in {history, kept} /\ pending_persist' \in {pending_persist, << >>}
    BY <1>3 DEF ArchiveAndCompact, kept
  <2>6. history' \in Seq(Message) /\ pending_persist' \in Seq(Message)
    BY <2>1, <2>4, <2>5 DEF TypeInv, TypeOK
  <2>7. /\ store_failed' \in BOOLEAN /\ live' \in Seq(Message)
        /\ compression_applied' \in BOOLEAN /\ pc' = "idle"
    BY <1>3, <2>4 DEF ArchiveAndCompact, TypeInv, TypeOK
  <2>8. UNCHANGED <<conversation_id, created, next_id, said, mode, previous,
                    exit_approved, plan_file, interrupted, iteration, ctx,
                    outcome, runs, last_exec, plan_approved>>
    BY <1>3 DEF ArchiveAndCompact, permissionVars, ghostVars
  <2> QED
    BY <2>3, <2>6, <2>7, <2>8 DEF TypeInv, TypeOK, Counted
<1> QED
  BY <1>1, <1>2, <1>3

------------------------------------------------------------------------------
(* The user's operations *)

\* compress_context() keeps the types.
LEMMA CompressContextTypeInv == TypeInv /\ CompressContext => TypeInv'
<1> SUFFICES ASSUME TypeInv, CompressContext PROVE TypeInv'
  OBVIOUS
<1>1. history \in Seq(Message) /\ next_id \in Nat
  BY DEF TypeInv, TypeOK
<1>2. PICK cut \in Cuts(history), role \in {"user", "assistant"} :
        LET compressed == CompressedAt(history, cut, role)
        IN IF Compression = "in_place" /\ conversation_id # NoConversation
           THEN /\ live' = compressed
                /\ pc' = "persist"
                /\ UNCHANGED <<history, pending_persist>>
           ELSE /\ history' = compressed
                /\ pending_persist' = << >>
                /\ UNCHANGED <<live, pc>>
  BY DEF CompressContext
<1>3. CompressedAt(history, cut, role) \in Seq(Message)
  BY <1>1, CompressedAtType
<1>4. << >> \in Seq(Message)
  OBVIOUS
<1>5. /\ history' \in Seq(Message) /\ pending_persist' \in Seq(Message)
      /\ live' \in Seq(Message) /\ pc' \in SavePoints \cup {"idle"}
  BY <1>2, <1>3, <1>4 DEF CompressContext, TypeInv, TypeOK, SavePoints
<1> QED
  BY <1>1, <1>5
     DEF CompressContext, permissionVars, ghostVars, TypeInv, TypeOK, Counted

\* Mode switches and a new session keep the types.
LEMMA ModesTypeInv ==
  ASSUME TypeInv, (\E m \in UiModes : SetPermissionMode(m)) \/ NewSession
  PROVE  TypeInv'
<1>1. ASSUME NEW m \in UiModes, SetPermissionMode(m) PROVE TypeInv'
  <2>1. /\ mode' \in Modes /\ previous' \in Modes
        /\ exit_approved' \in BOOLEAN /\ plan_file' \in BOOLEAN
    BY <1>1, UiModesAreModes DEF SetPermissionMode, TypeInv, TypeOK
  <2> QED
    BY <1>1, <2>1
       DEF SetPermissionMode, Idle, messageVars, runVars, ghostVars, TypeInv,
           TypeOK, Counted
<1>2. CASE NewSession
  <2>1. << >> \in Seq(Message)
    OBVIOUS
  <2>2. mode' \in Modes /\ exit_approved' \in BOOLEAN
    BY <1>2 DEF NewSession, Restored, TypeInv, TypeOK, Modes
  <2> QED
    BY <1>2, <2>1, <2>2
       DEF NewSession, Idle, runVars, ghostVars, TypeInv, TypeOK, Counted
<1> QED
  BY <1>1, <1>2

\* Every mode read from a stored message is a mode.
LEMMA LastUserModesType == \A msgs : LastUserModes(msgs) \subseteq Modes
  BY DEF LastUserModes, ModeFromName, Modes

\* restore_conversation() keeps the types.
LEMMA ResumeTypeInv ==
  ASSUME TypeInv, NEW c \in 1..created, Resume(c)
  PROVE  TypeInv'
<1>1. c \in Conversations
  BY BoundsAreNaturals DEF TypeInv, TypeOK, Counted, Conversations
<1>2. store[c] \in TranscriptOf(Message)
  BY <1>1 DEF TypeInv, TypeOK
<1>3. store[c].archived \in Seq(Message) /\ store[c].active \in Seq(Message)
  BY <1>2 DEF TranscriptOf
<1>4. history' \in Seq(Message)
  BY <1>3 DEF Resume, Loaded
<1>5. said' \in SUBSET Nat
  <2>1. Ids(store[c].archived) \subseteq Nat
    BY <1>3, IdsAreNaturals
  <2>2. Ids(store[c].active) \subseteq Nat
    BY <1>3, IdsAreNaturals
  <2> QED
    BY <2>1, <2>2 DEF Resume, StoredIds
<1>6. << >> \in Seq(Message)
  OBVIOUS
<1>7. /\ mode' \in Modes /\ previous' \in Modes
      /\ exit_approved' \in BOOLEAN /\ plan_file' \in BOOLEAN
  BY LastUserModesType DEF Resume, TypeInv, TypeOK
<1> QED
  BY <1>1, <1>4, <1>5, <1>6, <1>7
     DEF Resume, Idle, runVars, ghostVars, TypeInv, TypeOK, Counted

\* Interrupts and crashes keep the types.
LEMMA AsyncTypeInv == TypeInv /\ (Interrupt \/ Crash) => TypeInv'
<1> SUFFICES ASSUME TypeInv, Interrupt \/ Crash PROVE TypeInv'
  OBVIOUS
<1>1. CASE Interrupt
  BY <1>1 DEF Interrupt, messageVars, permissionVars, runVars, ghostVars,
              TypeInv, TypeOK, Counted
<1>2. CASE Crash
  <2>1. << >> \in Seq(Message)
    OBVIOUS
  <2>2. ctx' \in CtxType
    BY <1>2, NoCtxType DEF Crash
  <2>3. last_exec' \in [kind : AllKinds \cup {"none"}, mode : Modes,
                        asked : BOOLEAN]
    BY <1>2 DEF Crash, NoExec, Modes
  <2> QED
    BY <1>2, <2>1, <2>2, <2>3
       DEF Crash, NoConversation, Modes, TypeInv, TypeOK, Counted
<1> QED
  BY <1>1, <1>2

LEMMA NextTypeInv == TypeInv /\ [Next]_vars => TypeInv'
<1> SUFFICES ASSUME TypeInv, [Next]_vars PROVE TypeInv'
  OBVIOUS
<1>1. CASE Thread
  BY <1>1, CallProviderTypeInv, AppendingTypeInv, ControlTypeInv,
     ToolExecutedTypeInv, LoopDetectTypeInv, SavingTypeInv DEF Thread
<1>2. CASE User
  BY <1>2, RunTypeInv, CompressContextTypeInv, ModesTypeInv, ResumeTypeInv,
     AsyncTypeInv DEF User
<1>3. CASE Crash
  BY <1>3, AsyncTypeInv
<1>4. CASE UNCHANGED vars
  BY <1>4 DEF vars, messageVars, permissionVars, runVars, ghostVars, TypeInv,
              TypeOK, Counted
<1> QED
  BY <1>1, <1>2, <1>3, <1>4 DEF Next

\* Whatever the provider answers, the user does and the store loses, the state
\* of the loop is well typed.
THEOREM TypeCorrect == Spec => []TypeOK
<1>1. TypeInv => TypeOK
  BY DEF TypeInv
<1> QED
  BY <1>1, InitTypeInv, NextTypeInv, PTL DEF Spec

THEOREM TypeInvariant == Spec => []TypeInv
  BY InitTypeInv, NextTypeInv, PTL DEF Spec

------------------------------------------------------------------------------
(* The gates.  A tool call is judged by the mode its iteration started in,
   while the state is about the shared mode; the two differ only after
   plan_exit was approved in the same batch. *)

CapturedPoints == ChainSteps \cup {"tool", "turn"}

ModeCaptured ==
  pc \in CapturedPoints =>
    \/ mode = ctx.mode
    \/ ctx.mode = "plan" /\ mode # "plan"

GateInv ==
  /\ ModesAreConsistent
  /\ ModeCaptured
  /\ PlanModeIsReadOnly
  /\ MutationsAreApproved

LEMMA InitGateInv == Init => GateInv
  BY DEF Init, GateInv, ModesAreConsistent, ModeCaptured, PlanModeIsReadOnly,
         MutationsAreApproved, NoExec, CapturedPoints, ChainSteps, Mutating

\* A restored mode never is Plan.
LEMMA RestoredIsNotPlan == Restored # "plan"
  BY DEF Restored

\* The steps of an iteration write every field of the context but the mode.
LEMMA ContextKeepsMode ==
  ASSUME NEW c \in CtxType, NEW calls, NEW t, NEW b, NEW n
  PROVE  /\ [c EXCEPT !.calls = calls, !.tool_use = t, !.compressed = b].mode
              = c.mode
         /\ [c EXCEPT !.id = n, !.stop = b].mode = c.mode
         /\ [c EXCEPT !.results = n].mode = c.mode
         /\ [c EXCEPT !.stop = b].mode = c.mode
         /\ [c EXCEPT !.calls = calls, !.results = n].mode = c.mode
  BY DEF CtxType

\* The steps that execute no tool and leave the permission state alone keep
\* the gates.
LEMMA QuietStepsKeepGates ==
  ASSUME TypeInv, GateInv, UNCHANGED <<permissionVars, last_exec>>,
         pc' \in CapturedPoints => pc \in CapturedPoints /\ ctx'.mode = ctx.mode
  PROVE  GateInv'
  BY DEF GateInv, ModesAreConsistent, ModeCaptured, PlanModeIsReadOnly,
         MutationsAreApproved, permissionVars

LEMMA ChainStepsAreQuiet ==
  ASSUME TypeInv,
         \/ ChainStopped \/ CallProvider \/ ParseResponse \/ ExecuteTools
         \/ ToolBlocked \/ ToolRejected \/ ApprovalAborted \/ ToolsDone
         \/ LoopDetect \/ CollectResults
  PROVE  /\ UNCHANGED <<permissionVars, last_exec>>
         /\ pc' \in CapturedPoints =>
              pc \in CapturedPoints /\ ctx'.mode = ctx.mode
<1>0. ctx \in CtxType
  BY DEF TypeInv, TypeOK
<1> USE DEF CapturedPoints, ChainSteps, ghostVars, Enters
<1>1. CASE ChainStopped
  BY <1>1 DEF ChainStopped
<1>2. CASE CallProvider
  <2>1. PICK compressed \in BOOLEAN :
          ProviderAnswers(compressed) \/ ReturnError
    BY <1>2 DEF CallProvider
  <2>2. CASE ReturnError
    BY <1>2, <2>2 DEF CallProvider, ReturnError
  <2>3. CASE ProviderAnswers(compressed)
    <3>1. ctx'.mode = ctx.mode
      BY <1>0, <2>3, ContextKeepsMode DEF ProviderAnswers
    <3> QED
      BY <1>2, <3>1 DEF CallProvider
  <2> QED
    BY <2>1, <2>2, <2>3
<1>3. CASE ParseResponse
  BY <1>0, <1>3, ContextKeepsMode DEF ParseResponse
<1>4. CASE ExecuteTools
  BY <1>4 DEF ExecuteTools
<1>5. CASE ToolBlocked \/ ToolRejected
  <2>1. ctx' = [ctx EXCEPT !.results = ctx.results + 1] /\ pc = "tool"
    BY <1>5 DEF ToolBlocked, ToolRejected, PushResult, HasCall
  <2>2. ctx'.mode = ctx.mode
    BY <1>0, <2>1 DEF CtxType
  <2> QED
    BY <1>5, <2>1, <2>2 DEF ToolBlocked, ToolRejected, PushResult
<1>6. CASE ApprovalAborted
  BY <1>0, <1>6, ContextKeepsMode DEF ApprovalAborted, HasCall
<1>7. CASE ToolsDone
  BY <1>7 DEF ToolsDone
<1>8. CASE LoopDetect
  <2>1. ctx'.mode = ctx.mode
    <3>1. CASE LoopContinue
      BY <3>1 DEF LoopContinue
    <3>2. CASE LoopBlock
      BY <1>0, <3>2, ContextKeepsMode DEF LoopBlock
    <3>3. CASE LoopBreak
      BY <1>0, <3>3, ContextKeepsMode DEF LoopBreak
    <3> QED
      BY <1>8, <3>1, <3>2, <3>3 DEF LoopDetect
  <2> QED
    BY <1>8, <2>1 DEF LoopDetect
<1>9. CASE CollectResults
  BY <1>0, <1>9, ContextKeepsMode DEF CollectResults
<1> QED
  BY <1>1, <1>2, <1>3, <1>4, <1>5, <1>6, <1>7, <1>8, <1>9

\* Outside the iterations no mode is captured.
LEMMA OuterStepsAreQuiet ==
  ASSUME \/ MaxIterationsReached \/ Interrupted \/ EndTurn \/ ContinueTurn
         \/ PersistMessage \/ PersistDone \/ ArchiveAndCompact
         \/ Run \/ CompressContext
         \/ Interrupt
  PROVE  /\ UNCHANGED <<permissionVars, last_exec>>
         /\ pc' \in CapturedPoints =>
              pc \in CapturedPoints /\ ctx'.mode = ctx.mode
<1> USE DEF CapturedPoints, ChainSteps, ghostVars, runVars
<1>1. CASE MaxIterationsReached \/ EndTurn
  BY <1>1 DEF MaxIterationsReached, EndTurn, ReturnOk
<1>2. CASE Interrupted
  BY <1>2 DEF Interrupted, ReturnError
<1>3. CASE ContinueTurn
  BY <1>3 DEF ContinueTurn, NextIteration
<1>4. CASE PersistMessage \/ PersistDone \/ ArchiveAndCompact
  BY <1>4 DEF PersistMessage, PersistDone, ArchiveAndCompact
<1>5. CASE Run
  BY <1>5 DEF Run
<1>6. CASE CompressContext
  BY <1>6 DEF CompressContext
<1>7. CASE Interrupt
  BY <1>7 DEF Interrupt
<1> QED
  BY <1>1, <1>2, <1>3, <1>4, <1>5, <1>6, <1>7

\* An executed tool passed the gates in the mode of its iteration.
LEMMA ToolExecutedKeepsGates ==
  ASSUME TypeInv, GateInv, ToolExecuted
  PROVE  GateInv'
<1>1. /\ ctx \in CtxType /\ pc = "tool" /\ pc' = "tool"
      /\ ctx'.mode = ctx.mode /\ mode \in Modes
  BY ContextKeepsMode
     DEF TypeInv, TypeOK, ToolExecuted, PushResult, HasCall
<1>2. mode = ctx.mode \/ (ctx.mode = "plan" /\ mode # "plan")
  BY <1>1 DEF GateInv, ModeCaptured, CapturedPoints
<1>3. \/ UNCHANGED permissionVars
      \/ /\ mode = "plan" /\ mode' = Restored
         /\ UNCHANGED <<previous, plan_file>>
  BY DEF ToolExecuted, PlanExit
<1>4. ModesAreConsistent'
  BY <1>3 DEF GateInv, ModesAreConsistent, Restored, permissionVars
<1>5. ModeCaptured'
  BY <1>1, <1>2, <1>3, RestoredIsNotPlan
     DEF ModeCaptured, permissionVars
<1>6. last_exec' = [kind |-> Call, mode |-> mode, asked |-> NeedsApproval(Call)]
  BY DEF ToolExecuted
<1>7. ctx.mode = "plan" => Call \in {"read", "plan_exit", "plan_edit"}
  BY DEF ToolExecuted, Blocked, PlanModeAllows
<1>8. PlanModeIsReadOnly'
  BY <1>2, <1>6, <1>7 DEF PlanModeIsReadOnly
<1>9. MutationsAreApproved'
  <2> SUFFICES ASSUME Call \in Mutating, ~NeedsApproval(Call)
               PROVE  \/ mode \in {"auto", "plan"}
                      \/ mode = "acceptEdits" /\ Call \in FileWrite
                      \/ Call = "plan_edit"
    BY <1>6 DEF MutationsAreApproved
  <2>1. CASE ctx.mode = "plan"
    BY <1>7, <2>1 DEF Mutating
  <2>2. CASE mode = ctx.mode
    BY <1>1, <2>2 DEF NeedsApproval, Modes
  <2> QED
    BY <1>2, <2>1, <2>2
<1> QED
  BY <1>4, <1>5, <1>8, <1>9 DEF GateInv

\* The steps that change the permission state keep the gates.
LEMMA ModeChangesKeepGates ==
  ASSUME TypeInv, GateInv,
         \/ BeginIteration \/ PlanHandoff \/ NewSession \/ Crash
         \/ \E m \in UiModes : SetPermissionMode(m)
         \/ \E c \in 1..created : Resume(c)
  PROVE  GateInv'
<1> USE DEF GateInv, ModesAreConsistent, ModeCaptured, PlanModeIsReadOnly,
            MutationsAreApproved, CapturedPoints, ChainSteps
<1>1. CASE BeginIteration
  <2>1. ctx'.mode = mode
    BY <1>1 DEF BeginIteration, NoCtx
  <2> QED
    BY <1>1, <2>1 DEF BeginIteration, permissionVars, ghostVars
<1>2. CASE PlanHandoff
  BY <1>2 DEF PlanHandoff, NextIteration, Restored, ghostVars
<1>3. CASE NewSession
  BY <1>3 DEF NewSession, Idle, Restored, runVars, ghostVars
<1>4. CASE Crash
  BY <1>4 DEF Crash, NoExec, Mutating
<1>5. ASSUME NEW m \in UiModes, SetPermissionMode(m) PROVE GateInv'
  BY <1>5 DEF SetPermissionMode, Idle, runVars, ghostVars
<1>6. ASSUME NEW c \in 1..created, Resume(c) PROVE GateInv'
  BY <1>6 DEF Resume, Idle, runVars, ghostVars
<1> QED
  BY <1>1, <1>2, <1>3, <1>4, <1>5, <1>6

LEMMA NextGateInv == TypeInv /\ GateInv /\ [Next]_vars => GateInv'
<1> SUFFICES ASSUME TypeInv, GateInv, [Next]_vars PROVE GateInv'
  OBVIOUS
<1>1. CASE Thread
  BY <1>1, ChainStepsAreQuiet, OuterStepsAreQuiet, QuietStepsKeepGates,
     ToolExecutedKeepsGates, ModeChangesKeepGates DEF Thread
<1>2. CASE User
  BY <1>2, OuterStepsAreQuiet, QuietStepsKeepGates, ModeChangesKeepGates
     DEF User
<1>3. CASE Crash
  BY <1>3, ModeChangesKeepGates
<1>4. CASE UNCHANGED vars
  BY <1>4, QuietStepsKeepGates
     DEF vars, permissionVars, ghostVars, runVars
<1> QED
  BY <1>1, <1>2, <1>3, <1>4 DEF Next

\* The permission state never disagrees with itself.
THEOREM ModesConsistent == Spec => []ModesAreConsistent
<1>1. GateInv => ModesAreConsistent
  BY DEF GateInv
<1> QED
  BY <1>1, TypeInvariant, InitGateInv, NextGateInv, PTL DEF Spec

\* In plan mode nothing but reads, plan_exit and writes to the plan file
\* reaches a tool, in every batch of calls and through every mode change.
THEOREM PlanModeReadOnly == Spec => []PlanModeIsReadOnly
<1>1. GateInv => PlanModeIsReadOnly
  BY DEF GateInv
<1> QED
  BY <1>1, TypeInvariant, InitGateInv, NextGateInv, PTL DEF Spec

\* No mutating call runs unasked in a mode that asks, for any set of tools and
\* any sequence of modes.
THEOREM MutationsApproved == Spec => []MutationsAreApproved
<1>1. GateInv => MutationsAreApproved
  BY DEF GateInv
<1> QED
  BY <1>1, TypeInvariant, InitGateInv, NextGateInv, PTL DEF Spec

------------------------------------------------------------------------------
(* Saving *)

\* A compaction replaces the rows only when nothing waits to be saved.
ArchivePoint ==
  pc = "archive" => conversation_id # NoConversation /\ pending_persist = << >>

SavedInv == OkTurnsAreSaved /\ ArchivePoint

\* The steps inside a run return nothing and do not reach the compaction.
LEMMA RunningKeepsSaved ==
  ASSUME SavedInv,
         \/ Run \/ BeginIteration \/ MaxIterationsReached \/ Interrupted
         \/ ChainStopped \/ CallProvider \/ ParseResponse \/ ExecuteTools
         \/ ToolBlocked \/ ToolRejected \/ ApprovalAborted \/ ToolExecuted
         \/ ToolsDone \/ LoopDetect \/ CollectResults \/ PlanHandoff
         \/ EndTurn \/ ContinueTurn
  PROVE  SavedInv'
<1>1. \/ pc' \notin {"idle", "archive"}
      \/ pc' = "idle" /\ outcome' = "error"
  <2>1. CASE Run \/ BeginIteration \/ MaxIterationsReached \/ Interrupted
    BY <2>1 DEF Run, BeginIteration, MaxIterationsReached, Interrupted,
                ReturnOk, ReturnError
  <2>2. CASE ChainStopped \/ CallProvider \/ ParseResponse \/ ExecuteTools
    BY <2>2 DEF ChainStopped, CallProvider, ProviderAnswers, ReturnError,
                ParseResponse, ExecuteTools
  <2>3. CASE ToolBlocked \/ ToolRejected \/ ApprovalAborted \/ ToolExecuted
    BY <2>3 DEF ToolBlocked, ToolRejected, ApprovalAborted, ToolExecuted,
                PushResult, HasCall
  <2>4. CASE ToolsDone \/ LoopDetect \/ CollectResults
    BY <2>4 DEF ToolsDone, LoopDetect, CollectResults
  <2>5. CASE PlanHandoff \/ EndTurn \/ ContinueTurn
    BY <2>5 DEF PlanHandoff, EndTurn, ContinueTurn, NextIteration, ReturnOk
  <2> QED
    BY <2>1, <2>2, <2>3, <2>4, <2>5
<1> QED
  BY <1>1 DEF SavedInv, OkTurnsAreSaved, ArchivePoint

LEMMA InitSavedInv == Init => SavedInv
  BY DEF Init, SavedInv, OkTurnsAreSaved, ArchivePoint

LEMMA NextSavedInv == SavedInv /\ [Next]_vars => SavedInv'
<1> SUFFICES ASSUME SavedInv, [Next]_vars PROVE SavedInv'
  OBVIOUS
<1> USE DEF SavedInv, OkTurnsAreSaved, ArchivePoint
<1>1. CASE PersistMessage
  BY <1>1 DEF PersistMessage, runVars
<1>2. CASE PersistDone
  BY <1>2 DEF PersistDone, Archives, messageVars
<1>3. CASE ArchiveAndCompact
  BY <1>3 DEF ArchiveAndCompact
<1>4. CASE CompressContext
  BY <1>4 DEF CompressContext
<1>5. ASSUME NEW m \in UiModes, SetPermissionMode(m) PROVE SavedInv'
  BY <1>5 DEF SetPermissionMode, Idle, messageVars, runVars
<1>6. CASE NewSession
  BY <1>6 DEF NewSession, Idle, runVars
<1>7. ASSUME NEW c \in 1..created, Resume(c) PROVE SavedInv'
  BY <1>7 DEF Resume, Idle, runVars
<1>8. CASE Interrupt \/ Crash
  BY <1>8 DEF Interrupt, Crash, messageVars, runVars
<1>9. CASE UNCHANGED vars
  BY <1>9 DEF vars, messageVars, runVars
<1> QED
  BY <1>1, <1>2, <1>3, <1>4, <1>5, <1>6, <1>7, <1>8, <1>9, RunningKeepsSaved
     DEF Next, Thread, User

\* A run that returned ok has saved everything it could, whatever failed on
\* the way; only a failed run leaves messages pending.
THEOREM OkTurnsSaved == Spec => []OkTurnsAreSaved
<1>1. SavedInv => OkTurnsAreSaved
  BY DEF SavedInv
<1> QED
  BY <1>1, InitSavedInv, NextSavedInv, PTL DEF Spec

------------------------------------------------------------------------------
(* Nothing said is lost *)

\* Identities of the lists the loop builds.
LEMMA IdsOfLists ==
  ASSUME NEW s \in Seq(Message), NEW t \in Seq(Message), NEW e \in Message
  PROVE  /\ Ids(s \o t) = Ids(s) \cup Ids(t)
         /\ Ids(Append(s, e)) = Ids(s) \cup {e.id}
         /\ s # << >> => Ids(s) = {Head(s).id} \cup Ids(Tail(s))
         /\ Ids(<< >>) = {}
<1>1. Ids(s \o t) = Ids(s) \cup Ids(t)
  <2>1. ASSUME NEW i \in 1..Len(s \o t)
        PROVE  (s \o t)[i].id \in Ids(s) \cup Ids(t)
    <3>1. CASE i <= Len(s)
      BY <3>1, ConcatProperties DEF Ids
    <3>2. CASE i > Len(s)
      <4>1. i - Len(s) \in 1..Len(t) /\ (s \o t)[i] = t[i - Len(s)]
        BY <3>2, ConcatProperties
      <4> QED
        BY <4>1 DEF Ids
    <3> QED
      BY <3>1, <3>2
  <2>2. ASSUME NEW i \in 1..Len(s) PROVE s[i].id \in Ids(s \o t)
    <3>1. i \in 1..Len(s \o t) /\ (s \o t)[i] = s[i]
      BY ConcatProperties
    <3> QED
      BY <3>1 DEF Ids
  <2>3. ASSUME NEW i \in 1..Len(t) PROVE t[i].id \in Ids(s \o t)
    <3>1. i + Len(s) \in 1..Len(s \o t) /\ (s \o t)[i + Len(s)] = t[i]
      BY ConcatProperties
    <3> QED
      BY <3>1 DEF Ids
  <2> QED
    BY <2>1, <2>2, <2>3 DEF Ids
<1>2. Ids(Append(s, e)) = Ids(s) \cup {e.id}
  <2>1. /\ Len(Append(s, e)) = Len(s) + 1
        /\ \A i \in 1..Len(s) : Append(s, e)[i] = s[i]
        /\ Append(s, e)[Len(s) + 1] = e
    BY AppendProperties
  <2>2. 1..Len(s) + 1 = 1..Len(s) \cup {Len(s) + 1}
    BY LenProperties
  <2> QED
    BY <2>1, <2>2 DEF Ids
<1>3. ASSUME s # << >> PROVE Ids(s) = {Head(s).id} \cup Ids(Tail(s))
  <2>1. /\ Len(s) \in Nat /\ Len(s) > 0 /\ Head(s) = s[1]
        /\ Len(Tail(s)) = Len(s) - 1
        /\ \A i \in 1..Len(s) - 1 : Tail(s)[i] = s[i + 1]
    BY <1>3, EmptySeq, LenProperties, HeadTailProperties
  <2>2. ASSUME NEW i \in 1..Len(s)
        PROVE  s[i].id \in {Head(s).id} \cup Ids(Tail(s))
    <3>1. CASE i = 1
      BY <2>1, <3>1
    <3>2. CASE i # 1
      <4>1. i - 1 \in 1..Len(Tail(s)) /\ Tail(s)[i - 1] = s[i]
        BY <2>1, <3>2
      <4> QED
        BY <4>1 DEF Ids
    <3> QED
      BY <3>1, <3>2
  <2>3. ASSUME NEW i \in 1..Len(Tail(s)) PROVE Tail(s)[i].id \in Ids(s)
    <3>1. i + 1 \in 1..Len(s) /\ Tail(s)[i] = s[i + 1]
      BY <2>1
    <3> QED
      BY <3>1 DEF Ids
  <2>4. Head(s).id \in Ids(s)
    BY <2>1 DEF Ids
  <2> QED
    BY <2>2, <2>3, <2>4 DEF Ids
<1>4. Ids(<< >>) = {}
  BY DEF Ids
<1> QED
  BY <1>1, <1>2, <1>3, <1>4

\* With a working store every session has its conversation from its first
\* message on.
Begun ==
  ~store_failed /\ conversation_id = NoConversation => said = {} /\ pc = "idle"

KeptInv == NothingSaidIsLost /\ Begun

LEMMA InitKeptInv == Init => KeptInv
  BY DEF Init, KeptInv, NothingSaidIsLost, Begun

\* append_to_history() records what it adds as pending.
LEMMA AppendKeepsAll ==
  ASSUME TypeInv, NothingSaidIsLost, NEW msgs \in Seq(Message),
         AppendToHistory(msgs), UNCHANGED store, store_failed => store_failed',
         conversation_id' = conversation_id \/ conversation_id = NoConversation
  PROVE  NothingSaidIsLost'
<1>1. pending_persist \in Seq(Message)
  BY DEF TypeInv, TypeOK
<1>2. Ids(pending_persist \o msgs) = Ids(pending_persist) \cup Ids(msgs)
  <2>1. SystemMessage(0) \in Message
    BY DEF SystemMessage, Message, Roles
  <2> QED
    BY <1>1, <2>1, IdsOfLists
<1>3. /\ pending_persist' = pending_persist \o msgs
      /\ said' = said \cup Ids(msgs)
  BY DEF AppendToHistory
<1> QED
  BY <1>2, <1>3 DEF NothingSaidIsLost

LEMMA AppendingKeepsAll ==
  ASSUME TypeInv, KeptInv,
         Run \/ ParseResponse \/ CollectResults \/ PlanHandoff
  PROVE  KeptInv'
<1>0. next_id \in Nat /\ mode \in Modes /\ ctx \in CtxType /\ created \in Nat
  BY DEF TypeInv, TypeOK
<1>1. CASE Run
  <2>1. <<UserMessage(next_id, mode)>> \in Seq(Message)
    BY <1>0, MessageTypes
  <2>2. store_failed => store_failed'
    BY <1>1 DEF Run, CreateConversation
  <2>3. \/ conversation_id' = conversation_id
        \/ conversation_id = NoConversation
    BY <1>1 DEF Run, CreateConversation
  <2>4. NothingSaidIsLost'
    BY <1>1, <2>1, <2>2, <2>3, AppendKeepsAll DEF Run, KeptInv
  <2>5. Begun'
    BY <1>0, <1>1 DEF Run, CreateConversation, Begun, NoConversation
  <2> QED
    BY <2>4, <2>5 DEF KeptInv
<1>2. CASE ParseResponse
  <2>1. Len(ctx.calls) \in Nat
    BY <1>0, CtxFields, LenProperties
  <2>2. <<AssistantMessage(next_id, Len(ctx.calls))>> \in Seq(Message)
    BY <1>0, <2>1 DEF AssistantMessage, Message, Roles
  <2>3. NothingSaidIsLost'
    BY <1>2, <2>2, AppendKeepsAll DEF ParseResponse, KeptInv
  <2> QED
    BY <1>2, <2>3 DEF ParseResponse, Enters, KeptInv, Begun
<1>3. CASE CollectResults
  <2> DEFINE msgs == [i \in 1..ctx.results |->
                        ToolMessage(next_id + i - 1, ctx.id, i)]
  <2>1. msgs \in Seq(Message)
    <3>1. ctx.results \in Nat /\ ctx.id \in Nat
      BY <1>0, CtxFields
    <3>2. \A i \in 1..ctx.results :
            ToolMessage(next_id + i - 1, ctx.id, i) \in Message
      BY <1>0, <3>1 DEF ToolMessage, Message, Roles
    <3> QED
      BY <3>1, <3>2, IsASeq
  <2>2. AppendToHistory(msgs)
    BY <1>3 DEF CollectResults
  <2> HIDE DEF msgs
  <2>3. NothingSaidIsLost'
    BY <1>3, <2>1, <2>2, AppendKeepsAll DEF CollectResults, KeptInv
  <2> QED
    BY <1>3, <2>3 DEF CollectResults, Enters, KeptInv, Begun
<1>4. CASE PlanHandoff
  <2>1. Restored \in Modes
    BY DEF Restored, TypeInv, TypeOK, Modes
  <2>2. <<UserMessage(next_id, Restored)>> \in Seq(Message)
    BY <1>0, <2>1, MessageTypes
  <2>3. NothingSaidIsLost'
    BY <1>4, <2>2, AppendKeepsAll DEF PlanHandoff, KeptInv
  <2> QED
    BY <1>4, <2>3 DEF PlanHandoff, KeptInv, Begun
<1> QED
  BY <1>1, <1>2, <1>3, <1>4

\* persist_new_messages() moves a message from the pending list to the store.
LEMMA PersistKeepsAll ==
  ASSUME TypeInv, KeptInv, PersistMessage
  PROVE  KeptInv'
<1>1. /\ pending_persist \in Seq(Message) /\ pending_persist # << >>
      /\ store \in [Conversations -> TranscriptOf(Message)]
      /\ conversation_id \in Conversations
      /\ conversation_id # NoConversation
  BY DEF PersistMessage, TypeInv, TypeOK
<1> DEFINE conv == store[conversation_id]
           msg == Head(pending_persist)
<1>2. /\ conv.active \in Seq(Message) /\ conv.archived \in Seq(Message)
      /\ msg \in Message
  BY <1>1, HeadTailProperties DEF TranscriptOf
<1>3. Ids(pending_persist) = {msg.id} \cup Ids(Tail(pending_persist))
  BY <1>1, <1>2, IdsOfLists
<1>4. Ids(Append(conv.active, msg)) = Ids(conv.active) \cup {msg.id}
  BY <1>2, IdsOfLists
<1>5. StoredIds(Appended(conv, msg)) = StoredIds(conv) \cup {msg.id}
  <2>1. conv \in [archived : Seq(Message), active : Seq(Message)]
    BY <1>1 DEF TranscriptOf
  <2>2. /\ Appended(conv, msg).active = Append(conv.active, msg)
        /\ Appended(conv, msg).archived = conv.archived
    BY <2>1 DEF Appended
  <2> QED
    BY <1>4, <2>2 DEF StoredIds
<1>6. ASSUME ~store_failed' PROVE store'[conversation_id] = Appended(conv, msg)
  BY <1>1, <1>6 DEF PersistMessage
<1>7. /\ pending_persist' = Tail(pending_persist)
      /\ UNCHANGED <<said, conversation_id, pc>>
      /\ store_failed => store_failed'
  BY DEF PersistMessage, runVars
<1> HIDE DEF conv, msg
<1>8. NothingSaidIsLost'
  <2> SUFFICES ASSUME ~store_failed'
               PROVE  said \subseteq Ids(Tail(pending_persist))
                        \cup StoredIds(store'[conversation_id])
    BY <1>1, <1>7 DEF NothingSaidIsLost
  <2>0. ~store_failed
    BY <1>7
  <2>1. said \subseteq Ids(pending_persist) \cup StoredIds(conv)
    BY <1>1, <2>0 DEF KeptInv, NothingSaidIsLost, conv
  <2> QED
    BY <1>3, <1>5, <1>6, <2>1
<1> QED
  BY <1>1, <1>7, <1>8 DEF KeptInv, Begun

\* archive_and_compact() keeps what it replaces as archived rows.
LEMMA ArchiveKeepsAll ==
  ASSUME TypeInv, SavedInv, KeptInv, ArchiveAndCompact
  PROVE  KeptInv'
<1>1. /\ store \in [Conversations -> TranscriptOf(Message)]
      /\ conversation_id \in Conversations
      /\ conversation_id # NoConversation
      /\ pending_persist = << >>
  BY DEF ArchiveAndCompact, SavedInv, ArchivePoint, TypeInv, TypeOK
<1> DEFINE conv == store[conversation_id]
           kept == IF live = << >> THEN history ELSE live
<1>2. /\ conv.active \in Seq(Message) /\ conv.archived \in Seq(Message)
      /\ conv \in TranscriptOf(Message)
  BY <1>1 DEF TranscriptOf
<1>3. Ids(conv.archived \o conv.active) = StoredIds(conv)
  <2>1. SystemMessage(0) \in Message
    BY DEF SystemMessage, Message, Roles
  <2> QED
    BY <1>2, <2>1, IdsOfLists DEF StoredIds
<1>4. StoredIds(conv) \subseteq StoredIds(Compacted(conv, kept))
  BY <1>3 DEF StoredIds, Compacted
<1>5. ASSUME ~store_failed' PROVE store'[conversation_id] = Compacted(conv, kept)
  BY <1>1, <1>5 DEF ArchiveAndCompact
<1>6. UNCHANGED <<said, conversation_id>> /\ (store_failed => store_failed')
  BY DEF ArchiveAndCompact
<1> HIDE DEF conv, kept
<1>7. Ids(<< >>) = {}
  BY DEF Ids
<1>8. NothingSaidIsLost'
  <2> SUFFICES ASSUME ~store_failed'
               PROVE  said \subseteq StoredIds(store'[conversation_id])
    BY <1>1, <1>6 DEF NothingSaidIsLost
  <2>0. ~store_failed
    BY <1>6
  <2>1. said \subseteq StoredIds(conv)
    BY <1>1, <1>7, <2>0 DEF KeptInv, NothingSaidIsLost, conv
  <2> QED
    BY <1>4, <1>5, <2>1
<1> QED
  BY <1>1, <1>6, <1>8 DEF KeptInv, Begun

\* The steps that neither say nor save anything.
LEMMA SilentStepsKeepAll ==
  ASSUME KeptInv,
         UNCHANGED <<said, pending_persist, conversation_id, store,
                     store_failed>>,
         pc = "idle" => pc' = "idle" \/ conversation_id # NoConversation
  PROVE  KeptInv'
  BY DEF KeptInv, NothingSaidIsLost, Begun

LEMMA NextKeptInv ==
  ASSUME Compression # "live_only", TypeInv, SavedInv, KeptInv, [Next]_vars
  PROVE  KeptInv'
<1>1. CASE \/ BeginIteration \/ MaxIterationsReached \/ Interrupted
           \/ ChainStopped \/ CallProvider \/ ExecuteTools \/ ToolBlocked
           \/ ToolRejected \/ ApprovalAborted \/ ToolExecuted \/ ToolsDone
  BY <1>1, SilentStepsKeepAll
     DEF BeginIteration, MaxIterationsReached, Interrupted, ChainStopped,
         CallProvider, Enters, ExecuteTools, ToolBlocked, ToolRejected,
         ApprovalAborted, ToolExecuted, ToolsDone, PushResult, HasCall,
         ChainSteps, messageVars
<1>2. CASE LoopDetect \/ EndTurn \/ ContinueTurn \/ PersistDone
  BY <1>2, SilentStepsKeepAll
     DEF LoopDetect, Enters, EndTurn, ContinueTurn, PersistDone, messageVars
<1>3. CASE Run \/ ParseResponse \/ CollectResults \/ PlanHandoff
  BY <1>3, AppendingKeepsAll
<1>4. CASE PersistMessage
  BY <1>4, PersistKeepsAll
<1>5. CASE ArchiveAndCompact
  BY <1>5, ArchiveKeepsAll
<1>6. CASE CompressContext
  <2>1. CASE conversation_id # NoConversation
    <3>1. UNCHANGED <<said, pending_persist, conversation_id, store,
                     store_failed>>
      BY <1>6, <2>1, SwitchesAreKnown DEF CompressContext
    <3> QED
      BY <2>1, <3>1, SilentStepsKeepAll
  <2>2. CASE conversation_id = NoConversation
    <3>1. UNCHANGED <<said, conversation_id, store, store_failed, pc>>
      BY <1>6, <2>2 DEF CompressContext
    <3> QED
      BY <2>2, <3>1 DEF KeptInv, NothingSaidIsLost, Begun
  <2> QED
    BY <2>1, <2>2
<1>7. ASSUME NEW m \in UiModes, SetPermissionMode(m) PROVE KeptInv'
  BY <1>7, SilentStepsKeepAll
     DEF SetPermissionMode, Idle, messageVars, runVars
<1>8. CASE NewSession \/ Crash
  BY <1>8 DEF NewSession, Idle, runVars, Crash, KeptInv, NothingSaidIsLost,
              Begun
<1>9. ASSUME NEW c \in 1..created, Resume(c) PROVE KeptInv'
  BY <1>9 DEF Resume, NoConversation, KeptInv, NothingSaidIsLost, Begun
<1>10. CASE Interrupt
  BY <1>10, SilentStepsKeepAll DEF Interrupt, messageVars, runVars
<1>11. CASE UNCHANGED vars
  BY <1>11, SilentStepsKeepAll DEF vars, messageVars, runVars
<1> QED
  BY <1>1, <1>2, <1>3, <1>4, <1>5, <1>6, <1>7, <1>8, <1>9, <1>10, <1>11
     DEF Next, Thread, User

\* Unless compaction only cuts the live list, no sequence of runs, failed
\* runs, compactions, resumes and crashes loses a message of the session.
THEOREM NothingLost ==
  ASSUME Compression # "live_only"
  PROVE  Spec => []NothingSaidIsLost
<1>1. KeptInv => NothingSaidIsLost
  BY DEF KeptInv
<1>2. TypeInv /\ SavedInv /\ KeptInv /\ [Next]_vars => KeptInv'
  BY NextKeptInv
<1> QED
  BY <1>1, <1>2, TypeInvariant, InitSavedInv, NextSavedInv, InitKeptInv, PTL
     DEF Spec

------------------------------------------------------------------------------
(* What is kept of a conversation, with nothing compressed: the history, the
   rows and the messages not saved yet grow at their ends only, and a tool
   message follows the call it answers in each of them. *)

\* Every identity of a list was given before the next one.
Before(msgs, next) == \A i \in 1..Len(msgs) : msgs[i].id < next

\* New messages get the identities from the next one on.
Fresh(msgs, next) == \A i \in 1..Len(msgs) : msgs[i].id = next + i - 1

Durable(msgs) == \A i \in 1..Len(msgs) : IsDurable(msgs[i])

\* A conversation not created yet has no rows, so that the messages pending
\* when it is created are all it has.  Nothing is ever compressed.
UncompressedInv ==
  /\ conversation_id <= created
  /\ \A c \in Conversations : c > created => Loaded(store[c]) = << >>
  /\ live = << >> /\ pc # "archive"

\* The rows of the session that are saved.
SavedRows ==
  IF conversation_id = NoConversation THEN << >>
  ELSE Loaded(store[conversation_id])

OrderInv ==
  /\ Ordered(history) /\ Before(history, next_id)
  /\ Ordered(SessionRows) /\ Before(SessionRows, next_id)
  /\ Durable(SessionRows)
  /\ \A c \in Conversations :
       LET rows == Loaded(store[c])
       IN Ordered(rows) /\ Before(rows, next_id) /\ Durable(rows)

MatchInv ==
  ~store_failed =>
    Members(SessionRows) = {msg \in Members(history) : IsDurable(msg)}

\* The message that made the calls of the iteration.
Asker == AssistantMessage(ctx.id, Len(ctx.calls))

\* The tool messages of a batch fit behind a list that ends with their asker.
Fits(msgs, batch) ==
  \A j \in 1..Len(batch) : batch[j].role = "tool" =>
    /\ msgs # << >> /\ batch[j].k = j
    /\ msgs[Len(msgs)].role = "assistant"
    /\ msgs[Len(msgs)].id = batch[j].of
    /\ j <= msgs[Len(msgs)].calls

EndsWith(msgs, msg) == msgs # << >> /\ msgs[Len(msgs)] = msg

BatchPoints == {"execute", "tool", "detect", "collect"}

\* From the answer to its results nothing else is appended, so that the calls
\* at hand are those of the last message, of the history and of the messages
\* not saved yet.
BatchInv ==
  /\ pc \in {"call", "parse"} => ctx.results = 0
  /\ pc \in BatchPoints =>
       /\ ctx.results <= Len(ctx.calls)
       /\ ctx.calls # << >> =>
            EndsWith(history, Asker) /\ EndsWith(pending_persist, Asker)

AnswersInv ==
  ~store_failed =>
    /\ AnswersInPlace(history) /\ AnswersInPlace(SessionRows)
    /\ \A c \in Conversations : AnswersInPlace(Loaded(store[c]))

ConversationInv ==
  UncompressedInv /\ OrderInv /\ MatchInv /\ BatchInv /\ AnswersInv

------------------------------------------------------------------------------
(* Lists of messages *)

LEMMA ConcatLists ==
  ASSUME NEW s \in Seq(Message), NEW t \in Seq(Message)
  PROVE  /\ s \o t \in Seq(Message)
         /\ Len(s \o t) = Len(s) + Len(t) /\ Len(s) \in Nat /\ Len(t) \in Nat
         /\ \A i \in 1..Len(s) :
              i \in 1..Len(s \o t) /\ (s \o t)[i] = s[i]
         /\ \A j \in 1..Len(t) :
              Len(s) + j \in 1..Len(s \o t) /\ (s \o t)[Len(s) + j] = t[j]
         /\ \A i \in 1..Len(s \o t) :
              \/ i \in 1..Len(s)
              \/ \E j \in 1..Len(t) : i = Len(s) + j
<1>1. /\ s \o t \in Seq(Message)
      /\ Len(s \o t) = Len(s) + Len(t)
      /\ \A i \in 1..Len(s) + Len(t) :
           (s \o t)[i] = IF i <= Len(s) THEN s[i] ELSE t[i - Len(s)]
  BY ConcatProperties
<1>2. Len(s) \in Nat /\ Len(t) \in Nat
  BY LenProperties
<1>3. ASSUME NEW i \in 1..Len(s) + Len(t), i \notin 1..Len(s)
      PROVE  \E j \in 1..Len(t) : i = Len(s) + j
  <2>1. i - Len(s) \in 1..Len(t) /\ i = Len(s) + (i - Len(s))
    BY <1>2, <1>3
  <2> QED
    BY <2>1
<1>4. ASSUME NEW j \in 1..Len(t)
      PROVE  Len(s) + j \in 1..Len(s) + Len(t) /\ (s \o t)[Len(s) + j] = t[j]
  <2>1. /\ Len(s) + j \in 1..Len(s) + Len(t)
        /\ ~(Len(s) + j <= Len(s)) /\ (Len(s) + j) - Len(s) = j
    BY <1>2
  <2> QED
    BY <1>1, <2>1
<1> QED
  BY <1>1, <1>2, <1>3, <1>4

\* Fresh messages keep an ordered list ordered.
LEMMA OrderedGrows ==
  ASSUME NEW s \in Seq(Message), NEW t \in Seq(Message), NEW n \in Nat,
         Ordered(s), Before(s, n), Fresh(t, n)
  PROVE  Ordered(s \o t) /\ Before(s \o t, n + Len(t))
<1>1. \A i \in 1..Len(s) : s[i].id \in Nat /\ s[i].id < n
  <2>1. \A i \in 1..Len(s) : s[i] \in Message
    BY ElementOfSeq
  <2> QED
    BY <2>1 DEF Before, Message
<1>2. \A j \in 1..Len(t) : t[j].id = n + j - 1
  BY DEF Fresh
<1>3. Before(s \o t, n + Len(t))
  <2> SUFFICES ASSUME NEW i \in 1..Len(s \o t)
               PROVE  (s \o t)[i].id < n + Len(t)
    BY DEF Before
  <2>1. CASE i \in 1..Len(s)
    BY <1>1, <2>1, ConcatLists
  <2>2. ASSUME NEW j \in 1..Len(t), i = Len(s) + j
        PROVE  (s \o t)[i].id < n + Len(t)
    <3>1. (s \o t)[i] = t[j] /\ Len(t) \in Nat
      BY <2>2, ConcatLists
    <3> QED
      BY <1>2, <3>1
  <2> QED
    BY <2>1, <2>2, ConcatLists
<1>4. Ordered(s \o t)
  <2> SUFFICES ASSUME NEW i \in 1..Len(s \o t), NEW j \in 1..Len(s \o t), i < j
               PROVE  (s \o t)[i].id < (s \o t)[j].id
    BY DEF Ordered
  <2>1. CASE j \in 1..Len(s)
    <3>1. i \in 1..Len(s) /\ s[i].id < s[j].id
      BY <2>1, ConcatLists DEF Ordered
    <3> QED
      BY <2>1, <3>1, ConcatLists
  <2>2. ASSUME i \in 1..Len(s), NEW l \in 1..Len(t), j = Len(s) + l
        PROVE  (s \o t)[i].id < (s \o t)[j].id
    <3>1. (s \o t)[i] = s[i] /\ (s \o t)[j] = t[l]
      BY <2>2, ConcatLists
    <3> QED
      BY <1>1, <1>2, <2>2, <3>1
  <2>3. ASSUME NEW k \in 1..Len(t), i = Len(s) + k,
               NEW l \in 1..Len(t), j = Len(s) + l
        PROVE  (s \o t)[i].id < (s \o t)[j].id
    <3>1. (s \o t)[i] = t[k] /\ (s \o t)[j] = t[l] /\ k < l
      BY <2>3, ConcatLists
    <3> QED
      BY <1>2, <3>1
  <2>4. /\ i \in 1..Len(s) \/ \E k \in 1..Len(t) : i = Len(s) + k
        /\ j \in 1..Len(s) \/ \E l \in 1..Len(t) : j = Len(s) + l
    BY ConcatLists
  <2> QED
    BY <2>1, <2>2, <2>3, <2>4
<1> QED
  BY <1>3, <1>4

LEMMA DurableGrows ==
  ASSUME NEW s \in Seq(Message), NEW t \in Seq(Message),
         Durable(s), Durable(t)
  PROVE  Durable(s \o t)
<1> SUFFICES ASSUME NEW i \in 1..Len(s \o t) PROVE IsDurable((s \o t)[i])
  BY DEF Durable
<1>1. CASE i \in 1..Len(s)
  BY <1>1, ConcatLists DEF Durable
<1>2. ASSUME NEW j \in 1..Len(t), i = Len(s) + j
      PROVE  IsDurable((s \o t)[i])
  <2>1. (s \o t)[i] = t[j]
    BY <1>2, ConcatLists
  <2> QED
    BY <2>1 DEF Durable
<1> QED
  BY <1>1, <1>2, ConcatLists

LEMMA BeforeLater ==
  ASSUME NEW s \in Seq(Message), NEW n \in Nat, NEW m \in Nat, n <= m,
         Before(s, n)
  PROVE  Before(s, m)
<1>1. \A i \in 1..Len(s) : s[i] \in Message
  BY ElementOfSeq
<1>2. \A i \in 1..Len(s) : s[i].id \in Nat
  BY <1>1 DEF Message
<1> QED
  BY <1>2 DEF Before

LEMMA MembersOfConcat ==
  ASSUME NEW s \in Seq(Message), NEW t \in Seq(Message)
  PROVE  Members(s \o t) = Members(s) \cup Members(t)
<1>1. ASSUME NEW i \in 1..Len(s \o t)
      PROVE  (s \o t)[i] \in Members(s) \cup Members(t)
  BY SMTT(30), ConcatLists DEF Members
<1>2. ASSUME NEW i \in 1..Len(s) PROVE s[i] \in Members(s \o t)
  BY ConcatLists DEF Members
<1>3. ASSUME NEW j \in 1..Len(t) PROVE t[j] \in Members(s \o t)
  <2>1. Len(s) + j \in 1..Len(s \o t) /\ (s \o t)[Len(s) + j] = t[j]
    BY ConcatLists
  <2> QED
    BY <2>1 DEF Members
<1> QED
  BY <1>1, <1>2, <1>3 DEF Members

\* Tool messages that fit keep every answer in its place.
LEMMA AnswersGrow ==
  ASSUME NEW s \in Seq(Message), NEW t \in Seq(Message),
         AnswersInPlace(s), Fits(s, t)
  PROVE  AnswersInPlace(s \o t)
<1> SUFFICES ASSUME NEW i \in 1..Len(s \o t), (s \o t)[i].role = "tool"
             PROVE  LET asker == i - (s \o t)[i].k
                    IN /\ asker \in 1..i - 1
                       /\ (s \o t)[asker].role = "assistant"
                       /\ (s \o t)[asker].id = (s \o t)[i].of
                       /\ (s \o t)[i].k <= (s \o t)[asker].calls
  BY DEF AnswersInPlace
<1>1. CASE i \in 1..Len(s)
  <2>1. (s \o t)[i] = s[i] /\ Len(s) \in Nat
    BY <1>1, ConcatLists
  <2>2. /\ i - s[i].k \in 1..i - 1
        /\ s[i - s[i].k].role = "assistant"
        /\ s[i - s[i].k].id = s[i].of
        /\ s[i].k <= s[i - s[i].k].calls
    BY <1>1, <2>1 DEF AnswersInPlace
  <2>3. i - s[i].k \in 1..Len(s)
    BY <1>1, <2>1, <2>2
  <2>4. (s \o t)[i - s[i].k] = s[i - s[i].k]
    BY <2>3, ConcatLists
  <2> QED
    BY <2>1, <2>2, <2>4
<1>2. ASSUME NEW j \in 1..Len(t), i = Len(s) + j
      PROVE  LET asker == i - (s \o t)[i].k
             IN /\ asker \in 1..i - 1
                /\ (s \o t)[asker].role = "assistant"
                /\ (s \o t)[asker].id = (s \o t)[i].of
                /\ (s \o t)[i].k <= (s \o t)[asker].calls
  <2>1. (s \o t)[i] = t[j] /\ Len(s) \in Nat
    BY <1>2, ConcatLists
  <2>2. /\ s # << >> /\ t[j].k = j
        /\ s[Len(s)].role = "assistant"
        /\ s[Len(s)].id = t[j].of
        /\ j <= s[Len(s)].calls
    BY <2>1 DEF Fits
  <2>3. Len(s) \in 1..Len(s) /\ i - j = Len(s) /\ Len(s) \in 1..i - 1
    BY <1>2, <2>1, <2>2, EmptySeq
  <2>4. (s \o t)[Len(s)] = s[Len(s)]
    BY <2>3, ConcatLists
  <2> QED
    BY <2>1, <2>2, <2>3, <2>4
<1>3. i \in 1..Len(s) \/ \E j \in 1..Len(t) : i = Len(s) + j
  BY ConcatLists
<1> QED
  BY <1>1, <1>2, <1>3

LEMMA AnswersOfPrefix ==
  ASSUME NEW s \in Seq(Message), NEW t \in Seq(Message), AnswersInPlace(s \o t)
  PROVE  AnswersInPlace(s)
<1> SUFFICES ASSUME NEW i \in 1..Len(s), s[i].role = "tool"
             PROVE  LET asker == i - s[i].k
                    IN /\ asker \in 1..i - 1
                       /\ s[asker].role = "assistant"
                       /\ s[asker].id = s[i].of
                       /\ s[i].k <= s[asker].calls
  BY DEF AnswersInPlace
<1>1. i \in 1..Len(s \o t) /\ (s \o t)[i] = s[i] /\ Len(s) \in Nat
  BY ConcatLists
<1>2. /\ i - s[i].k \in 1..i - 1
      /\ (s \o t)[i - s[i].k].role = "assistant"
      /\ (s \o t)[i - s[i].k].id = s[i].of
      /\ s[i].k <= (s \o t)[i - s[i].k].calls
  BY <1>1 DEF AnswersInPlace
<1>3. i - s[i].k \in 1..Len(s)
  BY <1>1, <1>2
<1>4. (s \o t)[i - s[i].k] = s[i - s[i].k]
  BY <1>3, ConcatLists
<1> QED
  BY <1>2, <1>4

\* A list and its ends: what holds of all of it holds of what is left when its
\* first part, its last part or one message between them is taken away.
LEMMA PartsOfLists ==
  ASSUME NEW s \in Seq(Message), NEW t \in Seq(Message), NEW n \in Nat,
         Ordered(s \o t), Before(s \o t, n), Durable(s \o t)
  PROVE  /\ Ordered(s) /\ Before(s, n) /\ Durable(s)
         /\ t # << >> => /\ Ordered(s \o Tail(t)) /\ Before(s \o Tail(t), n)
                         /\ Durable(s \o Tail(t))
<1>1. Ordered(s) /\ Before(s, n) /\ Durable(s)
  <2>1. \A i \in 1..Len(s) : i \in 1..Len(s \o t) /\ (s \o t)[i] = s[i]
    BY ConcatLists
  <2>2. Ordered(s)
    BY <2>1 DEF Ordered
  <2>3. Before(s, n) /\ Durable(s)
    BY <2>1 DEF Before, Durable
  <2> QED
    BY <2>2, <2>3
<1>2. ASSUME t # << >>
      PROVE  /\ Ordered(s \o Tail(t)) /\ Before(s \o Tail(t), n)
             /\ Durable(s \o Tail(t))
  <2> DEFINE u == Tail(t)
             at(i) == IF i <= Len(s) THEN i ELSE i + 1
  <2>1. /\ u \in Seq(Message) /\ Len(u) = Len(t) - 1
        /\ \A i \in 1..Len(u) : u[i] = t[i + 1]
    BY <1>2, HeadTailProperties
  <2> HIDE DEF u
  <2>2. Len(s) \in Nat /\ Len(t) \in Nat /\ Len(u) \in Nat
    BY <2>1, ConcatLists
  <2>3. ASSUME NEW i \in 1..Len(s \o u)
        PROVE  at(i) \in 1..Len(s \o t) /\ (s \o u)[i] = (s \o t)[at(i)]
    <3>0. i \in 1..Len(s) \/ \E j \in 1..Len(u) : i = Len(s) + j
      BY <2>1, ConcatLists
    <3>1. CASE i \in 1..Len(s)
      <4>1. at(i) = i
        BY <3>1
      <4> QED
        BY <2>1, <3>1, <4>1, ConcatLists
    <3>2. ASSUME NEW j \in 1..Len(u), i = Len(s) + j
          PROVE  at(i) \in 1..Len(s \o t) /\ (s \o u)[i] = (s \o t)[at(i)]
      <4>1. at(i) = Len(s) + (j + 1) /\ j + 1 \in 1..Len(t)
        BY <2>1, <2>2, <3>2
      <4>2. (s \o u)[i] = u[j] /\ u[j] = t[j + 1]
        BY <2>1, <3>2, ConcatLists
      <4>3. /\ Len(s) + (j + 1) \in 1..Len(s \o t)
            /\ (s \o t)[Len(s) + (j + 1)] = t[j + 1]
        BY <4>1, ConcatLists
      <4> HIDE DEF at
      <4> QED
        BY <4>1, <4>2, <4>3
    <3> HIDE DEF at
    <3> QED
      BY <3>0, <3>1, <3>2
  <2>4. ASSUME NEW i \in 1..Len(s \o u), NEW j \in 1..Len(s \o u), i < j
        PROVE  at(i) < at(j)
    BY SMTT(30), <2>1, <2>2, <2>4, ConcatLists
  <2> HIDE DEF at
  <2>5. Ordered(s \o u)
    BY <2>3, <2>4 DEF Ordered
  <2>6. Before(s \o u, n) /\ Durable(s \o u)
    BY <2>3 DEF Before, Durable
  <2> QED
    BY <2>5, <2>6 DEF u
<1> QED
  BY <1>1, <1>2

\* What fits behind the last part of a list fits behind the list.
LEMMA FitsBehind ==
  ASSUME NEW s \in Seq(Message), NEW t \in Seq(Message),
         NEW u \in Seq(Message), Fits(t, u)
  PROVE  Fits(s \o t, u)
<1> SUFFICES ASSUME NEW j \in 1..Len(u), u[j].role = "tool"
             PROVE  /\ s \o t # << >> /\ u[j].k = j
                    /\ (s \o t)[Len(s \o t)].role = "assistant"
                    /\ (s \o t)[Len(s \o t)].id = u[j].of
                    /\ j <= (s \o t)[Len(s \o t)].calls
  BY DEF Fits
<1>1. /\ t # << >> /\ u[j].k = j
      /\ t[Len(t)].role = "assistant"
      /\ t[Len(t)].id = u[j].of
      /\ j <= t[Len(t)].calls
  BY DEF Fits
<1>2. Len(t) \in 1..Len(t) /\ Len(s \o t) = Len(s) + Len(t)
  BY <1>1, EmptySeq, ConcatLists
<1>3. (s \o t)[Len(s) + Len(t)] = t[Len(t)] /\ Len(s) \in Nat
  BY <1>2, ConcatLists
<1>4. s \o t # << >>
  BY <1>1, ConcatEqualIffEmpty
<1> QED
  BY <1>1, <1>2, <1>3, <1>4

\* Messages that are no tool messages fit anywhere.
LEMMA OthersFit ==
  ASSUME NEW s, NEW t, \A j \in 1..Len(t) : t[j].role # "tool"
  PROVE  Fits(s, t)
  BY DEF Fits

------------------------------------------------------------------------------
(* The steps *)

\* The lists of the state are sequences of messages.
LEMMA ListTypes ==
  ASSUME TypeInv
  PROVE  /\ history \in Seq(Message) /\ pending_persist \in Seq(Message)
         /\ SavedRows \in Seq(Message)
         /\ SessionRows = SavedRows \o pending_persist
         /\ \A c \in Conversations : Loaded(store[c]) \in Seq(Message)
         /\ next_id \in Nat
<1>1. \A c \in Conversations : Loaded(store[c]) \in Seq(Message)
  BY DEF TypeInv, TypeOK, TranscriptOf, Loaded
<1> QED
  BY <1>1 DEF TypeInv, TypeOK, SavedRows, SessionRows

LEMMA InitConversationInv == Init => ConversationInv
<1> SUFFICES ASSUME Init PROVE ConversationInv
  OBVIOUS
<1>1. \A c \in Conversations : Loaded(store[c]) = << >>
  BY DEF Init, Loaded, EmptyTranscript
<1>2. << >> \o << >> = << >>
  BY EmptySeq, ConcatEmptySeq
<1>3. history = << >> /\ SessionRows = << >>
  BY <1>2 DEF Init, SessionRows
<1>4. /\ Ordered(<< >>) /\ Before(<< >>, next_id) /\ Durable(<< >>)
      /\ AnswersInPlace(<< >>) /\ Members(<< >>) = {}
  BY DEF Ordered, Before, Durable, AnswersInPlace, Members
<1>5. UncompressedInv /\ BatchInv
  BY <1>1 DEF Init, UncompressedInv, BatchInv, BatchPoints, NoConversation
<1> QED
  BY <1>1, <1>3, <1>4, <1>5
     DEF ConversationInv, OrderInv, MatchInv, AnswersInv

\* append_to_history() adds to the history and to the session's rows alike.
LEMMA AppendKeepsLists ==
  ASSUME TypeInv, ConversationInv, NEW msgs \in Seq(Message),
         AppendToHistory(msgs), UNCHANGED <<store, SavedRows>>,
         store_failed => store_failed',
         Fresh(msgs, next_id), Durable(msgs),
         Fits(history, msgs), Fits(pending_persist, msgs)
  PROVE  OrderInv' /\ MatchInv' /\ AnswersInv'
<1> USE ListTypes
<1>1. /\ history' = history \o msgs
      /\ pending_persist' = pending_persist \o msgs
      /\ next_id' = next_id + Len(msgs)
  BY DEF AppendToHistory
<1>2. SessionRows \in Seq(Message)
  BY ConcatLists
<1>3. SessionRows' = SessionRows \o msgs
  <2>1. SessionRows' = SavedRows' \o pending_persist'
    BY DEF SessionRows, SavedRows
  <2>2. SavedRows' = SavedRows
    OBVIOUS
  <2>3. SessionRows' = SavedRows \o (pending_persist \o msgs)
    BY <1>1, <2>1, <2>2
  <2>4. (SavedRows \o pending_persist) \o msgs
          = SavedRows \o (pending_persist \o msgs)
    BY SMTT(30), ConcatAssociative
  <2>5. SessionRows = SavedRows \o pending_persist
    OBVIOUS
  <2> QED
    BY ONLY <2>3, <2>4, <2>5
<1>4. Fits(SessionRows, msgs)
  BY FitsBehind
<1>5. next_id' \in Nat /\ next_id <= next_id'
  BY <1>1, ConcatLists
<1>6. /\ Ordered(history) /\ Before(history, next_id)
      /\ Ordered(SessionRows) /\ Before(SessionRows, next_id)
      /\ Durable(SessionRows)
      /\ \A c \in Conversations :
           /\ Ordered(Loaded(store[c])) /\ Before(Loaded(store[c]), next_id)
           /\ Durable(Loaded(store[c]))
  BY DEF ConversationInv, OrderInv
<1>7. OrderInv'
  <2>1. /\ Ordered(history \o msgs) /\ Before(history \o msgs, next_id')
        /\ Ordered(SessionRows \o msgs) /\ Before(SessionRows \o msgs, next_id')
    BY <1>1, <1>2, <1>6, OrderedGrows
  <2>2. Durable(SessionRows \o msgs)
    BY <1>2, <1>6, DurableGrows
  <2>3. \A c \in Conversations : Before(Loaded(store[c]), next_id')
    BY <1>5, <1>6, BeforeLater
  <2> QED
    BY <1>1, <1>3, <1>6, <2>1, <2>2, <2>3 DEF OrderInv
<1>8. MatchInv'
  <2> SUFFICES ASSUME ~store_failed
               PROVE  Members(SessionRows') =
                        {msg \in Members(history') : IsDurable(msg)}
    BY DEF MatchInv
  <2>1. Members(SessionRows) = {msg \in Members(history) : IsDurable(msg)}
    BY DEF ConversationInv, MatchInv
  <2>2. \A msg \in Members(msgs) : IsDurable(msg)
    BY DEF Members, Durable
  <2>3. /\ Members(history \o msgs) = Members(history) \cup Members(msgs)
        /\ Members(SessionRows \o msgs)
             = Members(SessionRows) \cup Members(msgs)
    BY <1>2, MembersOfConcat
  <2> QED
    BY <1>1, <1>3, <2>1, <2>2, <2>3
<1>9. AnswersInv'
  <2> SUFFICES ASSUME ~store_failed
               PROVE  /\ AnswersInPlace(history')
                      /\ AnswersInPlace(SessionRows')
                      /\ \A c \in Conversations :
                           AnswersInPlace(Loaded(store[c]))
    BY DEF AnswersInv
  <2>1. /\ AnswersInPlace(history) /\ AnswersInPlace(SessionRows)
        /\ \A c \in Conversations : AnswersInPlace(Loaded(store[c]))
    BY DEF ConversationInv, AnswersInv
  <2> QED
    BY <1>1, <1>2, <1>3, <1>4, <2>1, AnswersGrow
<1> QED
  BY <1>7, <1>8, <1>9

\* One message of a role other than tool and system is such an addition.
LEMMA OneMessage ==
  ASSUME NEW msg \in Message, msg.id = next_id,
         msg.role \in {"user", "assistant"}
  PROVE  /\ <<msg>> \in Seq(Message) /\ Fresh(<<msg>>, next_id)
         /\ Durable(<<msg>>)
         /\ \A s : Fits(s, <<msg>>)
<1>1. Len(<<msg>>) = 1 /\ <<msg>>[1] = msg /\ next_id \in Nat
  BY DEF Message
<1> QED
  BY <1>1 DEF Fresh, Durable, IsDurable, Fits

LEMMA RunKeepsConversation ==
  ASSUME TypeInv, ConversationInv, Run
  PROVE  ConversationInv'
<1> DEFINE msg == UserMessage(next_id, mode)
<1>1. msg \in Message /\ msg.id = next_id /\ msg.role = "user"
  BY MessageTypes DEF TypeInv, TypeOK, UserMessage
<1> HIDE DEF msg
<1>2. AppendToHistory(<<msg>>) /\ store_failed => store_failed'
  BY DEF Run, CreateConversation, msg
<1>3. /\ created \in Nat /\ created < MaxRuns /\ MaxRuns \in Nat
      /\ conversation_id \in Nat
  BY BoundsAreNaturals
     DEF Run, TypeInv, TypeOK, Counted, Conversations, NoConversation
<1>4. SavedRows' = SavedRows
  <2>1. CASE conversation_id' = conversation_id
    BY <2>1 DEF Run, SavedRows
  <2>2. CASE conversation_id = NoConversation /\ conversation_id' = created + 1
    <3>1. created + 1 \in Conversations /\ created + 1 > created
          /\ created + 1 # NoConversation
      BY <1>3 DEF Conversations, NoConversation
    <3>2. Loaded(store[created + 1]) = << >>
      BY <3>1 DEF ConversationInv, UncompressedInv
    <3> QED
      BY <2>2, <3>1, <3>2 DEF Run, SavedRows
  <2> QED
    BY <2>1, <2>2 DEF Run, CreateConversation
<1>5. UncompressedInv'
  <2>1. /\ conversation_id <= created
        /\ \A c \in Conversations : c > created => Loaded(store[c]) = << >>
        /\ live = << >>
    BY DEF ConversationInv, UncompressedInv
  <2>2. /\ \/ UNCHANGED <<conversation_id, created>>
           \/ created' = created + 1 /\ conversation_id' = created + 1
        /\ UNCHANGED <<store, live>> /\ pc' = "iter"
    BY DEF Run, CreateConversation
  <2>3. conversation_id' <= created' /\ created' \in Nat /\ created <= created'
    BY <1>3, <2>1, <2>2
  <2>4. ASSUME NEW c \in Conversations, c > created'
        PROVE  Loaded(store'[c]) = << >>
    BY <1>3, <2>1, <2>2, <2>3, <2>4 DEF Conversations
  <2> QED
    BY <2>1, <2>2, <2>3, <2>4 DEF UncompressedInv
<1>6. BatchInv'
  BY DEF Run, BatchInv, BatchPoints
<1>7. OrderInv' /\ MatchInv' /\ AnswersInv'
  <2>1. store_failed => store_failed'
    BY DEF Run, CreateConversation
  <2>2. AppendToHistory(<<msg>>) /\ UNCHANGED store
    BY DEF Run, msg
  <2> QED
    BY <1>1, <1>4, <2>1, <2>2, OneMessage, AppendKeepsLists
<1> QED
  BY <1>5, <1>6, <1>7 DEF ConversationInv

LEMMA ParseKeepsConversation ==
  ASSUME TypeInv, ConversationInv, ParseResponse
  PROVE  ConversationInv'
<1> DEFINE msg == AssistantMessage(next_id, Len(ctx.calls))
<1>0. /\ ctx \in CtxType /\ ctx.calls \in Seq(Kinds) /\ Len(ctx.calls) \in Nat
      /\ next_id \in Nat
  BY CtxFields, LenProperties DEF TypeInv, TypeOK
<1>1. msg \in Message /\ msg.id = next_id /\ msg.role = "assistant"
  BY <1>0 DEF AssistantMessage, Message, Roles
<1>2. AppendToHistory(<<msg>>) /\ UNCHANGED <<store, conversation_id, created,
                                              store_failed, live>>
  BY DEF ParseResponse
<1>3. /\ ctx'.calls = ctx.calls /\ ctx'.id = next_id
      /\ ctx'.results = ctx.results
  BY <1>0 DEF ParseResponse, CtxType
<1>4. pc = "parse" /\ pc' = "execute"
  BY DEF ParseResponse, Enters
<1>5. Asker' = msg
  BY <1>3 DEF Asker
<1> HIDE DEF msg
<1>6. UncompressedInv'
  BY <1>2, <1>4 DEF ConversationInv, UncompressedInv
<1>7. OrderInv' /\ MatchInv' /\ AnswersInv'
  BY <1>1, <1>2, OneMessage, AppendKeepsLists DEF SavedRows
<1>8. \A s \in Seq(Message) : EndsWith(s \o <<msg>>, msg)
  <2> TAKE s \in Seq(Message)
  <2>1. <<msg>> \in Seq(Message) /\ Len(<<msg>>) = 1 /\ <<msg>>[1] = msg
    BY <1>1
  <2>2. Len(s \o <<msg>>) = Len(s) + 1 /\ (s \o <<msg>>)[Len(s) + 1] = msg
    BY <2>1, ConcatLists
  <2>3. s \o <<msg>> # << >>
    BY <2>1, ConcatEqualIffEmpty
  <2> QED
    BY <2>2, <2>3 DEF EndsWith
<1>9. BatchInv'
  <2>1. EndsWith(history', Asker') /\ EndsWith(pending_persist', Asker')
    BY <1>2, <1>5, <1>8, ListTypes DEF AppendToHistory
  <2>2. ctx'.results = 0 /\ ctx'.results <= Len(ctx'.calls)
    BY <1>0, <1>3, <1>4 DEF ConversationInv, BatchInv
  <2> QED
    BY <1>4, <2>1, <2>2 DEF BatchInv
<1> QED
  BY <1>6, <1>7, <1>9 DEF ConversationInv

\* The results are those of the calls of the last message: they fit behind the
\* history and behind the messages not saved yet.
LEMMA CollectKeepsConversation ==
  ASSUME TypeInv, ConversationInv, CollectResults
  PROVE  ConversationInv'
<1> DEFINE msgs == [i \in 1..ctx.results |->
                      ToolMessage(next_id + i - 1, ctx.id, i)]
<1>0. /\ ctx \in CtxType /\ ctx.calls \in Seq(Kinds) /\ Len(ctx.calls) \in Nat
      /\ ctx.results \in Nat /\ ctx.id \in Nat /\ next_id \in Nat
      /\ pc = "collect" /\ pc' = "turn"
  BY CtxFields, LenProperties DEF TypeInv, TypeOK, CollectResults, Enters
<1>1. /\ msgs \in Seq(Message) /\ Len(msgs) = ctx.results
      /\ \A i \in 1..Len(msgs) :
           msgs[i] = ToolMessage(next_id + i - 1, ctx.id, i)
  <2>1. \A i \in 1..ctx.results :
          ToolMessage(next_id + i - 1, ctx.id, i) \in Message
    BY <1>0 DEF ToolMessage, Message, Roles
  <2> QED
    BY <1>0, <2>1, IsASeq
<1>2. AppendToHistory(msgs) /\ UNCHANGED <<store, conversation_id, created,
                                           store_failed, live>>
  BY DEF CollectResults
<1> HIDE DEF msgs
<1>3. Fresh(msgs, next_id) /\ Durable(msgs)
  <2>1. ASSUME NEW i \in 1..Len(msgs)
        PROVE  msgs[i].id = next_id + i - 1 /\ msgs[i].role # "system"
    <3>1. msgs[i] = ToolMessage(next_id + i - 1, ctx.id, i)
      BY <1>1
    <3> QED
      BY <3>1 DEF ToolMessage
  <2> QED
    BY <2>1 DEF Fresh, Durable, IsDurable
<1>4. /\ ctx.results <= Len(ctx.calls)
      /\ ctx.calls # << >> =>
           EndsWith(history, Asker) /\ EndsWith(pending_persist, Asker)
  BY <1>0 DEF ConversationInv, BatchInv, BatchPoints
<1>5. ASSUME NEW s, ctx.calls # << >> => EndsWith(s, Asker)
      PROVE  Fits(s, msgs)
  <2> SUFFICES ASSUME NEW j \in 1..Len(msgs)
               PROVE  /\ s # << >> /\ msgs[j].k = j
                      /\ s[Len(s)].role = "assistant"
                      /\ s[Len(s)].id = msgs[j].of
                      /\ j <= s[Len(s)].calls
    BY DEF Fits
  <2>1. msgs[j].k = j /\ msgs[j].of = ctx.id
    <3>1. msgs[j] = ToolMessage(next_id + j - 1, ctx.id, j)
      BY <1>1
    <3> QED
      BY <3>1 DEF ToolMessage
  <2>2. j <= Len(ctx.calls) /\ ctx.calls # << >>
    BY <1>0, <1>1, <1>4, EmptySeq
  <2>3. s # << >> /\ s[Len(s)] = Asker
    BY <1>5, <2>2 DEF EndsWith
  <2> QED
    BY <2>1, <2>2, <2>3 DEF Asker, AssistantMessage
<1>6. OrderInv' /\ MatchInv' /\ AnswersInv'
  <2>1. Fits(history, msgs) /\ Fits(pending_persist, msgs)
    BY <1>4, <1>5
  <2> QED
    BY <1>1, <1>2, <1>3, <2>1, AppendKeepsLists DEF SavedRows
<1>7. UncompressedInv' /\ BatchInv'
  BY <1>0, <1>2 DEF ConversationInv, UncompressedInv, BatchInv, BatchPoints
<1> QED
  BY <1>6, <1>7 DEF ConversationInv

LEMMA HandoffKeepsConversation ==
  ASSUME TypeInv, ConversationInv, PlanHandoff
  PROVE  ConversationInv'
<1> DEFINE msg == UserMessage(next_id, Restored)
<1>1. msg \in Message /\ msg.id = next_id /\ msg.role = "user"
  <2>1. Restored \in Modes /\ next_id \in Nat
    BY DEF Restored, TypeInv, TypeOK, Modes
  <2> QED
    BY <2>1, MessageTypes DEF UserMessage
<1>2. /\ AppendToHistory(<<msg>>)
      /\ UNCHANGED <<store, conversation_id, created, store_failed, live>>
      /\ pc' = "iter"
  BY DEF PlanHandoff, NextIteration
<1> HIDE DEF msg
<1>3. OrderInv' /\ MatchInv' /\ AnswersInv'
  BY <1>1, <1>2, OneMessage, AppendKeepsLists DEF SavedRows
<1>4. UncompressedInv' /\ BatchInv'
  BY <1>2 DEF ConversationInv, UncompressedInv, BatchInv, BatchPoints
<1> QED
  BY <1>3, <1>4 DEF ConversationInv

\* A chain of steps that writes neither a list nor the store.
LEMMA QuietStepsKeepLists ==
  ASSUME ConversationInv,
         UNCHANGED <<history, pending_persist, conversation_id, store, created,
                     next_id, store_failed, live>>,
         pc' # "archive"
  PROVE  UncompressedInv' /\ OrderInv' /\ MatchInv' /\ AnswersInv'
<1>1. SessionRows' = SessionRows
  BY DEF SessionRows
<1> QED
  BY <1>1 DEF ConversationInv, UncompressedInv, OrderInv, MatchInv, AnswersInv

\* The steps of a batch before its results are collected.
LEMMA BatchKeepsConversation ==
  ASSUME TypeInv, ConversationInv,
         \/ ExecuteTools \/ ToolBlocked \/ ToolRejected \/ ApprovalAborted
         \/ ToolExecuted \/ ToolsDone
  PROVE  ConversationInv'
<1>0. /\ ctx \in CtxType /\ ctx.calls \in Seq(Kinds) /\ Len(ctx.calls) \in Nat
      /\ ctx.results \in Nat
  BY CtxFields, LenProperties DEF TypeInv, TypeOK
<1>1. /\ UNCHANGED <<history, pending_persist, conversation_id, store, created,
                     next_id, store_failed, live>>
      /\ pc \in {"execute", "tool"} /\ pc' \in {"tool", "detect"}
      /\ ctx'.calls = ctx.calls /\ ctx'.id = ctx.id
      /\ \/ ctx'.results = ctx.results
         \/ ctx.results < Len(ctx.calls) /\ ctx'.results = ctx.results + 1
  <2>1. CASE ExecuteTools \/ ToolsDone
    BY <2>1 DEF ExecuteTools, ToolsDone, Enters, messageVars
  <2>2. CASE ToolBlocked \/ ToolRejected \/ ToolExecuted
    BY <1>0, <2>2 DEF ToolBlocked, ToolRejected, ToolExecuted, PushResult,
                      HasCall, messageVars, CtxType
  <2>3. CASE ApprovalAborted
    BY <1>0, <2>3 DEF ApprovalAborted, HasCall, messageVars, CtxType
  <2> QED
    BY <2>1, <2>2, <2>3
<1>2. Asker' = Asker
  BY <1>1 DEF Asker
<1>3. /\ ctx.results <= Len(ctx.calls)
      /\ ctx.calls # << >> =>
           EndsWith(history, Asker) /\ EndsWith(pending_persist, Asker)
  BY <1>1 DEF ConversationInv, BatchInv, BatchPoints
<1>4. ctx'.results <= Len(ctx'.calls)
  BY <1>0, <1>1, <1>3
<1>5. BatchInv'
  BY <1>1, <1>2, <1>3, <1>4 DEF BatchInv
<1> QED
  BY <1>1, <1>5, QuietStepsKeepLists DEF ConversationInv

\* A blocked batch leaves its marker in the history and no result.
LEMMA DetectKeepsConversation ==
  ASSUME TypeInv, ConversationInv, LoopDetect
  PROVE  ConversationInv'
<1>0. /\ ctx \in CtxType /\ ctx.calls \in Seq(Kinds) /\ Len(ctx.calls) \in Nat
      /\ ctx.results \in Nat /\ next_id \in Nat /\ history \in Seq(Message)
      /\ pc = "detect" /\ pc' = "collect"
  BY CtxFields, LenProperties DEF TypeInv, TypeOK, LoopDetect, Enters
<1>1. UNCHANGED <<pending_persist, conversation_id, store, created,
                  store_failed, live>>
  BY DEF LoopDetect
<1>2. /\ ctx.results <= Len(ctx.calls)
      /\ ctx.calls # << >> =>
           EndsWith(history, Asker) /\ EndsWith(pending_persist, Asker)
  BY <1>0 DEF ConversationInv, BatchInv, BatchPoints
<1>3. CASE LoopContinue \/ LoopBreak
  <2>1. /\ UNCHANGED <<history, next_id>> /\ ctx'.calls = ctx.calls
        /\ ctx'.id = ctx.id /\ ctx'.results = ctx.results
    BY <1>0, <1>3 DEF LoopContinue, LoopBreak, CtxType
  <2>2. BatchInv'
    BY <1>0, <1>1, <1>2, <2>1 DEF BatchInv, Asker
  <2> QED
    BY <1>0, <1>1, <2>1, <2>2, QuietStepsKeepLists DEF ConversationInv
<1>4. CASE LoopBlock
  <2> DEFINE msg == SystemMessage(next_id)
  <2>1. /\ history' = Append(history, msg) /\ next_id' = next_id + 1
        /\ ctx'.calls = << >> /\ ctx'.results = 0
    BY <1>0, <1>4 DEF LoopBlock, CtxType
  <2>2. msg \in Message /\ msg.id = next_id /\ msg.role = "system"
    BY <1>0 DEF SystemMessage, Message, Roles
  <2> HIDE DEF msg
  <2>3. <<msg>> \in Seq(Message) /\ Len(<<msg>>) = 1 /\ <<msg>>[1] = msg
    BY <2>2
  <2>4. history' = history \o <<msg>>
    BY <1>0, <2>1, <2>2, AppendIsConcat
  <2>5. Fresh(<<msg>>, next_id) /\ Fits(history, <<msg>>)
    BY <1>0, <2>2, <2>3 DEF Fresh, Fits
  <2>6. SessionRows' = SessionRows /\ SessionRows \in Seq(Message)
    BY <1>1, ListTypes, ConcatLists DEF SessionRows
  <2>7. OrderInv'
    <3>1. Ordered(history') /\ Before(history', next_id')
      BY <1>0, <2>1, <2>3, <2>4, <2>5, OrderedGrows
         DEF ConversationInv, OrderInv
    <3>2. next_id' \in Nat /\ next_id <= next_id'
      BY <1>0, <2>1
    <3>3. Before(SessionRows, next_id')
      BY <1>0, <2>6, <3>2, BeforeLater DEF ConversationInv, OrderInv
    <3>4. \A c \in Conversations : Before(Loaded(store[c]), next_id')
      BY <1>0, <3>2, ListTypes, BeforeLater DEF ConversationInv, OrderInv
    <3> QED
      BY <1>1, <2>6, <3>1, <3>3, <3>4 DEF ConversationInv, OrderInv
  <2>8. MatchInv'
    <3>1. Members(history') = Members(history) \cup {msg}
      <4>1. Members(<<msg>>) = {msg}
        BY <2>3 DEF Members
      <4> QED
        BY <1>0, <2>3, <2>4, <4>1, MembersOfConcat
    <3> QED
      BY <1>1, <2>2, <2>6, <3>1 DEF ConversationInv, MatchInv, IsDurable
  <2>9. AnswersInv'
    <3>1. AnswersInPlace(history) => AnswersInPlace(history')
      BY <1>0, <2>3, <2>4, <2>5, AnswersGrow
    <3> QED
      BY <1>1, <2>6, <3>1 DEF ConversationInv, AnswersInv
  <2>10. UncompressedInv' /\ BatchInv'
    BY <1>0, <1>1, <2>1, EmptySeq
       DEF ConversationInv, UncompressedInv, BatchInv
  <2> QED
    BY <2>7, <2>8, <2>9, <2>10 DEF ConversationInv
<1> QED
  BY <1>3, <1>4 DEF LoopDetect

\* The first pending message becomes a row, or is dropped.
LEMMA PersistKeepsConversation ==
  ASSUME TypeInv, ConversationInv, PersistMessage
  PROVE  ConversationInv'
<1>0. /\ pending_persist \in Seq(Message) /\ pending_persist # << >>
      /\ conversation_id \in Conversations /\ conversation_id # NoConversation
      /\ store \in [Conversations -> TranscriptOf(Message)]
      /\ next_id \in Nat /\ created \in Nat
  BY DEF PersistMessage, TypeInv, TypeOK
<1> DEFINE rows == Loaded(store[conversation_id])
           msg == Head(pending_persist)
           rest == Tail(pending_persist)
<1>1. /\ rows \in Seq(Message) /\ msg \in Message /\ rest \in Seq(Message)
      /\ <<msg>> \in Seq(Message) /\ rows \o <<msg>> \in Seq(Message)
  <2>1. rows \in Seq(Message) /\ msg \in Message /\ rest \in Seq(Message)
    BY <1>0, HeadTailProperties, ListTypes
  <2> HIDE DEF rows, msg, rest
  <2>2. <<msg>> \in Seq(Message)
    BY <2>1
  <2> QED
    BY <2>1, <2>2, ConcatLists
<1>2. SessionRows = rows \o pending_persist /\ SavedRows = rows
  BY <1>0 DEF SessionRows, SavedRows
<1>3. rows \o pending_persist = (rows \o <<msg>>) \o rest
  <2>1. pending_persist = <<msg>> \o rest
    BY <1>0
  <2> HIDE DEF rows, msg, rest
  <2> QED
    BY <1>1, <2>1, ConcatAssociative
<1>4. SessionRows' = Loaded(store'[conversation_id]) \o rest
  BY <1>0 DEF PersistMessage, SessionRows
<1>5. UNCHANGED <<history, conversation_id, created, next_id, live, pc, ctx>>
  BY DEF PersistMessage, runVars
<1>6. /\ pc = "persist" /\ pc' = "persist"
      /\ store_failed => store_failed'
      /\ \/ /\ store' = [store EXCEPT ![conversation_id] =
                          Appended(store[conversation_id], msg)]
            /\ UNCHANGED store_failed
         \/ store_failed' /\ UNCHANGED store
  BY DEF PersistMessage, runVars
<1>7. ASSUME NEW c \in Conversations
      PROVE  Loaded(store'[c]) =
               IF c = conversation_id /\ store' # store
               THEN rows \o <<msg>> ELSE Loaded(store[c])
  <2>1. CASE UNCHANGED store
    BY <2>1
  <2>2. CASE store' = [store EXCEPT ![conversation_id] =
                         Appended(store[conversation_id], msg)]
    <3>1. store'[c] = IF c = conversation_id
                      THEN Appended(store[conversation_id], msg) ELSE store[c]
      BY <1>0, <2>2
    <3>2. Loaded(Appended(store[conversation_id], msg)) = Append(rows, msg)
      <4>1. store[conversation_id] \in [archived : Seq(Message),
                                        active : Seq(Message)]
        BY <1>0 DEF TranscriptOf
      <4> QED
        BY <4>1 DEF Appended, Loaded
    <3>3. Append(rows, msg) = rows \o <<msg>>
      <4> HIDE DEF rows, msg
      <4> QED
        BY <1>1, AppendIsConcat
    <3>4. CASE c = conversation_id
      <4>1. Loaded(store'[c]) = rows \o <<msg>>
        BY <3>1, <3>2, <3>3, <3>4
      <4>2. store' # store
        <5>1. rows \o <<msg>> # rows
          <6> HIDE DEF rows, msg
          <6> QED
            BY <1>1, ConcatEqualIffEmpty
        <5> QED
          BY <3>4, <4>1, <5>1
      <4> QED
        BY <3>4, <4>1, <4>2
    <3>5. CASE c # conversation_id
      BY <3>1, <3>5
    <3> QED
      BY <3>4, <3>5
  <2> QED
    BY <1>6, <2>1, <2>2
<1>8. \/ /\ store' # store /\ UNCHANGED store_failed
         /\ SessionRows' = SessionRows
      \/ /\ UNCHANGED store /\ store_failed' /\ SessionRows' = rows \o rest
  <2>1. CASE store' # store
    <3>1. Loaded(store'[conversation_id]) = rows \o <<msg>>
      BY <1>0, <1>7, <2>1
    <3>2. UNCHANGED store_failed
      BY <1>6, <2>1
    <3> QED
      BY <1>2, <1>3, <1>4, <2>1, <3>1, <3>2
  <2>2. CASE UNCHANGED store
    <3>1. store_failed'
      <4>1. CASE store' = [store EXCEPT ![conversation_id] =
                             Appended(store[conversation_id], msg)]
        <5>1. store[conversation_id] = Appended(store[conversation_id], msg)
          BY <1>0, <2>2, <4>1
        <5>2. store[conversation_id] \in [archived : Seq(Message),
                                          active : Seq(Message)]
          BY <1>0 DEF TranscriptOf
        <5>3. rows = Append(rows, msg)
          BY <5>1, <5>2 DEF Appended, Loaded
        <5>4. Append(rows, msg) # rows
          <6> HIDE DEF rows, msg
          <6>1. Append(rows, msg) = rows \o <<msg>>
            BY <1>1, AppendIsConcat
          <6> QED
            BY <1>1, <6>1, ConcatEqualIffEmpty
        <5> QED
          BY <5>3, <5>4
      <4> QED
        BY <1>6, <4>1
    <3> QED
      BY <1>4, <2>2, <3>1
  <2> QED
    BY <2>1, <2>2
<1> HIDE DEF rows, msg, rest
<1>9. UncompressedInv'
  <2>1. ASSUME NEW c \in Conversations, c > created
        PROVE  Loaded(store'[c]) = << >>
    <3>1. conversation_id <= created /\ Loaded(store[c]) = << >>
      BY <2>1 DEF ConversationInv, UncompressedInv
    <3>2. c # conversation_id
      BY <1>0, <2>1, <3>1 DEF Conversations
    <3> QED
      BY <1>7, <3>1, <3>2
  <2> QED
    BY <1>5, <1>6, <2>1 DEF ConversationInv, UncompressedInv
<1>10. OrderInv'
  <2>1. /\ Ordered(SessionRows) /\ Before(SessionRows, next_id)
        /\ Durable(SessionRows) /\ Ordered(history) /\ Before(history, next_id)
    BY DEF ConversationInv, OrderInv
  <2>2. /\ Ordered(rows \o <<msg>>) /\ Before(rows \o <<msg>>, next_id)
        /\ Durable(rows \o <<msg>>)
    BY <1>0, <1>1, <1>2, <1>3, <2>1, PartsOfLists
  <2>3. /\ Ordered(rows \o rest) /\ Before(rows \o rest, next_id)
        /\ Durable(rows \o rest)
    BY <1>0, <1>1, <1>2, <2>1, PartsOfLists DEF rest
  <2>4. ASSUME NEW c \in Conversations
        PROVE  /\ Ordered(Loaded(store'[c]))
               /\ Before(Loaded(store'[c]), next_id)
               /\ Durable(Loaded(store'[c]))
    BY <1>7, <2>2 DEF ConversationInv, OrderInv
  <2> QED
    BY <1>5, <1>8, <2>1, <2>3, <2>4 DEF OrderInv
<1>11. MatchInv'
  BY <1>5, <1>8 DEF ConversationInv, MatchInv
<1>12. AnswersInv'
  <2> SUFFICES ASSUME ~store_failed'
               PROVE  /\ AnswersInPlace(history')
                      /\ AnswersInPlace(SessionRows')
                      /\ \A c \in Conversations :
                           AnswersInPlace(Loaded(store'[c]))
    BY DEF AnswersInv
  <2>1. /\ AnswersInPlace(history) /\ AnswersInPlace(SessionRows)
        /\ \A c \in Conversations : AnswersInPlace(Loaded(store[c]))
    BY <1>6 DEF ConversationInv, AnswersInv
  <2>2. AnswersInPlace(rows \o <<msg>>)
    BY <1>1, <1>2, <1>3, <2>1, AnswersOfPrefix
  <2> QED
    BY <1>5, <1>7, <1>8, <2>1, <2>2
<1>13. BatchInv'
  BY <1>6 DEF BatchInv, BatchPoints
<1> QED
  BY <1>9, <1>10, <1>11, <1>12, <1>13 DEF ConversationInv

\* The rest of run(): its head, its ends, and the steps that save nothing.
LEMMA ControlKeepsConversation ==
  ASSUME Compression = "off", TypeInv, ConversationInv,
         \/ BeginIteration \/ MaxIterationsReached \/ Interrupted
         \/ ChainStopped \/ CallProvider \/ EndTurn \/ ContinueTurn
         \/ PersistDone
  PROVE  ConversationInv'
<1>0. ctx \in CtxType
  BY DEF TypeInv, TypeOK
<1>1. /\ UNCHANGED <<history, pending_persist, conversation_id, store, created,
                     next_id, store_failed, live>>
      /\ \/ pc' \in {"idle", "iter", "turn", "persist"}
         \/ pc' \in {"call", "parse"} /\ ctx'.results = 0
  <2>1. CASE BeginIteration
    BY <2>1 DEF BeginIteration, messageVars, NoCtx
  <2>2. CASE MaxIterationsReached \/ EndTurn
    BY <2>2 DEF MaxIterationsReached, EndTurn, ReturnOk, messageVars
  <2>3. CASE Interrupted
    BY <2>3 DEF Interrupted, ReturnError, messageVars
  <2>4. CASE ChainStopped
    BY <2>4 DEF ChainStopped, messageVars
  <2>5. CASE CallProvider
    <3>1. PICK compressed \in BOOLEAN :
            /\ CompressHistory(compressed)
            /\ ProviderAnswers(compressed) \/ ReturnError
      BY <2>5 DEF CallProvider
    <3>2. UNCHANGED <<history, next_id>>
      BY <3>1 DEF CompressHistory
    <3>3. UNCHANGED <<pending_persist, conversation_id, store, created,
                      store_failed>> /\ pc = "call"
      BY <2>5 DEF CallProvider, Enters
    <3>4. CASE ReturnError
      BY <3>2, <3>3, <3>4 DEF ReturnError
    <3>5. CASE ProviderAnswers(compressed)
      <4>1. ctx'.results = ctx.results
        BY <1>0, <3>5 DEF ProviderAnswers, CtxType
      <4>2. ctx.results = 0
        BY <3>3 DEF ConversationInv, BatchInv
      <4>3. pc' = "parse" /\ UNCHANGED live
        BY <3>5 DEF ProviderAnswers
      <4> QED
        BY <3>2, <3>3, <4>1, <4>2, <4>3
    <3> QED
      BY <3>1, <3>4, <3>5
  <2>6. CASE ContinueTurn
    BY <2>6 DEF ContinueTurn, NextIteration, messageVars
  <2>7. CASE PersistDone
    BY <2>7 DEF PersistDone, Archives, messageVars
  <2> QED
    BY <2>1, <2>2, <2>3, <2>4, <2>5, <2>6, <2>7
<1>2. BatchInv'
  BY <1>1 DEF BatchInv, BatchPoints
<1> QED
  BY <1>1, <1>2, QuietStepsKeepLists DEF ConversationInv

\* A session begins with nothing, or with the rows of a conversation.
LEMMA SessionsKeepConversation ==
  ASSUME TypeInv, ConversationInv,
         NewSession \/ Crash \/ \E c \in 1..created : Resume(c)
  PROVE  ConversationInv'
<1>0. /\ created \in Nat /\ created <= MaxRuns /\ MaxRuns \in Nat
      /\ next_id \in Nat
      /\ \A c \in Conversations : Loaded(store[c]) \in Seq(Message)
  BY BoundsAreNaturals, ListTypes DEF TypeInv, TypeOK, Counted
<1>1. /\ UNCHANGED <<store, created, next_id, store_failed>>
      /\ live' = << >> /\ pc' = "idle" /\ pending_persist' = << >>
  BY DEF NewSession, Crash, Resume, Idle, runVars, ConversationInv,
         UncompressedInv
<1>2. /\ Ordered(<< >>) /\ Before(<< >>, next_id) /\ Durable(<< >>)
      /\ AnswersInPlace(<< >>) /\ Members(<< >>) = {}
  BY DEF Ordered, Before, Durable, AnswersInPlace, Members
<1>3. /\ history' = SessionRows' /\ conversation_id' <= created
      /\ \/ SessionRows' = << >>
         \/ \E c \in Conversations : SessionRows' = Loaded(store[c])
  <2>1. CASE NewSession \/ Crash
    <3>1. history' = << >> /\ conversation_id' = NoConversation
      BY <2>1 DEF NewSession, Crash
    <3>2. SessionRows' = << >> \o << >> /\ << >> \o << >> = << >>
      BY <1>1, <3>1, EmptySeq, ConcatEmptySeq DEF SessionRows
    <3> QED
      BY <1>0, <3>1, <3>2 DEF NoConversation
  <2>2. ASSUME NEW c \in 1..created, Resume(c)
        PROVE  /\ history' = SessionRows' /\ conversation_id' <= created
               /\ \E d \in Conversations : SessionRows' = Loaded(store[d])
    <3>1. /\ c \in Conversations /\ c # NoConversation
          /\ history' = Loaded(store[c]) /\ conversation_id' = c
      BY <1>0, <2>2 DEF Resume, Conversations, NoConversation
    <3>2. SessionRows' = Loaded(store[c]) \o << >>
      BY <1>1, <3>1 DEF SessionRows
    <3>3. Loaded(store[c]) \o << >> = Loaded(store[c])
      BY <1>0, <3>1, ConcatEmptySeq
    <3> QED
      BY <3>1, <3>2, <3>3
  <2> QED
    BY <2>1, <2>2
<1>4. UncompressedInv' /\ BatchInv'
  BY <1>1, <1>3 DEF ConversationInv, UncompressedInv, BatchInv, BatchPoints
<1>5. OrderInv'
  BY <1>1, <1>2, <1>3 DEF ConversationInv, OrderInv
<1>6. MatchInv'
  <2>1. Durable(SessionRows')
    BY <1>5 DEF OrderInv
  <2>2. \A msg \in Members(SessionRows') : IsDurable(msg)
    BY <2>1 DEF Durable, Members
  <2> QED
    BY <1>3, <2>2 DEF MatchInv
<1>7. AnswersInv'
  BY <1>1, <1>2, <1>3 DEF ConversationInv, AnswersInv
<1> QED
  BY <1>4, <1>5, <1>6, <1>7 DEF ConversationInv

LEMMA NextConversationInv ==
  ASSUME Compression = "off", TypeInv, ConversationInv, [Next]_vars
  PROVE  ConversationInv'
<1>1. CASE Run
  BY <1>1, RunKeepsConversation
<1>2. CASE ParseResponse \/ CollectResults \/ PlanHandoff
  BY <1>2, ParseKeepsConversation, CollectKeepsConversation,
     HandoffKeepsConversation
<1>3. CASE \/ ExecuteTools \/ ToolBlocked \/ ToolRejected \/ ApprovalAborted
           \/ ToolExecuted \/ ToolsDone
  BY <1>3, BatchKeepsConversation
<1>4. CASE LoopDetect \/ PersistMessage
  BY <1>4, DetectKeepsConversation, PersistKeepsConversation
<1>5. CASE \/ BeginIteration \/ MaxIterationsReached \/ Interrupted
           \/ ChainStopped \/ CallProvider \/ EndTurn \/ ContinueTurn
           \/ PersistDone
  BY <1>5, ControlKeepsConversation
<1>6. CASE NewSession \/ Crash \/ \E c \in 1..created : Resume(c)
  BY <1>6, SessionsKeepConversation
<1>7. ~ArchiveAndCompact /\ ~CompressContext
  BY DEF ArchiveAndCompact, CompressContext, ConversationInv, UncompressedInv
<1>8. CASE \/ Interrupt \/ \E m \in UiModes : SetPermissionMode(m)
           \/ UNCHANGED vars
  <2>1. /\ UNCHANGED <<history, pending_persist, conversation_id, store,
                       created, next_id, store_failed, live, pc, ctx>>
    BY <1>8 DEF Interrupt, SetPermissionMode, Idle, vars, messageVars, runVars
  <2>2. BatchInv'
    BY <2>1 DEF ConversationInv, BatchInv, Asker
  <2> QED
    BY <2>1, <2>2, QuietStepsKeepLists DEF ConversationInv, UncompressedInv
<1> QED
  BY <1>1, <1>2, <1>3, <1>4, <1>5, <1>6, <1>7, <1>8 DEF Next, Thread, User

\* However blocks, rejections, aborts, the loop guard and interrupts cut the
\* batches, and wherever a crash stops the saving, every tool result stands
\* behind the call it answers, in the history and in what a session resumes.
THEOREM ResultsFollowCalls == Spec => []ToolResultsFollowTheirCalls
<1>1. CASE Compression = "off"
  <2>1. ConversationInv => ToolResultsFollowTheirCalls
    BY DEF ConversationInv, AnswersInv, ToolResultsFollowTheirCalls
  <2>2. TypeInv /\ ConversationInv /\ [Next]_vars => ConversationInv'
    BY <1>1, NextConversationInv
  <2> QED
    BY <2>1, <2>2, TypeInvariant, InitConversationInv, PTL DEF Spec
<1>2. CASE Compression # "off"
  <2>1. ToolResultsFollowTheirCalls
    BY <1>2 DEF ToolResultsFollowTheirCalls
  <2> QED
    BY <2>1, PTL
<1> QED
  BY <1>1, <1>2

\* The history, the rows and the messages not saved yet remain one ordered
\* conversation for any number of runs, failed appends, resumes and crashes.
THEOREM StoreAndHistoryMatch == Spec => []StoreMatchesHistory
<1>1. CASE Compression = "off"
  <2>1. ConversationInv => StoreMatchesHistory
    BY DEF ConversationInv, OrderInv, MatchInv, StoreMatchesHistory
  <2>2. TypeInv /\ ConversationInv /\ [Next]_vars => ConversationInv'
    BY <1>1, NextConversationInv
  <2> QED
    BY <2>1, <2>2, TypeInvariant, InitConversationInv, PTL DEF Spec
<1>2. CASE Compression # "off"
  <2>1. StoreMatchesHistory
    BY <1>2 DEF StoreMatchesHistory
  <2> QED
    BY <2>1, PTL
<1> QED
  BY <1>1, <1>2

------------------------------------------------------------------------------
(* What a step of a run may not do *)

\* The list /compact is about to install is no longer than the history, and
\* waits for it at the points where messages are saved.
LiveIsShort ==
  live # << >> =>
    /\ pc \in SavePoints /\ Compression = "in_place"
    /\ conversation_id # NoConversation
    /\ Len(live) <= Len(history)

LEMMA CompressedIsShorter ==
  ASSUME TypeInv, NEW cut \in Cuts(history),
         NEW role \in {"user", "assistant"}
  PROVE  Len(CompressedAt(history, cut, role)) <= Len(history)
<1>1. /\ history \in Seq(Message) /\ next_id \in Nat /\ Len(history) \in Nat
      /\ cut[1] \in 0..Len(history) /\ cut[2] \in 1..Len(history)
      /\ cut[1] < cut[2]
  BY LenProperties DEF TypeInv, TypeOK, Cuts
<1> DEFINE before == SubSeq(history, 1, cut[1])
           summary == <<SummaryMessage(next_id, role)>>
           after == SubSeq(history, cut[2] + 1, Len(history))
<1>2. before \in Seq(Message) /\ Len(before) = cut[1]
  BY <1>1, SubSeqProperties, ElementOfSeq
<1>3. after \in Seq(Message) /\ Len(after) = Len(history) - cut[2]
  <2>1. \A i \in cut[2] + 1..Len(history) : history[i] \in Message
    BY <1>1, ElementOfSeq
  <2>2. /\ after \in Seq(Message)
        /\ Len(after) = IF cut[2] + 1 <= Len(history)
                        THEN Len(history) - (cut[2] + 1) + 1 ELSE 0
    BY <1>1, <2>1, SubSeqProperties
  <2> QED
    BY <1>1, <2>2
<1>4. summary \in Seq(Message) /\ Len(summary) = 1
  <2>1. SummaryMessage(next_id, role) \in Message
    BY <1>1 DEF SummaryMessage, Message, Roles
  <2> QED
    BY <2>1
<1> HIDE DEF before, summary, after
<1>5. Len((before \o summary) \o after) = cut[1] + 1 + (Len(history) - cut[2])
  <2>1. /\ before \o summary \in Seq(Message)
        /\ Len(before \o summary) = Len(before) + Len(summary)
    BY <1>2, <1>4, ConcatLists
  <2>2. Len((before \o summary) \o after)
          = Len(before \o summary) + Len(after)
    BY <1>3, <2>1, ConcatLists
  <2> QED
    BY <1>2, <1>3, <1>4, <2>1, <2>2
<1>6. CompressedAt(history, cut, role) = (before \o summary) \o after
  BY DEF CompressedAt, before, summary, after
<1> QED
  BY <1>1, <1>5, <1>6

LEMMA NextLiveIsShort ==
  ASSUME TypeInv, LiveIsShort, [Next]_vars
  PROVE  LiveIsShort'
<1> USE DEF LiveIsShort, SavePoints
<1>1. CASE \/ Run \/ BeginIteration \/ MaxIterationsReached \/ Interrupted
           \/ ChainStopped
  BY <1>1 DEF Run, BeginIteration, MaxIterationsReached, Interrupted,
              ChainStopped, ReturnOk, ReturnError, ChainSteps
<1>2. CASE CallProvider \/ ParseResponse \/ ExecuteTools \/ LoopDetect
           \/ CollectResults
  BY <1>2 DEF CallProvider, ProviderAnswers, ReturnError, ParseResponse,
              ExecuteTools, LoopDetect, CollectResults, Enters
<1>3. CASE ToolBlocked \/ ToolRejected \/ ApprovalAborted \/ ToolExecuted
           \/ ToolsDone
  BY <1>3 DEF ToolBlocked, ToolRejected, ApprovalAborted, ToolExecuted,
              ToolsDone, PushResult, HasCall
<1>4. CASE PlanHandoff \/ EndTurn \/ ContinueTurn
  BY <1>4 DEF PlanHandoff, EndTurn, ContinueTurn, NextIteration, ReturnOk
<1>5. CASE PersistMessage \/ ArchiveAndCompact
  BY <1>5 DEF PersistMessage, ArchiveAndCompact, runVars
<1>6. CASE PersistDone
  BY <1>6 DEF PersistDone, Archives, messageVars
<1>7. CASE CompressContext
  BY <1>7, CompressedIsShorter DEF CompressContext
<1>8. CASE NewSession \/ Crash \/ Interrupt
  BY <1>8 DEF NewSession, Crash, Interrupt, Idle, runVars, messageVars
<1>9. ASSUME NEW m \in UiModes, SetPermissionMode(m) PROVE LiveIsShort'
  BY <1>9 DEF SetPermissionMode, Idle, runVars, messageVars
<1>10. ASSUME NEW c \in 1..created, Resume(c) PROVE LiveIsShort'
  BY <1>10 DEF Resume, Idle, runVars
<1>11. CASE UNCHANGED vars
  BY <1>11 DEF vars, runVars, messageVars
<1> QED
  BY <1>1, <1>2, <1>3, <1>4, <1>5, <1>6, <1>7, <1>8, <1>9, <1>10, <1>11
     DEF Next, Thread, User

\* No step of an interrupted run says anything but the user's handoff message.
LEMMA SilentWhenInterrupted ==
  ASSUME TypeInv, LiveIsShort, [Next]_vars,
         interrupted, pc # "idle", Len(history') > Len(history)
  PROVE  history'[Len(history')].role \notin {"assistant", "tool"}
<1>0. history \in Seq(Message) /\ Len(history) \in Nat
  BY LenProperties DEF TypeInv, TypeOK
<1>1. ~Run /\ ~CompressContext /\ ~NewSession
  BY DEF Run, CompressContext, NewSession, Idle
<1>2. /\ \A m \in UiModes : ~SetPermissionMode(m)
      /\ \A c \in 1..created : ~Resume(c)
  BY DEF SetPermissionMode, Resume, Idle
<1>3. /\ ~CallProvider /\ ~ParseResponse /\ ~ExecuteTools /\ ~LoopDetect
      /\ ~CollectResults
  BY DEF CallProvider, ParseResponse, ExecuteTools, LoopDetect,
         CollectResults, Enters
<1>4. ~(history' = history)
  BY <1>0
<1>5. /\ ~BeginIteration /\ ~MaxIterationsReached /\ ~Interrupted
      /\ ~ChainStopped /\ ~ToolBlocked /\ ~ToolRejected /\ ~ApprovalAborted
      /\ ~ToolExecuted /\ ~ToolsDone /\ ~EndTurn /\ ~ContinueTurn
      /\ ~PersistMessage /\ ~PersistDone /\ ~Interrupt /\ ~UNCHANGED vars
  BY <1>4 DEF BeginIteration, MaxIterationsReached, Interrupted, ChainStopped,
              ToolBlocked, ToolRejected, ApprovalAborted, ToolExecuted,
              ToolsDone, EndTurn, ContinueTurn, PersistMessage, PersistDone,
              Interrupt, PushResult, vars, messageVars
<1>6. ~ArchiveAndCompact
  <2>1. Len(live) \in Nat
    BY LenProperties DEF TypeInv, TypeOK
  <2>2. live # << >> => Len(live) <= Len(history)
    BY DEF LiveIsShort
  <2>3. ASSUME history' = live, live # << >> PROVE FALSE
    BY <1>0, <2>1, <2>2, <2>3
  <2>4. ArchiveAndCompact =>
          history' = history \/ (history' = live /\ live # << >>)
    BY DEF ArchiveAndCompact
  <2> QED
    BY <1>4, <2>3, <2>4
<1>7. ~Crash
  <2>1. Len(<< >>) = 0
    BY EmptySeq
  <2> QED
    BY <1>0, <2>1 DEF Crash
<1>8. CASE PlanHandoff
  <2> DEFINE msg == UserMessage(next_id, Restored)
  <2>1. msg \in Message /\ msg.role = "user"
    <3>1. Restored \in Modes /\ next_id \in Nat
      BY DEF Restored, TypeInv, TypeOK, Modes
    <3> QED
      BY <3>1, MessageTypes DEF UserMessage
  <2>2. history' = history \o <<msg>>
    BY <1>8 DEF PlanHandoff, AppendToHistory
  <2> HIDE DEF msg
  <2>3. history' = Append(history, msg)
    BY <1>0, <2>1, <2>2, AppendIsConcat
  <2>4. history'[Len(history')] = msg
    BY <1>0, <2>1, <2>3, AppendProperties
  <2> QED
    BY <2>1, <2>4
<1> QED
  BY <1>1, <1>2, <1>3, <1>5, <1>6, <1>7, <1>8 DEF Next, Thread, User

\* After Ctrl+C a run adds no answer and no tool result, at whichever step the
\* flag is set, also when /compact installs another list.
THEOREM InterruptsSilence == Spec => InterruptSilencesRun
<1>1. Init => LiveIsShort
  BY DEF Init, LiveIsShort
<1>2. TypeInv /\ LiveIsShort /\ [Next]_vars => LiveIsShort'
  BY NextLiveIsShort
<1>3. TypeInv /\ LiveIsShort /\ [Next]_vars =>
        [interrupted /\ pc # "idle" /\ Len(history') > Len(history)
           => history'[Len(history')].role \notin {"assistant", "tool"}]_vars
  BY SilentWhenInterrupted
<1> QED
  BY <1>1, <1>2, <1>3, TypeInvariant, PTL DEF Spec, InterruptSilencesRun

\* Without interruptions an approved plan_exit is handed off in the iteration
\* that asked for it: the flag is never left for another.
ExitIsHandedOff ==
  /\ ~interrupted
  /\ exit_approved =>
       plan_approved /\ pc \in {"tool", "detect", "collect", "turn"}

LEMMA NextExitIsHandedOff ==
  ASSUME ~CanInterrupt, ExitIsHandedOff, [Next]_vars
  PROVE  ExitIsHandedOff'
<1> USE DEF ExitIsHandedOff, permissionVars, ghostVars, runVars
<1>1. CASE Run \/ BeginIteration \/ MaxIterationsReached \/ ChainStopped
  BY <1>1 DEF Run, BeginIteration, MaxIterationsReached, ChainStopped,
              ReturnOk
<1>2. CASE CallProvider \/ ParseResponse \/ ExecuteTools \/ LoopDetect
           \/ CollectResults
  BY <1>2 DEF CallProvider, ParseResponse, ExecuteTools, LoopDetect,
              CollectResults, Enters
<1>3. CASE ToolBlocked \/ ToolRejected \/ ApprovalAborted \/ ToolsDone
  BY <1>3 DEF ToolBlocked, ToolRejected, ApprovalAborted, ToolsDone,
              PushResult, HasCall
<1>4. CASE ToolExecuted
  BY <1>4 DEF ToolExecuted, PlanExit, PushResult, HasCall
<1>5. CASE PlanHandoff \/ EndTurn \/ ContinueTurn
  BY <1>5 DEF PlanHandoff, EndTurn, ContinueTurn, NextIteration, ReturnOk
<1>6. CASE \/ PersistMessage \/ PersistDone \/ ArchiveAndCompact
           \/ CompressContext
  BY <1>6 DEF PersistMessage, PersistDone, ArchiveAndCompact,
              CompressContext
<1>7. CASE Crash
  BY <1>7 DEF Crash
<1>8. CASE NewSession \/ \E m \in UiModes : SetPermissionMode(m)
  <2>1. pc = "idle" /\ UNCHANGED <<interrupted, pc, plan_approved>>
    BY <1>8 DEF NewSession, SetPermissionMode, Idle
  <2>2. ~exit_approved
    BY <2>1
  <2>3. ~exit_approved'
    BY <1>8, <2>2, Zenon DEF NewSession, SetPermissionMode
  <2> QED
    BY <2>1, <2>3
<1>9. ASSUME NEW c \in 1..created, Resume(c) PROVE ExitIsHandedOff'
  BY <1>9 DEF Resume, Idle
<1>10. ~Interrupt /\ ~Interrupted
  BY DEF Interrupt, Interrupted
<1>11. CASE UNCHANGED vars
  BY <1>11 DEF vars
<1> QED
  BY <1>1, <1>2, <1>3, <1>4, <1>5, <1>6, <1>7, <1>8, <1>9, <1>10, <1>11
     DEF Next, Thread, User

LEMMA ModeIsLeftWithApproval ==
  ASSUME ExitIsHandedOff, [Next]_vars, pc # "idle", pc' # "idle",
         mode = "plan", mode' # "plan"
  PROVE  plan_approved'
<1> USE DEF permissionVars, ghostVars
<1>1. /\ ~Run /\ ~CompressContext /\ ~NewSession /\ ~Crash
      /\ \A m \in UiModes : ~SetPermissionMode(m)
      /\ \A c \in 1..created : ~Resume(c)
  BY DEF Run, CompressContext, NewSession, Crash, SetPermissionMode, Resume,
         Idle
<1>2. /\ ~BeginIteration /\ ~MaxIterationsReached /\ ~Interrupted
      /\ ~ChainStopped /\ ~CallProvider /\ ~ParseResponse /\ ~ExecuteTools
      /\ ~ToolBlocked /\ ~ToolRejected /\ ~ApprovalAborted /\ ~ToolsDone
  BY DEF BeginIteration, MaxIterationsReached, Interrupted, ChainStopped,
         CallProvider, ParseResponse, ExecuteTools, ToolBlocked, ToolRejected,
         ApprovalAborted, ToolsDone
<1>3. /\ ~LoopDetect /\ ~CollectResults /\ ~EndTurn /\ ~ContinueTurn
      /\ ~PersistMessage /\ ~PersistDone /\ ~ArchiveAndCompact
      /\ ~Interrupt /\ ~UNCHANGED vars
  BY DEF LoopDetect, CollectResults, EndTurn, ContinueTurn, PersistMessage,
         PersistDone, ArchiveAndCompact, Interrupt, vars
<1>4. CASE ToolExecuted
  BY <1>4 DEF ToolExecuted, PlanExit
<1>5. CASE PlanHandoff
  BY <1>5 DEF PlanHandoff, ExitIsHandedOff
<1> QED
  BY <1>1, <1>2, <1>3, <1>4, <1>5 DEF Next, Thread, User

\* Unless a run is interrupted, plan mode is left only with an approval given
\* in the same run; with interrupts it is not so (run agent_stale_handoff).
THEOREM PlanLeftWithApproval ==
  ASSUME ~CanInterrupt
  PROVE  Spec => PlanLeftOnlyWithApproval
<1>1. Init => ExitIsHandedOff
  BY DEF Init, ExitIsHandedOff
<1>2. ExitIsHandedOff /\ [Next]_vars => ExitIsHandedOff'
  BY NextExitIsHandedOff
<1>3. ExitIsHandedOff /\ [Next]_vars =>
        [pc # "idle" /\ pc' # "idle" /\ mode = "plan" /\ mode' # "plan"
           => plan_approved']_vars
  BY ModeIsLeftWithApproval
<1> QED
  BY <1>1, <1>2, <1>3, PTL DEF Spec, PlanLeftOnlyWithApproval

=============================================================================
