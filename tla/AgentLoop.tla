------------------------------ MODULE AgentLoop ------------------------------
(***************************************************************************)
(* One AgentLoop of src/src/agent: run() and its chain of steps, the tool   *)
(* loop with its policy, plan-mode and approval gates, the plan_exit        *)
(* handoff, and the persistence of the conversation.  The agent thread      *)
(* executes run() step by step; the UI thread sets the interrupt flag at    *)
(* any time and calls the other operations between runs (TuiApp refuses     *)
(* them while the agent is busy); the process may crash between two steps.  *)
(*                                                                         *)
(* Abstracted: message and argument text, the system prompt, events and     *)
(* traces.  The provider's answer, the user's decisions, the verdict of     *)
(* LoopDetector.check (module LoopDetector) and the cut points of           *)
(* ContextCompressor.compress (module ContextCompressor) are choices.       *)
(***************************************************************************)
EXTENDS Transcript, FiniteSets

CONSTANTS
  MaxIterations,  \* Config::max_iterations
  MaxCalls,       \* bound: tool calls in one response
  MaxRuns,        \* bound: calls of run()
  MaxMessages,    \* bound: no /compact once this many messages were made
  Kinds,          \* the kinds of tool call the provider asks for
  Denied,         \* the kinds whose tool SecurityPolicy::check_tool refuses
  UiModes,        \* the modes the user switches to with Shift+Tab
  Compression,    \* "off", "in_place", or "live_only" (in_place = false)
  StoreFails,     \* may the conversation store return errors?
  CanInterrupt,   \* does the user press Ctrl+C during a run?
  CanCrash        \* may the process die?

Modes     == {"manual", "acceptEdits", "plan", "auto"}
AllKinds  == {"read", "edit", "plan_edit", "shell", "unknown", "plan_exit"}
Roles     == {"user", "assistant", "tool", "system"}

\* The tool calls of the model: "read" is any tool that is not mutating,
\* "edit" a file write, "plan_edit" a file write to the plan file, "shell"
\* another mutating tool and "unknown" a name find() does not know.
Mutating == {"edit", "plan_edit", "shell", "unknown"}
FileWrite == {"edit", "plan_edit"}

ASSUME BoundsAreNaturals ==
  /\ MaxIterations \in Nat /\ MaxCalls \in Nat
  /\ MaxRuns \in Nat /\ MaxMessages \in Nat
ASSUME KindsAreKnown == Kinds \subseteq AllKinds /\ Denied \subseteq AllKinds
ASSUME UiModesAreModes == UiModes \subseteq Modes
ASSUME SwitchesAreKnown ==
  /\ Compression \in {"off", "in_place", "live_only"}
  /\ StoreFails \in BOOLEAN
  /\ CanInterrupt \in BOOLEAN /\ CanCrash \in BOOLEAN

\* A message: "calls" counts the tool calls of an assistant message, a tool
\* message answers call "k" of assistant message "of", a user message carries
\* the permission mode it was sent in.
Message == [role : Roles, id : Nat, calls : Nat, of : Nat, k : Nat,
            mode : Modes \cup {"none"}]

Conversations == 1..MaxRuns

VARIABLES
  history,          \* history_
  pending_persist,  \* pending_persist_
  conversation_id,  \* conversation_id_, NoConversation when empty
  store,            \* the conversation store's rows, per conversation
  created,          \* conversations created so far
  next_id,          \* the identity of the next message
  mode,             \* PermissionState::mode
  previous,         \* PermissionState::previous
  exit_approved,    \* PermissionState::exit_approved
  plan_file,        \* is plan_file_ set?
  interrupted,      \* interrupted_
  pc,               \* where the agent thread is
  iteration,        \* i of run()
  compression_applied, \* the local of run()
  live,             \* compress_context: the list to install, << >> in a run
  ctx,              \* the TurnContext of the iteration
  outcome,          \* what the last run() returned
  runs,             \* calls of run() so far
  last_exec,        \* the last tool call that reached its tool
  plan_approved,    \* has the user approved plan_exit in this run?
  said,             \* ids append_to_history() saw in this conversation
  store_failed      \* has the store returned an error?

messageVars == <<history, pending_persist, conversation_id, store, created,
                 next_id, said, store_failed>>
permissionVars == <<mode, previous, exit_approved, plan_file>>
runVars == <<pc, iteration, compression_applied, live, ctx, outcome, runs>>
ghostVars == <<last_exec, plan_approved>>
vars == <<messageVars, permissionVars, interrupted, runVars, ghostVars>>

\* The steps of the chain, in order, at whose entry run_step_chain looks at
\* the interrupt flag and should_stop.
ChainSteps == {"call", "parse", "execute", "detect", "collect"}
RunPoints  == {"iter", "turn", "tool"} \cup ChainSteps
SavePoints == {"persist", "archive"}

NoCtx == [mode |-> "manual", plan_file |-> FALSE, calls |-> << >>, id |-> 0,
          results |-> 0, tool_use |-> FALSE, stop |-> FALSE,
          compressed |-> FALSE]
NoExec == [kind |-> "none", mode |-> "manual", asked |-> FALSE]

------------------------------------------------------------------------------
(* Messages *)

UserMessage(id, m) ==
  [role |-> "user", id |-> id, calls |-> 0, of |-> 0, k |-> 0, mode |-> m]
AssistantMessage(id, n) ==
  [role |-> "assistant", id |-> id, calls |-> n, of |-> 0, k |-> 0,
   mode |-> "none"]
ToolMessage(id, of, k) ==
  [role |-> "tool", id |-> id, calls |-> 0, of |-> of, k |-> k,
   mode |-> "none"]
SystemMessage(id) ==
  [role |-> "system", id |-> id, calls |-> 0, of |-> 0, k |-> 0,
   mode |-> "none"]
SummaryMessage(id, role) ==
  [role |-> role, id |-> id, calls |-> 0, of |-> 0, k |-> 0, mode |-> "none"]

\* append_to_history(), for messages whose role is not System.
AppendToHistory(msgs) ==
  /\ history' = history \o msgs
  /\ pending_persist' = pending_persist \o msgs
  /\ said' = said \cup Ids(msgs)
  /\ next_id' = next_id + Len(msgs)

\* permission_mode_from_name(): anything unknown is "manual".
ModeFromName(name) == IF name \in Modes THEN name ELSE "manual"

\* The fallback that keeps a restored mode from being Plan.
Restored == IF previous = "plan" THEN "manual" ELSE previous

------------------------------------------------------------------------------
(* One summary replaces the messages of a cut (Cuts of Transcript). *)

CompressedAt(msgs, cut, role) ==
  SubSeq(msgs, 1, cut[1]) \o <<SummaryMessage(next_id, role)>>
    \o SubSeq(msgs, cut[2] + 1, Len(msgs))

------------------------------------------------------------------------------
(* run(): entry and the head of the iteration *)

\* Create the conversation if this session has none; a failure is logged.
CreateConversation ==
  \/ /\ conversation_id # NoConversation
     /\ UNCHANGED <<conversation_id, created, store_failed>>
  \/ /\ conversation_id = NoConversation
     /\ created' = created + 1
     /\ conversation_id' = created'
     /\ UNCHANGED store_failed
  \/ /\ conversation_id = NoConversation
     /\ StoreFails
     /\ store_failed' = TRUE
     /\ UNCHANGED <<conversation_id, created>>

Run ==
  /\ pc = "idle"
  /\ runs < MaxRuns
  /\ runs' = runs + 1
  /\ interrupted' = FALSE
  /\ AppendToHistory(<<UserMessage(next_id, mode)>>)
  /\ CreateConversation
  /\ pc' = "iter"
  /\ iteration' = 0
  /\ compression_applied' = FALSE
  /\ outcome' = "running"
  /\ plan_approved' = FALSE
  /\ UNCHANGED <<store, permissionVars, live, ctx, last_exec>>

\* run() returns an error: nothing is persisted or archived.
ReturnError ==
  /\ pc' = "idle"
  /\ outcome' = "error"
  /\ ctx' = NoCtx
  /\ iteration' = 0
  /\ compression_applied' = FALSE
  /\ UNCHANGED <<live, runs>>

BeginIteration ==
  /\ pc = "iter"
  /\ iteration < MaxIterations
  /\ ~interrupted
  /\ ctx' = [NoCtx EXCEPT !.mode = mode, !.plan_file = plan_file]
  /\ pc' = "call"
  /\ UNCHANGED <<messageVars, permissionVars, interrupted, iteration,
                 compression_applied, live, outcome, runs, ghostVars>>

\* run() is about to return ok: persist_or_archive() comes first.
ReturnOk ==
  /\ pc' = "persist"
  /\ outcome' = "ok"
  /\ ctx' = NoCtx
  /\ iteration' = 0
  /\ UNCHANGED <<live, runs>>

\* Faulty variant: the bound is missed by one.
MaxIterationsMissed ==
  /\ pc = "iter"
  /\ iteration > MaxIterations
  /\ ReturnOk
  /\ UNCHANGED <<messageVars, permissionVars, interrupted,
                 compression_applied, ghostVars>>

MaxIterationsReached ==
  /\ pc = "iter"
  /\ iteration = MaxIterations
  /\ ReturnOk
  /\ UNCHANGED <<messageVars, permissionVars, interrupted,
                 compression_applied, ghostVars>>

\* The flag is read at the top of an iteration and before every step.
Interrupted ==
  /\ \/ pc = "iter" /\ iteration < MaxIterations
     \/ pc \in ChainSteps
  /\ interrupted
  /\ ReturnError
  /\ UNCHANGED <<messageVars, permissionVars, interrupted, ghostVars>>

------------------------------------------------------------------------------
(* The chain: BuildToolSpecs and CallProvider, ParseResponse, ExecuteTools,
   LoopDetect, CollectResults *)

\* Faulty variant: the flag is read at the top of an iteration only.
EntersUnlessStopped(step) == pc = step /\ ~ctx.stop

\* run_step_chain enters the next step, or leaves the chain on should_stop.
Enters(step) == pc = step /\ ~interrupted /\ ~ctx.stop

ChainStopped ==
  /\ pc \in ChainSteps
  /\ ~interrupted
  /\ ctx.stop
  /\ pc' = "turn"
  /\ UNCHANGED <<messageVars, permissionVars, interrupted, iteration,
                 compression_applied, live, ctx, outcome, runs, ghostVars>>

\* CallProviderStep compresses a context over its threshold first.  The
\* compressed list replaces the history only when it is shorter.
CompressHistory(compressed) ==
  \/ ~compressed /\ UNCHANGED <<history, next_id>>
  \/ /\ compressed
     /\ Compression # "off"
     /\ \E cut \in Cuts(history), role \in {"user", "assistant"} :
          /\ cut[2] - cut[1] > 1
          /\ history' = CompressedAt(history, cut, role)
     /\ next_id' = next_id + 1

\* tool_use is LLMResponse::is_tool_use(): a response cut off by its token
\* limit may hold tool calls and another stop reason.
ProviderAnswers(compressed) ==
  /\ \E n \in 0..MaxCalls, tool_use \in BOOLEAN :
       /\ n = 0 => ~tool_use
       /\ \E calls \in [1..n -> Kinds] :
            ctx' = [ctx EXCEPT !.calls = calls, !.tool_use = tool_use,
                               !.compressed = compressed]
  /\ pc' = "parse"
  /\ UNCHANGED <<iteration, compression_applied, live, outcome, runs>>

CallProvider ==
  /\ Enters("call")
  /\ \E compressed \in BOOLEAN :
       /\ CompressHistory(compressed)
       /\ ProviderAnswers(compressed) \/ ReturnError
  /\ UNCHANGED <<pending_persist, conversation_id, store, created, said,
                 store_failed, permissionVars, interrupted, ghostVars>>

\* ParseResponseStep
ParseResponse ==
  /\ Enters("parse")
  /\ AppendToHistory(<<AssistantMessage(next_id, Len(ctx.calls))>>)
  /\ ctx' = [ctx EXCEPT !.id = next_id, !.stop = ~ctx.tool_use]
  /\ pc' = "execute"
  /\ UNCHANGED <<conversation_id, store, created, store_failed,
                 permissionVars, interrupted,
                 iteration, compression_applied, live, outcome, runs,
                 ghostVars>>

\* ExecuteToolsStep: its loop over the calls does not look at the flag.
ExecuteTools ==
  /\ Enters("execute")
  /\ pc' = "tool"
  /\ UNCHANGED <<messageVars, permissionVars, interrupted, iteration,
                 compression_applied, live, ctx, outcome, runs, ghostVars>>

PlanModeAllows(kind) ==
  \/ kind \in {"plan_exit", "read"}
  \/ kind = "plan_edit" /\ ctx.plan_file

\* Faulty variant: AcceptEdits accepts every mutating call.
NeedsApprovalInManual(kind) == ctx.mode = "manual" /\ kind \in Mutating

NeedsApproval(kind) ==
  \/ ctx.mode = "manual" /\ kind \in Mutating
  \/ ctx.mode = "acceptEdits" /\ kind \in Mutating \ FileWrite

\* Faulty variant: the plan-mode guard is missing.
BlockedByPolicy(kind) == kind \in Denied

Blocked(kind) ==
  \/ kind \in Denied
  \/ ctx.mode = "plan" /\ ~PlanModeAllows(kind)

\* The call at hand, while there is one.
HasCall == pc = "tool" /\ ctx.results < Len(ctx.calls)
Call == ctx.calls[ctx.results + 1]

\* A result is pushed and the loop goes on.
PushResult ==
  /\ ctx' = [ctx EXCEPT !.results = @ + 1]
  /\ UNCHANGED <<messageVars, interrupted, pc, iteration,
                 compression_applied, live, outcome, runs>>

ToolBlocked ==
  /\ HasCall
  /\ Blocked(Call)
  /\ PushResult
  /\ UNCHANGED <<permissionVars, ghostVars>>

ToolRejected ==
  /\ HasCall
  /\ ~Blocked(Call) /\ NeedsApproval(Call)
  /\ PushResult
  /\ UNCHANGED <<permissionVars, ghostVars>>

ApprovalAborted ==
  /\ HasCall
  /\ ~Blocked(Call) /\ NeedsApproval(Call)
  /\ ctx' = [ctx EXCEPT !.stop = TRUE]
  /\ pc' = "detect"
  /\ UNCHANGED <<messageVars, permissionVars, interrupted, iteration,
                 compression_applied, live, outcome, runs, ghostVars>>

\* Faulty variant: a rejected plan sets the flag too.
PlanExitUnasked ==
  /\ mode = "plan"
  /\ exit_approved' = TRUE
  /\ UNCHANGED <<mode, previous, plan_file, plan_approved>>

\* PlanExitTool::execute asks the user itself.
PlanExit ==
  \/ /\ mode = "plan"
     /\ mode' = Restored
     /\ exit_approved' = TRUE
     /\ plan_approved' = TRUE
     /\ UNCHANGED <<previous, plan_file>>
  \/ UNCHANGED <<permissionVars, plan_approved>>

ToolExecuted ==
  /\ HasCall
  /\ ~Blocked(Call)
  /\ last_exec' = [kind |-> Call, mode |-> mode,
                   asked |-> NeedsApproval(Call)]
  /\ \/ Call = "plan_exit" /\ PlanExit
     \/ Call # "plan_exit" /\ UNCHANGED <<permissionVars, plan_approved>>
  /\ PushResult

ToolsDone ==
  /\ pc = "tool"
  /\ ctx.results = Len(ctx.calls)
  /\ pc' = "detect"
  /\ UNCHANGED <<messageVars, permissionVars, interrupted, iteration,
                 compression_applied, live, ctx, outcome, runs, ghostVars>>

\* LoopDetectStep.  Continue and Warn change nothing; Block drops the calls
\* and their results and adds a marker to the context only; Break stops.
LoopContinue ==
  UNCHANGED <<history, next_id, ctx>>

\* Faulty variant: the results of the blocked calls stay.
LoopBlockCallsOnly ==
  /\ ctx.calls # << >> /\ ctx.results > 0
  /\ ctx' = [ctx EXCEPT !.calls = << >>]
  /\ history' = Append(history, SystemMessage(next_id))
  /\ next_id' = next_id + 1

LoopBlock ==
  /\ ctx.calls # << >> /\ ctx.results > 0
  /\ ctx' = [ctx EXCEPT !.calls = << >>, !.results = 0]
  /\ history' = Append(history, SystemMessage(next_id))
  /\ next_id' = next_id + 1

LoopBreak ==
  /\ ctx.calls # << >> /\ ctx.results > 0
  /\ ctx' = [ctx EXCEPT !.stop = TRUE]
  /\ UNCHANGED <<history, next_id>>

LoopDetect ==
  /\ Enters("detect")
  /\ LoopContinue \/ LoopBlock \/ LoopBreak
  /\ pc' = "collect"
  /\ UNCHANGED <<pending_persist, conversation_id, store, created, said,
                 store_failed, permissionVars, interrupted, iteration,
                 compression_applied, live, outcome, runs, ghostVars>>

\* CollectResultsStep: one tool message per result, matched by position.
CollectResults ==
  /\ Enters("collect")
  /\ AppendToHistory([i \in 1..ctx.results |->
                        ToolMessage(next_id + i - 1, ctx.id, i)])
  /\ ctx' = [ctx EXCEPT !.calls = << >>, !.results = 0]
  /\ pc' = "turn"
  /\ UNCHANGED <<conversation_id, store, created, store_failed,
                 permissionVars, interrupted,
                 iteration, compression_applied, live, outcome, runs,
                 ghostVars>>

------------------------------------------------------------------------------
(* After the chain: the plan_exit handoff, the end of the turn, or the next
   iteration *)

NextIteration ==
  /\ pc' = "iter"
  /\ iteration' = iteration + 1
  /\ ctx' = NoCtx
  /\ compression_applied' = (compression_applied \/ ctx.compressed)
  /\ UNCHANGED <<live, outcome, runs>>

PlanHandoff ==
  /\ pc = "turn"
  /\ exit_approved
  /\ exit_approved' = FALSE
  /\ mode' = Restored
  /\ AppendToHistory(<<UserMessage(next_id, Restored)>>)
  /\ NextIteration
  /\ UNCHANGED <<conversation_id, store, created, store_failed, previous,
                 plan_file, interrupted, ghostVars>>

EndTurn ==
  /\ pc = "turn"
  /\ ~exit_approved
  /\ ctx.stop
  /\ compression_applied' = (compression_applied \/ ctx.compressed)
  /\ ReturnOk
  /\ UNCHANGED <<messageVars, permissionVars, interrupted, ghostVars>>

ContinueTurn ==
  /\ pc = "turn"
  /\ ~exit_approved
  /\ ~ctx.stop
  /\ NextIteration
  /\ UNCHANGED <<messageVars, permissionVars, interrupted, ghostVars>>

------------------------------------------------------------------------------
(* Saving: persist_or_archive() at the end of a run, and compress_context() *)

Archives ==
  /\ conversation_id # NoConversation
  /\ Compression = "in_place"
  /\ compression_applied \/ live # << >>

\* Faulty variant: a message whose append failed is tried again later.
PersistMessageRetried ==
  /\ pc = "persist"
  /\ conversation_id # NoConversation
  /\ pending_persist # << >>
  /\ \/ /\ store' = [store EXCEPT ![conversation_id] =
                       Appended(@, Head(pending_persist))]
        /\ pending_persist' = Tail(pending_persist)
        /\ UNCHANGED store_failed
     \/ /\ StoreFails
        /\ store_failed' = TRUE
        /\ pending_persist' =
             Append(Tail(pending_persist), Head(pending_persist))
        /\ UNCHANGED store
  /\ UNCHANGED <<history, conversation_id, created, next_id, said,
                 permissionVars, interrupted, runVars, ghostVars>>

\* persist_new_messages(): one append per message; a failed append is logged
\* and the message dropped.
PersistMessage ==
  /\ pc = "persist"
  /\ conversation_id # NoConversation
  /\ pending_persist # << >>
  /\ \/ /\ store' = [store EXCEPT ![conversation_id] =
                       Appended(@, Head(pending_persist))]
        /\ UNCHANGED store_failed
     \/ StoreFails /\ store_failed' = TRUE /\ UNCHANGED store
  /\ pending_persist' = Tail(pending_persist)
  /\ UNCHANGED <<history, conversation_id, created, next_id, said,
                 permissionVars, interrupted, runVars, ghostVars>>

\* Faulty variant: saving stops before everything is saved.
PersistDoneEarly ==
  /\ pc = "persist"
  /\ pc' = IF Archives THEN "archive" ELSE "idle"
  /\ compression_applied' = (compression_applied /\ Archives)
  /\ UNCHANGED <<messageVars, permissionVars, interrupted, iteration, live,
                 ctx, outcome, runs, ghostVars>>

\* Without a conversation the messages stay pending.
PersistDone ==
  /\ pc = "persist"
  /\ conversation_id = NoConversation \/ pending_persist = << >>
  /\ pc' = IF Archives THEN "archive" ELSE "idle"
  /\ compression_applied' = (compression_applied /\ Archives)
  /\ UNCHANGED <<messageVars, permissionVars, interrupted, iteration, live,
                 ctx, outcome, runs, ghostVars>>

\* archive_and_compact(), one transaction.  compress_context installs the
\* compressed list only once it is stored.
ArchiveAndCompact ==
  /\ pc = "archive"
  /\ \/ /\ store' = [store EXCEPT ![conversation_id] =
                       Compacted(@, IF live = << >> THEN history ELSE live)]
        /\ history' = IF live = << >> THEN history ELSE live
        /\ pending_persist' = << >>
        /\ UNCHANGED store_failed
     \/ /\ StoreFails
        /\ store_failed' = TRUE
        /\ UNCHANGED <<store, history, pending_persist>>
  /\ pc' = "idle"
  /\ live' = << >>
  /\ compression_applied' = FALSE
  /\ UNCHANGED <<conversation_id, created, next_id, said, permissionVars,
                 interrupted, iteration, ctx, outcome, runs, ghostVars>>

\* compress_context(), from /compact while the agent is idle.
CompressContext ==
  /\ pc = "idle"
  /\ Compression # "off"
  /\ next_id <= MaxMessages
  /\ \E cut \in Cuts(history), role \in {"user", "assistant"} :
       LET compressed == CompressedAt(history, cut, role)
       IN IF Compression = "in_place" /\ conversation_id # NoConversation
          THEN /\ live' = compressed
               /\ pc' = "persist"
               /\ UNCHANGED <<history, pending_persist>>
          ELSE /\ history' = compressed
               /\ pending_persist' = << >>
               /\ UNCHANGED <<live, pc>>
  /\ next_id' = next_id + 1
  /\ UNCHANGED <<conversation_id, store, created, said, store_failed,
                 permissionVars, interrupted, iteration,
                 compression_applied, ctx, outcome, runs, ghostVars>>

------------------------------------------------------------------------------
(* The user, between runs: mode switches, /new, /resume; and Ctrl+C, at any
   point of a run *)

Idle == pc = "idle" /\ UNCHANGED <<interrupted, runVars, ghostVars>>

\* Faulty variant: the mode to come back to is not remembered.
SetPermissionModeOnly(m) ==
  /\ Idle
  /\ m # mode
  /\ mode' = m
  /\ plan_file' = (plan_file \/ m = "plan")
  /\ exit_approved' = FALSE
  /\ UNCHANGED <<messageVars, previous>>

\* set_permission_mode(m), and set_plan_mode(true) for Plan, which fails and
\* forgets the plan file when its directory cannot be made.
SetPermissionMode(m) ==
  /\ Idle
  /\ m # mode
  /\ \/ /\ m = "plan"
        /\ \/ mode' = m /\ plan_file' = TRUE
           \/ plan_file' = FALSE /\ UNCHANGED mode
        /\ UNCHANGED <<previous, exit_approved>>
     \/ /\ m # "plan"
        /\ exit_approved' = (exit_approved /\ mode # "plan")
        /\ mode' = m
        /\ previous' = m
        /\ UNCHANGED plan_file
  /\ UNCHANGED messageVars

\* TuiApp::start_new_session(): clear_history(), then leave plan mode.
NewSession ==
  /\ Idle
  /\ history' = << >>
  /\ pending_persist' = << >>
  /\ conversation_id' = NoConversation
  /\ said' = {}
  /\ mode' = IF mode = "plan" THEN Restored ELSE mode
  /\ exit_approved' = (exit_approved /\ mode # "plan")
  /\ UNCHANGED <<store, created, next_id, store_failed, previous, plan_file>>

\* The mode restore_conversation() takes from the last user message.
LastUserModes(msgs) ==
  {ModeFromName(msgs[i].mode) : i \in
     {i \in 1..Len(msgs) :
        /\ msgs[i].role = "user"
        /\ \A j \in i + 1..Len(msgs) : msgs[j].role # "user"}}

Resume(c) ==
  /\ Idle
  /\ conversation_id' = c
  /\ history' = Loaded(store[c])
  /\ pending_persist' = << >>
  /\ said' = StoredIds(store[c])
  /\ exit_approved' = FALSE
  /\ \/ /\ LastUserModes(Loaded(store[c])) = {}
        /\ UNCHANGED <<mode, previous, plan_file>>
     \/ \E m \in LastUserModes(Loaded(store[c])) :
          /\ mode' = m
          /\ previous' = IF m = "plan" THEN previous ELSE m
          /\ plan_file' = (m = "plan")
  /\ UNCHANGED <<store, created, next_id, store_failed>>

Interrupt ==
  /\ CanInterrupt
  /\ pc # "idle"
  /\ ~interrupted
  /\ interrupted' = TRUE
  /\ UNCHANGED <<messageVars, permissionVars, runVars, ghostVars>>

\* The process dies and is started again; only the store survives.
Crash ==
  /\ CanCrash
  /\ history' = << >> /\ pending_persist' = << >> /\ said' = {}
  /\ conversation_id' = NoConversation
  /\ mode' = "manual" /\ previous' = "manual"
  /\ exit_approved' = FALSE /\ plan_file' = FALSE
  /\ interrupted' = FALSE
  /\ pc' = "idle" /\ iteration' = 0 /\ ctx' = NoCtx /\ live' = << >>
  /\ compression_applied' = FALSE /\ outcome' = "none"
  /\ last_exec' = NoExec /\ plan_approved' = FALSE
  /\ UNCHANGED <<store, created, next_id, store_failed, runs>>

------------------------------------------------------------------------------

Init ==
  /\ history = << >> /\ pending_persist = << >> /\ said = {}
  /\ store_failed = FALSE
  /\ conversation_id = NoConversation
  /\ store = [c \in Conversations |-> EmptyTranscript]
  /\ created = 0
  /\ next_id = 1
  /\ mode = "manual" /\ previous = "manual"
  /\ exit_approved = FALSE /\ plan_file = FALSE
  /\ interrupted = FALSE
  /\ pc = "idle" /\ iteration = 0 /\ ctx = NoCtx /\ live = << >>
  /\ compression_applied = FALSE /\ outcome = "none" /\ runs = 0
  /\ last_exec = NoExec /\ plan_approved = FALSE

\* A step of the thread that is inside run() or compress_context().
Thread ==
  \/ BeginIteration \/ MaxIterationsReached \/ Interrupted \/ ChainStopped
  \/ CallProvider \/ ParseResponse
  \/ ExecuteTools \/ ToolBlocked \/ ToolRejected \/ ApprovalAborted
  \/ ToolExecuted \/ ToolsDone
  \/ LoopDetect \/ CollectResults
  \/ PlanHandoff \/ EndTurn \/ ContinueTurn
  \/ PersistMessage \/ PersistDone \/ ArchiveAndCompact

User ==
  \/ Run
  \/ CompressContext
  \/ \E m \in UiModes : SetPermissionMode(m)
  \/ NewSession
  \/ \E c \in 1..created : Resume(c)
  \/ Interrupt

Next == Thread \/ User \/ Crash

\* The thread keeps running: providers and tools return, and the user answers
\* an approval request.
Spec == Init /\ [][Next]_vars /\ WF_vars(Thread)

------------------------------------------------------------------------------
(* Properties *)

CtxType == [mode : Modes, plan_file : BOOLEAN, calls : Seq(Kinds), id : Nat,
            results : Nat, tool_use : BOOLEAN, stop : BOOLEAN,
            compressed : BOOLEAN]

\* The type invariant of the agent loop's state.
TypeOK ==
  /\ history \in Seq(Message) /\ pending_persist \in Seq(Message)
  /\ conversation_id \in Conversations \cup {NoConversation}
  /\ store \in [Conversations -> TranscriptOf(Message)]
  /\ created \in Nat /\ next_id \in Nat
  /\ said \in SUBSET Nat /\ store_failed \in BOOLEAN
  /\ mode \in Modes /\ previous \in Modes
  /\ exit_approved \in BOOLEAN /\ plan_file \in BOOLEAN
  /\ interrupted \in BOOLEAN
  /\ pc \in RunPoints \cup SavePoints \cup {"idle"}
  /\ iteration \in Nat /\ runs \in Nat
  /\ compression_applied \in BOOLEAN
  /\ live \in Seq(Message)
  /\ ctx \in CtxType
  /\ outcome \in {"none", "running", "ok", "error"}
  /\ last_exec \in [kind : AllKinds \cup {"none"}, mode : Modes,
                    asked : BOOLEAN]
  /\ plan_approved \in BOOLEAN

\* Every tool message of a list answers the call whose place it stands at,
\* counted from the assistant message that made the calls.
AnswersInPlace(msgs) ==
  \A i \in 1..Len(msgs) : msgs[i].role = "tool" =>
    LET asker == i - msgs[i].k
    IN /\ asker \in 1..i - 1
       /\ msgs[asker].role = "assistant"
       /\ msgs[asker].id = msgs[i].of
       /\ msgs[i].k <= msgs[asker].calls

\* Without compression and store errors, neither the live history nor what a
\* resumed session would load ever holds a tool result away from its call:
\* results are matched by position over a list that blocked, rejected and
\* aborted calls, the loop guard and interrupts all cut short
\* (CollectResultsStep), and a crash can stop the saving of a batch half way
\* (persist_new_messages).
ToolResultsFollowTheirCalls ==
  Compression = "off" /\ ~store_failed =>
    /\ AnswersInPlace(history)
    /\ \A c \in Conversations : AnswersInPlace(Loaded(store[c]))

IsDurable(msg) == msg.role # "system"

\* Identities are given in the order messages are made.
Ordered(msgs) == \A i, j \in 1..Len(msgs) : i < j => msgs[i].id < msgs[j].id

Members(msgs) == {msgs[i] : i \in 1..Len(msgs)}

\* What the session would be resumed from once its pending messages are saved.
SessionRows ==
  (IF conversation_id = NoConversation THEN << >>
   ELSE Loaded(store[conversation_id])) \o pending_persist

\* With nothing compressed, the rows of each conversation, and those of the
\* session followed by its unsaved messages, are in the order of what was said,
\* without a message twice, also when appends fail at any point:
\* persist_new_messages() logs a failure and goes on.  And while the store
\* works they are the live conversation (both lists are ordered, so the same
\* members make them the same list), whatever errors, interrupts and resumes
\* came before.
StoreMatchesHistory ==
  Compression = "off" =>
    /\ Ordered(history) /\ Ordered(SessionRows)
    /\ \A c \in Conversations : Ordered(Loaded(store[c]))
    /\ ~store_failed =>
         Members(SessionRows) = {msg \in Members(history) : IsDurable(msg)}

\* A run that returned ok leaves nothing unsaved in its conversation; only a
\* failed run may (the error returns of run() skip persist_or_archive).
OkTurnsAreSaved ==
  pc = "idle" /\ outcome = "ok" /\ conversation_id # NoConversation
    => pending_persist = << >>

\* Pruning never loses a message: each one said in this conversation is in a
\* row, archived or active, or still pending (append_to_history's comment,
\* AgentLoop.cpp:575-576).
NothingSaidIsLost ==
  ~store_failed =>
    said \subseteq Ids(pending_persist) \cup
      (IF conversation_id = NoConversation THEN {}
       ELSE StoredIds(store[conversation_id]))

\* While the shared mode is Plan, only read-only tools, plan_exit and writes
\* to the plan file reach a tool, although the guard looks at the mode the
\* iteration started in (ExecuteToolsStep, TurnContext::permission_mode).
PlanModeIsReadOnly ==
  last_exec.mode = "plan" =>
    last_exec.kind \in {"none", "read", "plan_exit", "plan_edit"}

\* A mutating call runs unasked in Manual mode never, in AcceptEdits only if
\* it writes a file; the exception is the plan file, written later in the
\* batch whose plan_exit has just been approved.
MutationsAreApproved ==
  last_exec.kind \in Mutating /\ ~last_exec.asked =>
    \/ last_exec.mode \in {"auto", "plan"}
    \/ last_exec.mode = "acceptEdits" /\ last_exec.kind \in FileWrite
    \/ last_exec.kind = "plan_edit"

\* Leaving plan mode goes back to where it came from: outside Plan the
\* remembered mode is the current one, it never is Plan (the fallback to
\* Manual in run(), set_plan_mode and PlanExitTool is dead code), and in Plan
\* there is a plan file.
ModesAreConsistent ==
  /\ previous # "plan"
  /\ mode # "plan" => previous = mode
  /\ mode = "plan" => plan_file

\* A run leaves plan mode only when the user approves plan_exit in that run
\* (PermissionMode.h:46-47: "AgentLoop switches mode and continues the same
\* run").
PlanLeftOnlyWithApproval ==
  [][pc # "idle" /\ pc' # "idle" /\ mode = "plan" /\ mode' # "plan"
       => plan_approved']_vars

\* Once Ctrl+C has set the flag, the run adds no answer and no tool result to
\* the conversation (run_step_chain, CallProviderStep's StreamInterrupted).
InterruptSilencesRun ==
  [][interrupted /\ pc # "idle" /\ Len(history') > Len(history)
       => history'[Len(history')].role \notin {"assistant", "tool"}]_vars

\* Every run returns: the iterations are bounded whatever the model asks for,
\* the loop guard says and the plan handoff restarts.
RunReturns == pc # "idle" ~> pc = "idle"

=============================================================================
