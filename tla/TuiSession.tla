----------------------------- MODULE TuiSession -----------------------------
(***************************************************************************)
(* The terminal UI of src/src/tui around one agent loop: the UI thread with *)
(* its event loop, the agent threads run_agent() starts, the inputs queued   *)
(* while the agent is busy, and the approval dialog.                        *)
(*                                                                         *)
(* An action is what a thread does between two points where another thread  *)
(* can come in: an atomic access, a critical section, or a blocking call.   *)
(* A run of the agent loop (module AgentLoop) is abstracted to its entry,   *)
(* its events, its approval requests and its end; closures posted to the UI *)
(* thread are modelled when they write state another step reads.            *)
(***************************************************************************)
EXTENDS Sequences, Naturals, FiniteSets

CONSTANTS
  MaxInputs,  \* bound: messages and skill commands the user enters
  MaxAsks,    \* bound: approval requests of all runs
  CanLeave    \* does the user leave the program?

ASSUME InputBound == MaxInputs \in Nat /\ MaxAsks \in Nat
ASSUME LeaveIsBoolean == CanLeave \in BOOLEAN

Inputs  == 1..MaxInputs
Threads == 1..MaxInputs   \* one thread per input at most

VARIABLES
  ui,           \* where the UI thread is
  input,        \* the input it has in hand
  submitted,    \* the inputs entered so far are 1..submitted
  busy,         \* agent_busy_
  pending,      \* pending_inputs_, under pending_mutex_
  output_done,  \* turn_output_done_
  interrupted,  \* AgentLoop::interrupted_
  tasks,        \* closures posted to the UI thread
  thread,       \* where each agent thread is
  agent,        \* agent_thread_: the last thread started
  current,      \* the input each agent thread runs
  showing,      \* TuiApprovalHandler::showing_
  decision,     \* has decision_ a value?
  asks,         \* approval requests made
  decided,      \* decisions the user made
  started,      \* the inputs run() was entered with, in order
  dropped,      \* the inputs Ctrl+C took out of the queue
  shown,        \* the inputs appended to the chat, in order
  window        \* did the session operation find a thread not yet busy?

uiVars == <<ui, input, submitted, shown, window>>
sharedVars == <<busy, pending, output_done, interrupted, dropped>>
threadVars == <<thread, agent, current, started>>
approvalVars == <<showing, decision, asks, decided>>
vars == <<uiVars, sharedVars, threadVars, approvalVars, tasks>>

Task == [kind : {"turn_start", "turn_end", "exit"}, id : {0}]
        \cup [kind : {"echo"}, id : Inputs]

UiPoints == {"loop", "queue", "direct", "clear", "interrupt", "session",
             "leave", "join", "gone"}
\* Inside loop_->run(): at its first line, past it, in a turn, in an approval.
RunPoints == {"enter", "entered", "running", "waiting"}
\* Between agent_busy_ = true and the drain that sets it to false.
BusyPoints == RunPoints \cup {"drain", "echo"}
ThreadPoints == BusyPoints \cup {"none", "starting", "finish", "done"}

Post(kind, id) == tasks' = Append(tasks, [kind |-> kind, id |-> id])

------------------------------------------------------------------------------
(* The UI thread: events.  A key reaches the input bar only while no dialog
   is shown; Ctrl+C is handled before the dialog. *)

AtPrompt == ui = "loop" /\ ~showing

\* submit_input(): a message; the busy flag is read without the mutex.
Submit ==
  /\ AtPrompt
  /\ submitted < MaxInputs
  /\ submitted' = submitted + 1
  /\ input' = submitted'
  /\ \/ busy /\ ui' = "queue" /\ UNCHANGED shown
     \/ ~busy /\ ui' = "direct" /\ shown' = Append(shown, input')
  /\ UNCHANGED <<window, sharedVars, threadVars, approvalVars, tasks>>

\* execute_command() on a skill: run_agent() whatever the busy flag is.
SkillCommand ==
  /\ AtPrompt
  /\ submitted < MaxInputs
  /\ submitted' = submitted + 1
  /\ input' = submitted'
  /\ ui' = "direct"
  /\ shown' = Append(shown, input')
  /\ UNCHANGED <<window, sharedVars, threadVars, approvalVars, tasks>>

\* Faulty variant: the flag is not read again under the mutex.
QueueUnchecked ==
  /\ ui = "queue"
  /\ pending' = Append(pending, [id |-> input, echoed |-> output_done])
  /\ shown' = IF output_done THEN Append(shown, input) ELSE shown
  /\ ui' = "loop" /\ input' = 0
  /\ UNCHANGED <<submitted, window, busy, output_done, interrupted, dropped,
                 threadVars, approvalVars, tasks>>

\* The locked part of submit_input(): queue, or find that the agent drained.
QueueInput ==
  /\ ui = "queue"
  /\ \/ /\ busy
        /\ pending' = Append(pending, [id |-> input, echoed |-> output_done])
        /\ shown' = IF output_done THEN Append(shown, input) ELSE shown
        /\ ui' = "loop" /\ input' = 0
     \/ /\ ~busy
        /\ shown' = Append(shown, input)
        /\ ui' = "direct"
        /\ UNCHANGED <<pending, input>>
  /\ UNCHANGED <<submitted, window, busy, output_done, interrupted, dropped,
                 threadVars, approvalVars, tasks>>

\* Can agent_thread_ be joined without waiting?
Joinable == agent # 0 => thread[agent] = "done"

Spawn ==
  /\ agent' = agent + 1
  /\ thread' = [thread EXCEPT ![agent'] = "starting"]
  /\ current' = [current EXCEPT ![agent'] = input]
  /\ ui' = "loop" /\ input' = 0
  /\ UNCHANGED <<submitted, shown, window, sharedVars, started, approvalVars,
                 tasks>>

\* Faulty variant: the old thread is not waited for.
RunAgentDetached == ui = "direct" /\ Spawn

\* run_agent(): join the old thread on the UI thread, start a new one.
RunAgent == ui = "direct" /\ Joinable /\ Spawn

\* Ctrl+C while busy: empty the queue, then interrupt the loop.
CtrlC ==
  /\ ui = "loop" /\ busy
  /\ ui' = "clear"
  /\ UNCHANGED <<input, submitted, shown, window, sharedVars, threadVars,
                 approvalVars, tasks>>

ClearPending ==
  /\ ui = "clear"
  /\ pending' = << >>
  /\ dropped' = dropped \cup {pending[i].id : i \in 1..Len(pending)}
  /\ ui' = "interrupt"
  /\ UNCHANGED <<input, submitted, shown, window, busy, output_done,
                 interrupted, threadVars, approvalVars, tasks>>

InterruptAgent ==
  /\ ui = "interrupt"
  /\ interrupted' = TRUE
  /\ ui' = "loop"
  /\ UNCHANGED <<input, submitted, shown, window, busy, pending, output_done,
                 dropped, threadVars, approvalVars, tasks>>

\* /quit, or Ctrl+C while idle: the screen posts the end of its own loop; a
\* second time changes nothing.
Quit ==
  /\ CanLeave
  /\ AtPrompt \/ (ui = "loop" /\ ~busy)
  /\ \A i \in 1..Len(tasks) : tasks[i].kind # "exit"
  /\ Post("exit", 0)
  /\ UNCHANGED <<uiVars, sharedVars, threadVars, approvalVars>>

\* Faulty variant: the busy flag is not looked at.
SessionOpUnchecked ==
  /\ AtPrompt
  /\ ui' = "session"
  /\ window' = \E t \in Threads : thread[t] = "starting"
  /\ UNCHANGED <<input, submitted, shown, sharedVars, threadVars,
                 approvalVars, tasks>>

\* /new, /resume, /compact and Shift+Tab are refused while busy.
SessionOp ==
  /\ AtPrompt
  /\ ~busy
  /\ ui' = "session"
  /\ window' = \E t \in Threads : thread[t] = "starting"
  /\ UNCHANGED <<input, submitted, shown, sharedVars, threadVars,
                 approvalVars, tasks>>

SessionOpEnds ==
  /\ ui = "session"
  /\ ui' = "loop"
  /\ window' = FALSE
  /\ UNCHANGED <<input, submitted, shown, sharedVars, threadVars,
                 approvalVars, tasks>>

\* A key or a button of the dialog: set_decision().
Decide ==
  /\ ui = "loop" /\ showing
  /\ decision' = TRUE
  /\ showing' = FALSE
  /\ decided' = decided + 1
  /\ UNCHANGED <<uiVars, sharedVars, threadVars, asks, tasks>>

\* The event loop runs a posted closure.
RunTask ==
  /\ ui = "loop" /\ tasks # << >>
  /\ tasks' = Tail(tasks)
  /\ LET task == Head(tasks)
     IN /\ output_done' = CASE task.kind = "turn_start" -> FALSE
                            [] task.kind = "turn_end" -> TRUE
                            [] OTHER -> output_done
        /\ shown' = IF task.kind = "echo" THEN Append(shown, task.id)
                    ELSE shown
        /\ ui' = IF task.kind = "exit" THEN "leave" ELSE ui
  /\ UNCHANGED <<input, submitted, window, busy, pending, interrupted,
                 dropped, threadVars, approvalVars>>

\* The end of TuiApp::run(): interrupt the agent and join it.
Leave ==
  /\ ui = "leave"
  /\ ui' = IF agent = 0 THEN "gone" ELSE "join"
  /\ interrupted' = (interrupted \/ agent # 0)
  /\ UNCHANGED <<input, submitted, shown, window, busy, pending, output_done,
                 dropped, threadVars, approvalVars, tasks>>

Left ==
  /\ ui = "join" /\ Joinable
  /\ ui' = "gone"
  /\ UNCHANGED <<input, submitted, shown, window, sharedVars, threadVars,
                 approvalVars, tasks>>

------------------------------------------------------------------------------
(* An agent thread: the lambda of run_agent() *)

Goes(t, from, to) ==
  /\ thread[t] = from
  /\ thread' = [thread EXCEPT ![t] = to]

SetBusy(t) ==
  /\ Goes(t, "starting", "enter")
  /\ busy' = TRUE
  /\ UNCHANGED <<uiVars, pending, output_done, interrupted, dropped, agent,
                 current, started, approvalVars, tasks>>

\* AgentLoop::run() begins: it clears the interrupt flag.
EnterRun(t) ==
  /\ Goes(t, "enter", "entered")
  /\ interrupted' = FALSE
  /\ started' = Append(started, current[t])
  /\ UNCHANGED <<uiVars, busy, pending, output_done, dropped, agent, current,
                 approvalVars, tasks>>

\* TurnStart, or Interrupt and the end of the run.
TurnStart(t) ==
  /\ \/ Goes(t, "entered", "running") /\ Post("turn_start", 0)
     \/ interrupted /\ Goes(t, "entered", "drain") /\ Post("turn_end", 0)
  /\ UNCHANGED <<uiVars, sharedVars, agent, current, started, approvalVars>>

\* Faulty variant: the last decision is still there.
AskWithoutReset(t) ==
  /\ asks < MaxAsks
  /\ Goes(t, "running", "waiting")
  /\ asks' = asks + 1
  /\ showing' = TRUE
  /\ UNCHANGED <<uiVars, sharedVars, agent, current, started, decision,
                 decided, tasks>>

\* request_approval(): it waits for a decision, and for nothing else.
Ask(t) ==
  /\ asks < MaxAsks
  /\ Goes(t, "running", "waiting")
  /\ asks' = asks + 1
  /\ showing' = TRUE
  /\ decision' = FALSE
  /\ UNCHANGED <<uiVars, sharedVars, agent, current, started, decided, tasks>>

Answered(t) ==
  /\ Goes(t, "waiting", "running")
  /\ decision
  /\ showing' = FALSE
  /\ UNCHANGED <<uiVars, sharedVars, agent, current, started, decision, asks,
                 decided, tasks>>

\* run() returns: TurnEnd or Error was posted, or neither at the last
\* iteration.
RunEnds(t) ==
  /\ Goes(t, "running", "drain")
  /\ Post("turn_end", 0) \/ UNCHANGED tasks
  /\ UNCHANGED <<uiVars, sharedVars, agent, current, started, approvalVars>>

\* Faulty variant: every queued input is shown again.
DrainEchoingAll(t) ==
  /\ pending # << >>
  /\ Goes(t, "drain", "echo")
  /\ current' = [current EXCEPT ![t] = Head(pending).id]
  /\ pending' = Tail(pending)
  /\ UNCHANGED <<uiVars, busy, output_done, interrupted, dropped, agent,
                 started, approvalVars, tasks>>

\* Faulty variant: the newest input is taken first.
DrainNewest(t) ==
  /\ pending # << >>
  /\ Goes(t, "drain", IF pending[Len(pending)].echoed THEN "enter" ELSE "echo")
  /\ current' = [current EXCEPT ![t] = pending[Len(pending)].id]
  /\ pending' = SubSeq(pending, 1, Len(pending) - 1)
  /\ UNCHANGED <<uiVars, busy, output_done, interrupted, dropped, agent,
                 started, approvalVars, tasks>>

\* The locked part of the loop: take the next input...
DrainNext(t) ==
  /\ pending # << >>
  /\ Goes(t, "drain", IF Head(pending).echoed THEN "enter" ELSE "echo")
  /\ current' = [current EXCEPT ![t] = Head(pending).id]
  /\ pending' = Tail(pending)
  /\ UNCHANGED <<uiVars, busy, output_done, interrupted, dropped, agent,
                 started, approvalVars, tasks>>

\* Faulty variant: the thread ends without clearing the flag.
DrainLeavingBusy(t) ==
  /\ pending = << >>
  /\ Goes(t, "drain", "done")
  /\ UNCHANGED <<uiVars, sharedVars, agent, current, started, approvalVars,
                 tasks>>

\* ... or clear the busy flag inside the mutex.
DrainEmpty(t) ==
  /\ pending = << >>
  /\ Goes(t, "drain", "finish")
  /\ busy' = FALSE
  /\ output_done' = TRUE
  /\ UNCHANGED <<uiVars, pending, interrupted, dropped, agent, current,
                 started, approvalVars, tasks>>

\* A queued input that was not shown when it was queued is shown now.
EchoInput(t) ==
  /\ Goes(t, "echo", "enter")
  /\ Post("echo", current[t])
  /\ UNCHANGED <<uiVars, sharedVars, agent, current, started, approvalVars>>

\* After the loop both flags are written once more, outside the mutex.
Finish(t) ==
  /\ Goes(t, "finish", "done")
  /\ busy' = FALSE
  /\ output_done' = TRUE
  /\ UNCHANGED <<uiVars, pending, interrupted, dropped, agent, current,
                 started, approvalVars, tasks>>

------------------------------------------------------------------------------

Init ==
  /\ ui = "loop" /\ input = 0 /\ submitted = 0 /\ shown = << >>
  /\ window = FALSE
  /\ busy = FALSE /\ pending = << >> /\ output_done = TRUE
  /\ interrupted = FALSE /\ dropped = {}
  /\ thread = [t \in Threads |-> "none"] /\ agent = 0
  /\ current = [t \in Threads |-> 0] /\ started = << >>
  /\ showing = FALSE /\ decision = FALSE /\ asks = 0 /\ decided = 0
  /\ tasks = << >>

\* What the user may or may not do.
User == Submit \/ SkillCommand \/ CtrlC \/ Quit \/ SessionOp

\* What the UI thread does by itself once it has begun something.
Ui ==
  \/ QueueInput \/ RunAgent \/ ClearPending \/ InterruptAgent
  \/ SessionOpEnds \/ RunTask \/ Leave \/ Left

Agent(t) ==
  \/ SetBusy(t) \/ EnterRun(t) \/ TurnStart(t) \/ Ask(t) \/ Answered(t)
  \/ RunEnds(t) \/ DrainNext(t) \/ DrainEmpty(t) \/ EchoInput(t) \/ Finish(t)

Next == User \/ Ui \/ Decide \/ \E t \in Threads : Agent(t)

\* Every thread is scheduled, runs return, and a dialog is answered.
Fairness == WF_vars(Ui) /\ WF_vars(Decide)
            /\ \A t \in Threads : WF_vars(Agent(t))

Spec == Init /\ [][Next]_vars /\ Fairness

------------------------------------------------------------------------------
(* Properties *)

UiType ==
  /\ ui \in UiPoints /\ input \in 0..MaxInputs /\ submitted \in 0..MaxInputs
  /\ shown \in Seq(Inputs) /\ window \in BOOLEAN

SharedType ==
  /\ busy \in BOOLEAN /\ output_done \in BOOLEAN /\ interrupted \in BOOLEAN
  /\ pending \in Seq([id : Inputs, echoed : BOOLEAN])
  /\ dropped \subseteq Inputs

ThreadType ==
  /\ thread \in [Threads -> ThreadPoints] /\ agent \in 0..MaxInputs
  /\ current \in [Threads -> 0..MaxInputs] /\ started \in Seq(Inputs)

DialogType ==
  /\ showing \in BOOLEAN /\ decision \in BOOLEAN
  /\ asks \in 0..MaxAsks /\ decided \in 0..MaxAsks

\* The type invariant of the session's state.
TypeOK ==
  UiType /\ SharedType /\ ThreadType /\ DialogType /\ tasks \in Seq(Task)

Live(t) == thread[t] \notin {"none", "done"}

\* At most one agent thread is alive, and it is inside run() only while the
\* busy flag is set: the flag's second, unprotected clearing (TuiApp.cpp:366)
\* never hits a run that has begun since.
RunsAreExclusive ==
  /\ \A t, u \in Threads : Live(t) /\ Live(u) => t = u
  /\ \A t \in Threads : thread[t] \in BusyPoints => busy

\* An input is queued only while a thread is still going to look at the queue:
\* the recheck under the mutex and the clearing of the flag inside it leave no
\* gap (comments at TuiApp.cpp:279-280 and 349-350).
QueuedInputIsDrained ==
  pending # << >> => \E t \in Threads : thread[t] \in BusyPoints

\* The inputs on their way to run(), in the order in which it gets them: run,
\* taken by a thread, queued, and in the hands of the UI thread.
Taken ==
  IF agent # 0 /\ thread[agent] \in {"starting", "echo", "enter"}
  THEN <<current[agent]>> ELSE << >>

Queued == [i \in 1..Len(pending) |-> pending[i].id]

InHand == IF input = 0 THEN << >> ELSE <<input>>

Line == started \o Taken \o Queued \o InHand

\* The inputs that were taken in and not dropped by Ctrl+C are run once each,
\* in the order in which they were entered, whichever way they went.
InputsRunInOrder ==
  /\ \A i, j \in 1..Len(Line) : i < j => Line[i] < Line[j]
  /\ {Line[i] : i \in 1..Len(Line)} \cup dropped = 1..submitted

\* The posted closures that will show an input.
Echoes == {i \in 1..Len(tasks) : tasks[i].kind = "echo"}

Visible == {shown[i] : i \in 1..Len(shown)} \cup {tasks[i].id : i \in Echoes}

\* Each input is shown in the chat at most once, and one that runs is shown or
\* its closure is on the way (PendingInput::echoed).
InputsAreShownOnce ==
  /\ \A i, j \in 1..Len(shown) : shown[i] = shown[j] => i = j
  /\ \A i, j \in Echoes : tasks[i].id = tasks[j].id => i = j
  /\ \A i \in 1..Len(shown), j \in Echoes : shown[i] # tasks[j].id
  /\ \A n \in 1..Len(started) : started[n] \in Visible

\* Every approval request takes a decision of its own: requests that have
\* returned and decisions made are never apart by more than the one on its way.
OneDecisionPerRequest ==
  LET returned == asks - Cardinality({t \in Threads : thread[t] = "waiting"})
  IN returned <= decided /\ decided <= asks

\* A session operation runs beside run() only if it began in the window
\* between the start of a thread and its first statement (TuiApp.cpp:312-313).
SessionOpsExcludeRuns ==
  ui = "session" /\ (\E t \in Threads : thread[t] \in RunPoints) => window

\* The UI thread is in a join, and the thread it waits for is in an approval
\* that only the UI thread can give.
WaitsForItself ==
  /\ ui \in {"direct", "join"}
  /\ agent # 0 /\ thread[agent] = "waiting" /\ ~decision

\* Every input is run or dropped, unless the user leaves or the UI thread ends
\* up waiting for itself.
InputsAreServed ==
  \A i \in Inputs :
    submitted >= i ~>
      \/ i \in dropped
      \/ \E n \in 1..Len(started) : started[n] = i
      \/ ui \in {"leave", "join", "gone"}
      \/ WaitsForItself

\* Leaving the program ends it (the design's mitigation for the blocked agent
\* thread: a wait with a timeout "prevents deadlock").
LeavingEnds == ui = "leave" ~> ui = "gone"

=============================================================================
