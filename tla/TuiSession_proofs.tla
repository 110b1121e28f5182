-------------------------- MODULE TuiSession_proofs --------------------------
(***************************************************************************)
(* Proofs about TuiSession, for any number of inputs and approvals: its     *)
(* types, that agent threads and their runs exclude each other, that what   *)
(* is queued will be looked at, and that inputs run in order and are shown  *)
(* once, by whatever way they take.                                         *)
(***************************************************************************)
EXTENDS TuiSession, FiniteSetTheorems, SequenceTheorems, TLAPS

\* The threads before the last one have ended, those after it do not exist.
ThreadsInOrder ==
  \A t \in Threads : /\ t < agent => thread[t] = "done"
                     /\ t > agent => thread[t] = "none"

\* Each thread has an input, and one input is left for the next thread while
\* the UI thread is about to start it.
InputsCounted ==
  /\ agent <= submitted
  /\ ui \in {"queue", "direct"} => input \in Inputs /\ agent < submitted
  /\ \A t \in Threads : t <= agent => current[t] \in Inputs

\* A shown dialog belongs to a request that has no decision yet.
DecisionsCounted ==
  /\ decided <= asks
  /\ showing => decided < asks

Counts == InputsCounted /\ DecisionsCounted

TypeInv == TypeOK /\ ThreadsInOrder /\ Counts

LastThread(S) == agent # 0 /\ thread[agent] \in S

\* The busy flag is set exactly while the last thread is between its first
\* statement and the drain that finds the queue empty; nothing is queued else.
BusyInv ==
  /\ busy <=> LastThread(BusyPoints)
  /\ pending # << >> => busy

\* Every request but an undecided one has had its decision, and the dialog is
\* shown for an undecided one only.
Undecided == LastThread({"waiting"}) /\ decision = FALSE

DialogInv ==
  /\ showing => Undecided
  /\ Undecided => decided + 1 = asks
  /\ ~Undecided => decided = asks

------------------------------------------------------------------------------
(* Types *)

LEMMA InitTypeInv == Init => TypeInv
<1> SUFFICES ASSUME Init PROVE TypeInv
  OBVIOUS
<1>1. << >> \in Seq(Inputs) /\ << >> \in Seq(Task)
      /\ << >> \in Seq([id : Inputs, echoed : BOOLEAN])
  OBVIOUS
<1>2. 0 \in 0..MaxInputs /\ 0 \in 0..MaxAsks
  BY InputBound
<1>3. UiType /\ SharedType
  <2>1. ui \in UiPoints /\ window \in BOOLEAN /\ busy \in BOOLEAN
        /\ output_done \in BOOLEAN /\ interrupted \in BOOLEAN
        /\ dropped \subseteq Inputs
    BY DEF Init, UiPoints
  <2>2. input = 0 /\ submitted = 0 /\ shown = << >> /\ pending = << >>
    BY DEF Init
  <2> QED
    BY <1>1, <1>2, <2>1, <2>2 DEF UiType, SharedType
<1>4. ThreadType /\ DialogType
  <2>1. "none" \in ThreadPoints /\ showing \in BOOLEAN
        /\ decision \in BOOLEAN
    BY DEF Init, ThreadPoints
  <2>2. /\ thread = [t \in Threads |-> "none"] /\ agent = 0
        /\ current = [t \in Threads |-> 0] /\ started = << >>
        /\ asks = 0 /\ decided = 0
    BY DEF Init
  <2> QED
    BY <1>1, <1>2, <2>1, <2>2 DEF ThreadType, DialogType
<1>5. agent = 0 /\ submitted = 0 /\ ui = "loop" /\ asks = 0 /\ decided = 0
      /\ showing = FALSE /\ tasks = << >>
      /\ thread = [t \in Threads |-> "none"]
  BY DEF Init
<1>6. ThreadsInOrder
  BY <1>5, InputBound DEF ThreadsInOrder, Threads
<1>7. InputsCounted
  BY <1>5, InputBound DEF InputsCounted, Threads
<1>8. DecisionsCounted
  BY <1>5 DEF DecisionsCounted
<1> QED
  BY <1>1, <1>3, <1>4, <1>5, <1>6, <1>7, <1>8 DEF TypeInv, TypeOK, Counts

\* A step that leaves a group of variables alone keeps what is said of it.
LEMMA Frames ==
  ASSUME TypeInv
  PROVE  /\ UNCHANGED uiVars => UiType'
         /\ UNCHANGED sharedVars => SharedType'
         /\ UNCHANGED threadVars => ThreadType' /\ ThreadsInOrder'
         /\ UNCHANGED approvalVars => DialogType' /\ DecisionsCounted'
         /\ UNCHANGED tasks => tasks' \in Seq(Task)
         /\ UNCHANGED threadVars /\ UNCHANGED submitted
              /\ (ui' \in {"queue", "direct"} => UNCHANGED <<ui, input>>)
              => InputsCounted'
<1> USE DEF TypeInv, TypeOK, Counts
<1>1. UNCHANGED uiVars => UiType'
  BY DEF uiVars, UiType
<1>2. UNCHANGED sharedVars => SharedType'
  BY DEF sharedVars, SharedType
<1>3. UNCHANGED threadVars => ThreadType' /\ ThreadsInOrder'
  BY DEF threadVars, ThreadType, ThreadsInOrder
<1>4. UNCHANGED approvalVars => DialogType' /\ DecisionsCounted'
  BY DEF approvalVars, DialogType, DecisionsCounted
<1>5. UNCHANGED threadVars /\ UNCHANGED submitted
        /\ (ui' \in {"queue", "direct"} => UNCHANGED <<ui, input>>)
        => InputsCounted'
  BY DEF threadVars, InputsCounted
<1> QED
  BY <1>1, <1>2, <1>3, <1>4, <1>5

\* What is posted is a task, and the queue of tasks stays one.
LEMMA PostType ==
  ASSUME TypeInv, NEW kind, NEW id, Post(kind, id),
         \/ kind \in {"turn_start", "turn_end", "exit"} /\ id = 0
         \/ kind = "echo" /\ id \in Inputs
  PROVE  tasks' \in Seq(Task)
<1>1. [kind |-> kind, id |-> id] \in Task
  BY DEF Task
<1> QED
  BY <1>1 DEF Post, TypeInv, TypeOK

\* An input enters: the UI thread has it in hand.
LEMMA EnterInputTypeInv ==
  TypeInv /\ (Submit \/ SkillCommand) => TypeInv'
<1> SUFFICES ASSUME TypeInv, Submit \/ SkillCommand PROVE TypeInv'
  OBVIOUS
<1>1. /\ submitted' = submitted + 1 /\ submitted < MaxInputs
      /\ input' = submitted' /\ ui' \in {"queue", "direct"}
      /\ shown' = shown \/ shown' = Append(shown, input')
      /\ UNCHANGED <<window, sharedVars, threadVars, approvalVars, tasks>>
  BY DEF Submit, SkillCommand
<1>2. /\ submitted \in 0..MaxInputs /\ agent <= submitted
      /\ agent \in 0..MaxInputs /\ shown \in Seq(Inputs) /\ window \in BOOLEAN
  BY DEF TypeInv, TypeOK, UiType, ThreadType, Counts, InputsCounted
<1>3. submitted' \in Inputs /\ agent < submitted' /\ agent <= submitted'
  BY <1>1, <1>2, InputBound DEF Inputs
<1>4. shown' \in Seq(Inputs)
  BY <1>1, <1>2, <1>3
<1>5. UiType'
  BY <1>1, <1>2, <1>3, <1>4 DEF UiType, UiPoints, Inputs
<1>6. UNCHANGED <<agent, current>>
  BY <1>1 DEF threadVars
<1>7. InputsCounted'
  BY <1>1, <1>3, <1>6 DEF InputsCounted, TypeInv, Counts
<1> QED
  BY <1>1, <1>5, <1>7, Frames DEF TypeInv, TypeOK, Counts

\* Steps that move the UI thread without starting an agent thread.
LEMMA UiMovesTypeInv ==
  ASSUME TypeInv,
         CtrlC \/ SessionOp \/ SessionOpEnds \/ ClearPending \/ InterruptAgent
           \/ Leave \/ Left
  PROVE  TypeInv'
<1>1. /\ ui' \in {"clear", "session", "loop", "interrupt", "gone", "join"}
      /\ UNCHANGED <<input, submitted, shown, threadVars, approvalVars, tasks>>
  BY DEF CtrlC, SessionOp, SessionOpEnds, ClearPending, InterruptAgent, Leave,
         Left
<1>2. window' \in BOOLEAN
  BY DEF CtrlC, SessionOp, SessionOpEnds, ClearPending, InterruptAgent, Leave,
         Left, TypeInv, TypeOK, UiType
<1>3. UiType'
  BY <1>1, <1>2 DEF UiType, TypeInv, TypeOK, UiPoints
<1>4. SharedType'
  <2>1. CASE ClearPending
    <3>1. << >> \in Seq([id : Inputs, echoed : BOOLEAN])
      OBVIOUS
    <3>2. dropped \subseteq Inputs
          /\ pending \in Seq([id : Inputs, echoed : BOOLEAN])
      BY DEF TypeInv, TypeOK, SharedType
    <3>3. \A i \in 1..Len(pending) : pending[i].id \in Inputs
      <4>1. ASSUME NEW i \in 1..Len(pending)
            PROVE  pending[i] \in [id : Inputs, echoed : BOOLEAN]
        BY <3>2, ElementOfSeq
      <4> QED
        BY <4>1
    <3>4. /\ dropped' = dropped \cup {pending[i].id : i \in 1..Len(pending)}
          /\ pending' = << >> /\ UNCHANGED <<busy, output_done, interrupted>>
      BY <2>1 DEF ClearPending
    <3>5. dropped' \subseteq Inputs
      BY <3>2, <3>3, <3>4
    <3> QED
      BY <3>1, <3>4, <3>5 DEF SharedType, TypeInv, TypeOK
  <2>2. CASE ~ClearPending
    <3>1. /\ UNCHANGED <<busy, pending, output_done, dropped>>
          /\ interrupted' \in BOOLEAN
      BY <2>2 DEF CtrlC, SessionOp, SessionOpEnds, InterruptAgent, Leave,
                  Left, sharedVars, TypeInv, TypeOK, SharedType
    <3> QED
      BY <3>1 DEF SharedType, TypeInv, TypeOK
  <2> QED
    BY <2>1, <2>2
<1> QED
  BY <1>1, <1>3, <1>4, Frames DEF TypeInv, TypeOK, Counts

\* An input is queued, or found to be runnable at once.
LEMMA QueueInputTypeInv == TypeInv /\ QueueInput => TypeInv'
<1> SUFFICES ASSUME TypeInv, QueueInput PROVE TypeInv'
  OBVIOUS
<1>1. input \in Inputs /\ agent < submitted
  BY DEF QueueInput, TypeInv, Counts, InputsCounted
<1>2. /\ pending \in Seq([id : Inputs, echoed : BOOLEAN])
      /\ shown \in Seq(Inputs) /\ 0 \in 0..MaxInputs
      /\ output_done \in BOOLEAN /\ input \in 0..MaxInputs
  BY InputBound DEF TypeInv, TypeOK, UiType, SharedType
<1>3. [id |-> input, echoed |-> output_done] \in [id : Inputs, echoed : BOOLEAN]
  BY <1>1, <1>2
<1>4. Append(pending, [id |-> input, echoed |-> output_done])
        \in Seq([id : Inputs, echoed : BOOLEAN])
  BY <1>2, <1>3, AppendProperties
<1>5. Append(shown, input) \in Seq(Inputs)
  BY <1>1, <1>2, AppendProperties
<1>6. /\ pending' \in Seq([id : Inputs, echoed : BOOLEAN])
      /\ shown' \in Seq(Inputs)
      /\ (ui' = "loop" /\ input' = 0) \/ (ui' = "direct" /\ input' = input)
      /\ UNCHANGED <<submitted, window, busy, output_done, interrupted,
                     dropped, threadVars, approvalVars, tasks>>
  BY <1>2, <1>4, <1>5 DEF QueueInput
<1>7. UiType' /\ SharedType'
  BY <1>2, <1>6 DEF TypeInv, TypeOK, UiType, SharedType, UiPoints
<1>8. InputsCounted'
  BY <1>1, <1>6 DEF InputsCounted, TypeInv, Counts, threadVars
<1> QED
  BY <1>6, <1>7, <1>8, Frames DEF TypeInv, TypeOK, Counts

\* A thread is started for the input in hand, once the old one has ended.
LEMMA RunAgentTypeInv == TypeInv /\ RunAgent => TypeInv'
<1> SUFFICES ASSUME TypeInv, RunAgent PROVE TypeInv'
  OBVIOUS
<1>1. /\ agent' = agent + 1 /\ ui' = "loop" /\ input' = 0
      /\ thread' = [thread EXCEPT ![agent'] = "starting"]
      /\ current' = [current EXCEPT ![agent'] = input]
      /\ UNCHANGED <<submitted, shown, window, sharedVars, started,
                     approvalVars, tasks>>
      /\ ui = "direct" /\ (agent # 0 => thread[agent] = "done")
  BY DEF RunAgent, Spawn, Joinable
<1>2. /\ thread \in [Threads -> ThreadPoints] /\ agent \in 0..MaxInputs
      /\ current \in [Threads -> 0..MaxInputs] /\ started \in Seq(Inputs)
      /\ submitted \in 0..MaxInputs /\ input \in Inputs /\ agent < submitted
      /\ \A t \in Threads : t <= agent => current[t] \in Inputs
  BY <1>1
     DEF TypeInv, TypeOK, UiType, ThreadType, Counts, InputsCounted
<1>3. agent' \in Threads /\ agent' <= submitted /\ agent' \in 0..MaxInputs
  BY <1>1, <1>2, InputBound DEF Threads
<1>4. ThreadType'
  <2>1. "starting" \in ThreadPoints /\ input \in 0..MaxInputs
    BY <1>2, InputBound DEF ThreadPoints, Inputs
  <2> QED
    BY <1>1, <1>2, <1>3, <2>1 DEF ThreadType
<1>5. UiType'
  BY <1>1, InputBound DEF UiType, TypeInv, TypeOK, UiPoints
<1>6. ThreadsInOrder'
  <2> SUFFICES ASSUME NEW t \in Threads
               PROVE  /\ t < agent' => thread'[t] = "done"
                      /\ t > agent' => thread'[t] = "none"
    BY DEF ThreadsInOrder
  <2>1. t # agent' => thread'[t] = thread[t]
    BY <1>1, <1>2
  <2>2. /\ t < agent => thread[t] = "done"
        /\ t > agent => thread[t] = "none"
    BY DEF TypeInv, ThreadsInOrder
  <2>3. t < agent' => t # agent' /\ (t < agent \/ t = agent)
    BY <1>1, <1>2 DEF Threads
  <2>4. t > agent' => t # agent' /\ t > agent
    BY <1>1, <1>2 DEF Threads
  <2>5. t = agent => thread[t] = "done"
    BY <1>1, <1>2 DEF Threads
  <2> QED
    BY <2>1, <2>2, <2>3, <2>4, <2>5
<1>7. InputsCounted'
  <2>1. \A t \in Threads : t <= agent' => current'[t] \in Inputs
    BY <1>1, <1>2, <1>3 DEF Threads
  <2> QED
    BY <1>1, <1>3, <2>1 DEF InputsCounted
<1> QED
  BY <1>1, <1>4, <1>5, <1>6, <1>7, Frames DEF TypeInv, TypeOK, Counts

\* A posted closure runs.
LEMMA RunTaskTypeInv == TypeInv /\ RunTask => TypeInv'
<1> SUFFICES ASSUME TypeInv, RunTask PROVE TypeInv'
  OBVIOUS
<1>1. tasks \in Seq(Task) /\ tasks # << >> /\ shown \in Seq(Inputs)
      /\ output_done \in BOOLEAN
  BY DEF RunTask, TypeInv, TypeOK, UiType, SharedType
<1>2. Head(tasks) \in Task /\ Tail(tasks) \in Seq(Task)
  BY <1>1, HeadTailProperties
<1>3. Head(tasks).kind = "echo" => Head(tasks).id \in Inputs
  BY <1>2 DEF Task
<1>4. /\ tasks' = Tail(tasks) /\ ui' \in {"loop", "leave"}
      /\ shown' = IF Head(tasks).kind = "echo"
                  THEN Append(shown, Head(tasks).id) ELSE shown
      /\ UNCHANGED <<input, submitted, window, busy, pending, interrupted,
                     dropped, threadVars, approvalVars>>
  BY DEF RunTask
<1>5. output_done' \in BOOLEAN
  BY <1>1 DEF RunTask
<1>6. shown' \in Seq(Inputs)
  BY <1>1, <1>3, <1>4, AppendProperties
<1>7. UiType' /\ SharedType'
  BY <1>4, <1>5, <1>6 DEF TypeInv, TypeOK, UiType, SharedType, UiPoints
<1>8. InputsCounted'
  BY <1>4 DEF InputsCounted, TypeInv, Counts, threadVars
<1> QED
  BY <1>2, <1>4, <1>7, <1>8, Frames DEF TypeInv, TypeOK, Counts

\* The end of the screen is posted; a decision is made.
LEMMA QuitDecideTypeInv == TypeInv /\ (Quit \/ Decide) => TypeInv'
<1> SUFFICES ASSUME TypeInv, Quit \/ Decide PROVE TypeInv'
  OBVIOUS
<1>1. CASE Quit
  <2>1. tasks' \in Seq(Task) /\ UNCHANGED <<uiVars, sharedVars, threadVars,
                                             approvalVars>>
    BY <1>1, PostType DEF Quit
  <2>2. UNCHANGED <<ui, input, submitted>>
    BY <2>1 DEF uiVars
  <2> QED
    BY <2>1, <2>2, Frames DEF TypeInv, TypeOK, Counts
<1>2. CASE Decide
  <2>1. /\ decision' = TRUE /\ showing' = FALSE /\ decided' = decided + 1
        /\ UNCHANGED <<uiVars, sharedVars, threadVars, asks, tasks>>
    BY <1>2 DEF Decide
  <2>2. decided < asks /\ asks \in 0..MaxAsks /\ decided \in 0..MaxAsks
    BY <1>2 DEF Decide, TypeInv, TypeOK, DialogType, Counts, DecisionsCounted
  <2>3. decided' \in 0..MaxAsks /\ decided' <= asks'
    BY <2>1, <2>2, InputBound
  <2>4. DialogType' /\ DecisionsCounted'
    BY <2>1, <2>2, <2>3 DEF DialogType, DecisionsCounted
  <2>5. UNCHANGED <<ui, input, submitted>>
    BY <2>1 DEF uiVars
  <2> QED
    BY <2>1, <2>4, <2>5, Frames DEF TypeInv, TypeOK, Counts
<1> QED
  BY <1>1, <1>2

------------------------------------------------------------------------------
(* The agent threads *)

\* A step of a thread is a step of the last one, and leaves the others alone.
LEMMA OnlyLastThreadMoves ==
  ASSUME TypeInv, NEW t \in Threads, NEW from, NEW to \in ThreadPoints,
         from \notin {"none", "done"}, to # "none",
         Goes(t, from, to), UNCHANGED agent
  PROVE  /\ t = agent /\ agent # 0 /\ thread[agent] = from
         /\ thread' = [thread EXCEPT ![agent] = to] /\ thread'[agent] = to
         /\ thread' \in [Threads -> ThreadPoints] /\ ThreadsInOrder'
<1>1. thread \in [Threads -> ThreadPoints] /\ agent \in 0..MaxInputs
  BY DEF TypeInv, TypeOK, ThreadType
<1>2. thread[t] = from /\ thread' = [thread EXCEPT ![t] = to]
  BY DEF Goes
<1>3. t = agent
  BY <1>1, <1>2, InputBound DEF TypeInv, ThreadsInOrder, Threads
<1>4. ThreadsInOrder'
  BY <1>1, <1>2, <1>3 DEF TypeInv, ThreadsInOrder, Threads
<1> QED
  BY <1>1, <1>2, <1>3, <1>4, InputBound DEF Threads

\* Steps that touch neither the dialog nor the thread's input.
LEMMA FlagStepsTypeInv ==
  ASSUME TypeInv, NEW t \in Threads,
         \/ SetBusy(t) \/ TurnStart(t) \/ RunEnds(t) \/ DrainEmpty(t)
         \/ EchoInput(t) \/ Finish(t)
  PROVE  TypeInv'
<1>1. PICK from \in {"starting", "entered", "running", "drain", "echo", "finish"},
           to \in {"enter", "running", "drain", "finish", "done"} :
        Goes(t, from, to)
  BY DEF SetBusy, TurnStart, RunEnds, DrainEmpty, EchoInput, Finish
<1>2. UNCHANGED <<uiVars, agent, current, started, approvalVars>>
  BY DEF SetBusy, TurnStart, RunEnds, DrainEmpty, EchoInput, Finish,
         approvalVars
<1>3. thread' \in [Threads -> ThreadPoints] /\ ThreadsInOrder' /\ t = agent
  BY <1>1, <1>2, OnlyLastThreadMoves DEF ThreadPoints, BusyPoints, RunPoints
<1>4. ThreadType'
  BY <1>2, <1>3 DEF ThreadType, TypeInv, TypeOK
<1>5. current[t] \in Inputs
  BY <1>3 DEF TypeInv, TypeOK, ThreadType, Counts, InputsCounted, Threads
<1>6. tasks' \in Seq(Task)
  <2>1. CASE TurnStart(t)
    BY <2>1, PostType DEF TurnStart
  <2>2. CASE RunEnds(t)
    BY <2>2, PostType DEF RunEnds, TypeInv, TypeOK
  <2>3. CASE EchoInput(t)
    BY <1>5, <2>3, PostType DEF EchoInput
  <2>4. CASE SetBusy(t) \/ DrainEmpty(t) \/ Finish(t)
    BY <2>4 DEF SetBusy, DrainEmpty, Finish, TypeInv, TypeOK
  <2> QED
    BY <2>1, <2>2, <2>3, <2>4
<1>7. SharedType'
  <2>1. /\ busy' \in BOOLEAN /\ output_done' \in BOOLEAN
        /\ UNCHANGED <<interrupted, pending, dropped>>
    BY DEF SetBusy, TurnStart, RunEnds, DrainEmpty, EchoInput, Finish,
           sharedVars, TypeInv, TypeOK, SharedType
  <2> QED
    BY <2>1 DEF SharedType, TypeInv, TypeOK
<1>8. InputsCounted'
  BY <1>2 DEF InputsCounted, uiVars, TypeInv, Counts
<1> QED
  BY <1>2, <1>3, <1>4, <1>6, <1>7, <1>8, Frames DEF TypeInv, TypeOK, Counts

\* run() is entered; a request is made and answered; an input is taken.
LEMMA EnterRunTypeInv ==
  ASSUME TypeInv, NEW t \in Threads, EnterRun(t)
  PROVE  TypeInv'
<1>1. /\ Goes(t, "enter", "entered") /\ interrupted' = FALSE
      /\ started' = Append(started, current[t])
      /\ UNCHANGED <<uiVars, busy, pending, output_done, dropped, agent,
                     current, approvalVars, tasks>>
  BY DEF EnterRun
<1>2. thread' \in [Threads -> ThreadPoints] /\ ThreadsInOrder' /\ t = agent
  BY <1>1, OnlyLastThreadMoves DEF ThreadPoints, BusyPoints, RunPoints
<1>3. current[t] \in Inputs /\ started \in Seq(Inputs)
  BY <1>2 DEF TypeInv, TypeOK, ThreadType, Counts, InputsCounted, Threads
<1>4. started' \in Seq(Inputs)
  BY <1>1, <1>3, AppendProperties
<1>5. ThreadType' /\ SharedType'
  BY <1>1, <1>2, <1>4 DEF ThreadType, SharedType, TypeInv, TypeOK
<1>6. InputsCounted'
  BY <1>1 DEF InputsCounted, uiVars, TypeInv, Counts
<1> QED
  BY <1>1, <1>2, <1>5, <1>6, Frames DEF TypeInv, TypeOK, Counts

LEMMA ApprovalTypeInv ==
  ASSUME TypeInv, NEW t \in Threads, Ask(t) \/ Answered(t)
  PROVE  TypeInv'
<1>1. PICK from \in {"running", "waiting"}, to \in {"running", "waiting"} :
        Goes(t, from, to)
  BY DEF Ask, Answered
<1>2. UNCHANGED <<uiVars, sharedVars, agent, current, started, decided, tasks>>
  BY DEF Ask, Answered
<1>3. thread' \in [Threads -> ThreadPoints] /\ ThreadsInOrder'
  BY <1>1, <1>2, OnlyLastThreadMoves DEF ThreadPoints, BusyPoints, RunPoints
<1>4. ThreadType'
  BY <1>2, <1>3 DEF ThreadType, TypeInv, TypeOK
<1>5. asks \in 0..MaxAsks /\ decided \in 0..MaxAsks /\ decided <= asks
  BY DEF TypeInv, TypeOK, DialogType, Counts, DecisionsCounted
<1>6. DialogType' /\ DecisionsCounted'
  <2>1. CASE Ask(t)
    <3>1. /\ asks' \in 0..MaxAsks /\ decided' \in 0..MaxAsks
          /\ decided' < asks' /\ decided' <= asks'
      BY <1>2, <1>5, <2>1, InputBound DEF Ask
    <3>2. showing' \in BOOLEAN /\ decision' \in BOOLEAN
      BY <2>1 DEF Ask
    <3>3. DialogType'
      BY <3>1, <3>2 DEF DialogType
    <3> QED
      BY <3>1, <3>3 DEF DecisionsCounted
  <2>2. CASE Answered(t)
    <3>1. showing' = FALSE /\ UNCHANGED <<asks, decision>>
      BY <2>2 DEF Answered
    <3> QED
      BY <1>2, <1>5, <3>1
         DEF DialogType, DecisionsCounted, TypeInv, TypeOK
  <2> QED
    BY <2>1, <2>2
<1>7. InputsCounted'
  BY <1>2 DEF InputsCounted, uiVars, TypeInv, Counts
<1> QED
  BY <1>2, <1>3, <1>4, <1>6, <1>7, Frames DEF TypeInv, TypeOK, Counts

LEMMA DrainNextTypeInv ==
  ASSUME TypeInv, NEW t \in Threads, DrainNext(t)
  PROVE  TypeInv'
<1>1. /\ pending # << >> /\ pending' = Tail(pending)
      /\ current' = [current EXCEPT ![t] = Head(pending).id]
      /\ UNCHANGED <<uiVars, busy, output_done, interrupted, dropped, agent,
                     started, approvalVars, tasks>>
  BY DEF DrainNext
<1>2. PICK to \in {"enter", "echo"} : Goes(t, "drain", to)
  BY DEF DrainNext
<1>3. thread' \in [Threads -> ThreadPoints] /\ ThreadsInOrder' /\ t = agent
  BY <1>1, <1>2, OnlyLastThreadMoves DEF ThreadPoints, BusyPoints, RunPoints
<1>4. pending \in Seq([id : Inputs, echoed : BOOLEAN])
      /\ current \in [Threads -> 0..MaxInputs]
  BY DEF TypeInv, TypeOK, SharedType, ThreadType
<1>5. Head(pending) \in [id : Inputs, echoed : BOOLEAN]
      /\ pending' \in Seq([id : Inputs, echoed : BOOLEAN])
  BY <1>1, <1>4, HeadTailProperties
<1>6. Head(pending).id \in Inputs /\ Head(pending).id \in 0..MaxInputs
  <2>1. Head(pending).id \in Inputs
    BY <1>5
  <2> QED
    BY <2>1, InputBound DEF Inputs
<1>7. current' \in [Threads -> 0..MaxInputs]
  BY <1>1, <1>4, <1>6
<1>8. ThreadType' /\ SharedType'
  BY <1>1, <1>3, <1>5, <1>7 DEF ThreadType, SharedType, TypeInv, TypeOK
<1>9. InputsCounted'
  <2>1. UNCHANGED <<ui, input, submitted>>
    BY <1>1 DEF uiVars
  <2>2. \A u \in Threads : u <= agent' => current'[u] \in Inputs
    BY <1>1, <1>4, <1>6 DEF TypeInv, Counts, InputsCounted
  <2> QED
    BY <1>1, <2>1, <2>2 DEF InputsCounted, TypeInv, Counts
<1> QED
  BY <1>1, <1>3, <1>8, <1>9, Frames DEF TypeInv, TypeOK, Counts

\* Every step keeps the types and the counts.
LEMMA NextTypeInv == TypeInv /\ [Next]_vars => TypeInv'
<1> SUFFICES ASSUME TypeInv, [Next]_vars PROVE TypeInv'
  OBVIOUS
<1>1. CASE User \/ Ui \/ Decide
  BY <1>1, EnterInputTypeInv, UiMovesTypeInv, QuitDecideTypeInv,
     QueueInputTypeInv, RunAgentTypeInv, RunTaskTypeInv
     DEF User, Ui
<1>2. ASSUME NEW t \in Threads, Agent(t) PROVE TypeInv'
  BY <1>2, FlagStepsTypeInv, EnterRunTypeInv, ApprovalTypeInv,
     DrainNextTypeInv
     DEF Agent
<1>3. CASE UNCHANGED vars
  <2>1. UNCHANGED <<ui, input, submitted>>
    BY <1>3 DEF vars, uiVars
  <2> QED
    BY <1>3, <2>1, Frames DEF vars, TypeInv, TypeOK, Counts
<1> QED
  BY <1>1, <1>2, <1>3 DEF Next

\* The state of the session keeps its types: in particular no thread is
\* started without an input, and no decision is made without a request.
THEOREM TypeCorrect == Spec => []TypeOK
<1>1. TypeInv => TypeOK
  BY DEF TypeInv
<1> QED
  BY <1>1, InitTypeInv, NextTypeInv, PTL DEF Spec

LEMMA TypeInvariant == Spec => []TypeInv
  BY InitTypeInv, NextTypeInv, PTL DEF Spec

------------------------------------------------------------------------------
(* Exclusion: the busy flag, the queue and the dialog *)

\* Where the last thread is, after a step that leaves it alone or moves it.
LEMMA LastThreadStays ==
  ASSUME NEW S, UNCHANGED threadVars
  PROVE  LastThread(S)' <=> LastThread(S)
  BY DEF LastThread, threadVars

LEMMA LastThreadMoves ==
  ASSUME TypeInv, NEW t \in Threads, NEW from, NEW to \in ThreadPoints,
         from \notin {"none", "done"}, to # "none",
         Goes(t, from, to), UNCHANGED agent
  PROVE  /\ \A S : LastThread(S) <=> from \in S
         /\ \A S : LastThread(S)' <=> to \in S
  BY OnlyLastThreadMoves DEF LastThread

\* Steps of the UI thread that start no thread.
LEMMA UiKeepsBusy ==
  ASSUME TypeInv, BusyInv, User \/ Decide \/ Ui, ~RunAgent
  PROVE  BusyInv'
<1>1. UNCHANGED <<threadVars, busy>>
  BY DEF User, Ui, Decide, Submit, SkillCommand, CtrlC, Quit, SessionOp,
         QueueInput, ClearPending, InterruptAgent, SessionOpEnds, RunTask,
         Leave, Left, sharedVars
<1>2. pending' = pending \/ pending' = << >> \/ busy
  BY DEF User, Ui, Decide, Submit, SkillCommand, CtrlC, Quit, SessionOp,
         QueueInput, ClearPending, InterruptAgent, SessionOpEnds, RunTask,
         Leave, Left, sharedVars
<1>3. LastThread(BusyPoints)' <=> LastThread(BusyPoints)
  BY <1>1, LastThreadStays
<1> QED
  BY <1>1, <1>2, <1>3 DEF BusyInv

LEMMA RunAgentStarts ==
  ASSUME TypeInv, RunAgent
  PROVE  /\ \A S : "done" \notin S => ~LastThread(S)
         /\ \A S : "starting" \notin S => ~LastThread(S)'
<1>1. agent # 0 => thread[agent] = "done"
  BY DEF RunAgent, Joinable
<1>2. agent' # 0 /\ thread'[agent'] = "starting"
  <2>1. /\ agent' = agent + 1 /\ thread' = [thread EXCEPT ![agent'] = "starting"]
        /\ ui = "direct"
    BY DEF RunAgent, Spawn
  <2>2. /\ agent \in 0..MaxInputs /\ submitted \in 0..MaxInputs
        /\ agent < submitted /\ thread \in [Threads -> ThreadPoints]
    BY <2>1 DEF TypeInv, TypeOK, UiType, ThreadType, Counts, InputsCounted
  <2> QED
    BY <2>1, <2>2, InputBound DEF Threads
<1> QED
  BY <1>1, <1>2 DEF LastThread

LEMMA RunAgentKeepsBusy == TypeInv /\ BusyInv /\ RunAgent => BusyInv'
<1> SUFFICES ASSUME TypeInv, BusyInv, RunAgent PROVE BusyInv'
  OBVIOUS
<1>1. UNCHANGED <<busy, pending>>
  BY DEF RunAgent, Spawn, sharedVars
<1>2. "done" \notin BusyPoints /\ "starting" \notin BusyPoints
  BY DEF BusyPoints, RunPoints
<1> QED
  BY <1>1, <1>2, RunAgentStarts DEF BusyInv

LEMMA AgentKeepsBusy ==
  ASSUME TypeInv, BusyInv, NEW t \in Threads, Agent(t)
  PROVE  BusyInv'
<1> USE DEF BusyPoints, RunPoints, ThreadPoints
<1>1. CASE SetBusy(t)
  BY <1>1, LastThreadMoves DEF SetBusy, BusyInv
<1>2. CASE DrainEmpty(t)
  BY <1>2, LastThreadMoves DEF DrainEmpty, BusyInv
<1>3. CASE Finish(t)
  <2>1. ~LastThread(BusyPoints) /\ ~LastThread(BusyPoints)'
    BY <1>3, LastThreadMoves DEF Finish
  <2> QED
    BY <1>3, <2>1 DEF Finish, BusyInv
<1>4. CASE DrainNext(t)
  <2>1. LastThread(BusyPoints) /\ LastThread(BusyPoints)'
    BY <1>4, LastThreadMoves DEF DrainNext
  <2> QED
    BY <1>4, <2>1 DEF DrainNext, BusyInv
<1>5. CASE EnterRun(t) \/ TurnStart(t) \/ Ask(t) \/ Answered(t) \/ RunEnds(t)
           \/ EchoInput(t)
  <2>1. PICK from \in BusyPoints, to \in BusyPoints : Goes(t, from, to)
    BY <1>5 DEF EnterRun, TurnStart, Ask, Answered, RunEnds, EchoInput
  <2>2. UNCHANGED <<agent, busy, pending>>
    BY <1>5 DEF EnterRun, TurnStart, Ask, Answered, RunEnds, EchoInput,
                sharedVars
  <2>3. LastThread(BusyPoints) /\ LastThread(BusyPoints)'
    BY <2>1, <2>2, LastThreadMoves
  <2> QED
    BY <2>2, <2>3 DEF BusyInv
<1> QED
  BY <1>1, <1>2, <1>3, <1>4, <1>5 DEF Agent

LEMMA NextBusyInv == TypeInv /\ BusyInv /\ [Next]_vars => BusyInv'
<1> SUFFICES ASSUME TypeInv, BusyInv, [Next]_vars PROVE BusyInv'
  OBVIOUS
<1>1. CASE UNCHANGED vars
  <2>1. UNCHANGED <<threadVars, busy, pending>>
    BY <1>1 DEF vars, sharedVars
  <2> QED
    BY <2>1, LastThreadStays DEF BusyInv
<1> QED
  BY <1>1, UiKeepsBusy, RunAgentKeepsBusy, AgentKeepsBusy DEF Next

LEMMA BusyInvariant == Spec => []BusyInv
<1>1. Init => BusyInv
  BY DEF Init, BusyInv, LastThread
<1> QED
  BY <1>1, TypeInvariant, NextBusyInv, PTL DEF Spec

\* At most one agent thread is alive, and run() is only entered and left with
\* the busy flag set.
THEOREM RunsExclusive == Spec => []RunsAreExclusive
<1>1. TypeInv /\ BusyInv => RunsAreExclusive
  <2> SUFFICES ASSUME TypeInv, BusyInv PROVE RunsAreExclusive
    OBVIOUS
  <2>1. \A t \in Threads : Live(t) => t = agent
    BY InputBound
       DEF TypeInv, TypeOK, ThreadType, ThreadsInOrder, Live, Threads
  <2>2. \A t \in Threads : thread[t] \in BusyPoints => Live(t)
    BY DEF Live, BusyPoints, RunPoints
  <2>3. \A t \in Threads : t # 0
    BY DEF Threads
  <2> QED
    BY <2>1, <2>2, <2>3 DEF RunsAreExclusive, BusyInv, LastThread
<1> QED
  BY <1>1, TypeInvariant, BusyInvariant, PTL

\* A queued input has a thread that is still going to look at the queue.
THEOREM QueueDrained == Spec => []QueuedInputIsDrained
<1>1. TypeInv /\ BusyInv => QueuedInputIsDrained
  <2>1. TypeInv /\ agent # 0 => agent \in Threads
    BY InputBound DEF TypeInv, TypeOK, ThreadType, Threads
  <2> QED
    BY <2>1 DEF QueuedInputIsDrained, BusyInv, LastThread
<1> QED
  BY <1>1, TypeInvariant, BusyInvariant, PTL

------------------------------------------------------------------------------
(* Decisions *)

LEMMA UiKeepsDialog ==
  ASSUME TypeInv, DialogInv, User \/ Ui, ~RunAgent
  PROVE  DialogInv'
<1>1. UNCHANGED <<threadVars, approvalVars>>
  BY DEF User, Ui, Submit, SkillCommand, CtrlC, Quit, SessionOp, QueueInput,
         ClearPending, InterruptAgent, SessionOpEnds, RunTask, Leave, Left
<1>2. LastThread({"waiting"})' <=> LastThread({"waiting"})
  BY <1>1, LastThreadStays
<1> QED
  BY <1>1, <1>2 DEF DialogInv, Undecided, approvalVars

LEMMA RunAgentKeepsDialog == TypeInv /\ DialogInv /\ RunAgent => DialogInv'
<1> SUFFICES ASSUME TypeInv, DialogInv, RunAgent PROVE DialogInv'
  OBVIOUS
<1>1. UNCHANGED approvalVars
  BY DEF RunAgent, Spawn
<1>2. ~LastThread({"waiting"}) /\ ~LastThread({"waiting"})'
  BY RunAgentStarts
<1> QED
  BY <1>1, <1>2 DEF DialogInv, Undecided, approvalVars

LEMMA DecideKeepsDialog == TypeInv /\ DialogInv /\ Decide => DialogInv'
<1> SUFFICES ASSUME TypeInv, DialogInv, Decide PROVE DialogInv'
  OBVIOUS
<1>1. Undecided /\ ~Undecided' /\ showing' = FALSE
  BY DEF Decide, DialogInv, Undecided
<1>2. decided' = asks'
  BY <1>1 DEF Decide, DialogInv
<1> QED
  BY <1>1, <1>2 DEF DialogInv

LEMMA AgentKeepsDialog ==
  ASSUME TypeInv, DialogInv, NEW t \in Threads, Agent(t)
  PROVE  DialogInv'
<1> USE DEF BusyPoints, RunPoints, ThreadPoints
<1>1. CASE Ask(t)
  <2>1. ~LastThread({"waiting"}) /\ LastThread({"waiting"})'
    BY <1>1, LastThreadMoves DEF Ask
  <2>2. ~Undecided /\ Undecided'
    BY <1>1, <2>1 DEF Undecided, Ask
  <2>3. decided = asks /\ decided \in Nat
    BY <2>2 DEF DialogInv, TypeInv, TypeOK, DialogType
  <2>4. decided' + 1 = asks'
    BY <1>1, <2>3 DEF Ask
  <2> QED
    BY <2>2, <2>4 DEF DialogInv
<1>2. CASE Answered(t)
  <2>1. ~LastThread({"waiting"})' /\ decision = TRUE
    BY <1>2, LastThreadMoves DEF Answered, TypeInv, TypeOK, DialogType
  <2>2. ~Undecided /\ ~Undecided' /\ showing' = FALSE
    BY <1>2, <2>1 DEF Undecided, Answered
  <2>3. decided' = asks'
    BY <1>2, <2>2 DEF DialogInv, Answered
  <2> QED
    BY <2>2, <2>3 DEF DialogInv
<1>3. CASE \/ SetBusy(t) \/ EnterRun(t) \/ TurnStart(t) \/ RunEnds(t)
           \/ DrainNext(t) \/ DrainEmpty(t) \/ EchoInput(t) \/ Finish(t)
  <2>1. PICK from \in ThreadPoints \ {"none", "done", "waiting"},
             to \in ThreadPoints \ {"none", "waiting"} : Goes(t, from, to)
    BY <1>3 DEF SetBusy, EnterRun, TurnStart, RunEnds, DrainNext, DrainEmpty,
                EchoInput, Finish
  <2>2. UNCHANGED <<agent, approvalVars>>
    BY <1>3 DEF SetBusy, EnterRun, TurnStart, RunEnds, DrainNext, DrainEmpty,
                EchoInput, Finish
  <2>3. ~LastThread({"waiting"}) /\ ~LastThread({"waiting"})'
    BY <2>1, <2>2, LastThreadMoves
  <2> QED
    BY <2>2, <2>3 DEF DialogInv, Undecided, approvalVars
<1> QED
  BY <1>1, <1>2, <1>3 DEF Agent

LEMMA NextDialogInv == TypeInv /\ DialogInv /\ [Next]_vars => DialogInv'
<1> SUFFICES ASSUME TypeInv, DialogInv, [Next]_vars PROVE DialogInv'
  OBVIOUS
<1>1. CASE UNCHANGED vars
  <2>1. UNCHANGED <<threadVars, approvalVars>>
    BY <1>1 DEF vars
  <2>2. LastThread({"waiting"})' <=> LastThread({"waiting"})
    BY <2>1, LastThreadStays
  <2> QED
    BY <2>1, <2>2 DEF DialogInv, Undecided, approvalVars
<1> QED
  BY <1>1, UiKeepsDialog, RunAgentKeepsDialog, DecideKeepsDialog,
     AgentKeepsDialog
     DEF Next

\* No approval request returns on a decision made for another one: the
\* decisions keep step with the requests.
THEOREM DecisionsMatchRequests == Spec => []OneDecisionPerRequest
<1>1. Init => DialogInv
  BY DEF Init, DialogInv, Undecided, LastThread
<1>2. TypeInv /\ DialogInv => OneDecisionPerRequest
  <2> SUFFICES ASSUME TypeInv, DialogInv PROVE OneDecisionPerRequest
    OBVIOUS
  <2> DEFINE W == {t \in Threads : thread[t] = "waiting"}
  <2>1. asks \in Nat /\ decided \in Nat /\ decided <= asks
    BY InputBound DEF TypeInv, TypeOK, DialogType, Counts, DecisionsCounted
  <2>2. CASE LastThread({"waiting"})
    <3>1. W = {agent}
      BY <2>2, InputBound
         DEF LastThread, TypeInv, TypeOK, ThreadType, ThreadsInOrder, Threads
    <3>2. Cardinality(W) = 1
      BY <3>1, FS_Singleton
    <3>3. decided + 1 = asks \/ decided = asks
      BY DEF DialogInv
    <3> QED
      BY <2>1, <3>2, <3>3 DEF OneDecisionPerRequest
  <2>3. CASE ~LastThread({"waiting"})
    <3>1. W = {}
      BY <2>3, InputBound
         DEF LastThread, TypeInv, TypeOK, ThreadType, ThreadsInOrder, Threads
    <3>2. Cardinality(W) = 0
      BY <3>1, FS_EmptySet
    <3>3. decided = asks
      BY <2>3 DEF DialogInv, Undecided
    <3> QED
      BY <2>1, <3>2, <3>3 DEF OneDecisionPerRequest
  <2> QED
    BY <2>2, <2>3
<1> QED
  BY <1>1, <1>2, TypeInvariant, NextDialogInv, PTL DEF Spec
------------------------------------------------------------------------------
(* The inputs on their way *)

\* The UI thread has an input in hand exactly while it queues or starts it.
HandInv == input # 0 <=> ui \in {"queue", "direct"}

Increasing(s) == \A i, j \in 1..Len(s) : i < j => s[i] < s[j]
Elements(s) == {s[i] : i \in 1..Len(s)}

LEMMA NextHandInv == TypeInv /\ HandInv /\ [Next]_vars => HandInv'
<1> SUFFICES ASSUME TypeInv, HandInv, [Next]_vars PROVE HandInv'
  OBVIOUS
<1>1. CASE Submit \/ SkillCommand
  <2>1. input' = submitted + 1 /\ ui' \in {"queue", "direct"}
        /\ submitted \in Nat
    BY <1>1, InputBound DEF Submit, SkillCommand, TypeInv, TypeOK, UiType
  <2> QED
    BY <2>1 DEF HandInv
<1>2. CASE QueueInput
  BY <1>2 DEF QueueInput, HandInv
<1>3. CASE RunAgent
  BY <1>3 DEF RunAgent, Spawn, HandInv
<1>4. CASE \/ CtrlC \/ Quit \/ SessionOp \/ ClearPending \/ InterruptAgent
           \/ SessionOpEnds \/ RunTask \/ Leave \/ Left
  <2>1. input' = input /\ ui \notin {"queue", "direct"}
        /\ ui' \notin {"queue", "direct"}
    BY <1>4 DEF CtrlC, Quit, SessionOp, ClearPending, InterruptAgent,
                SessionOpEnds, RunTask, Leave, Left, AtPrompt, uiVars
  <2> QED
    BY <2>1 DEF HandInv
<1>5. ASSUME UNCHANGED <<ui, input>> PROVE HandInv'
  BY <1>5 DEF HandInv
<1>6. CASE Decide \/ (\E t \in Threads : Agent(t)) \/ UNCHANGED vars
  BY <1>5, <1>6 DEF Decide, Agent, SetBusy, EnterRun, TurnStart, Ask,
     Answered, RunEnds, DrainNext, DrainEmpty, EchoInput, Finish, vars, uiVars
<1> QED
  BY <1>1, <1>2, <1>3, <1>4, <1>6 DEF Next, User, Ui

\* An element behind a list.
LEMMA AppendElement ==
  ASSUME NEW s \in Seq(Inputs), NEW x \in Inputs
  PROVE  /\ s \o <<x>> \in Seq(Inputs) /\ s \o <<x>> = Append(s, x)
         /\ Elements(s \o <<x>>) = Elements(s) \cup {x}
         /\ (\A i \in 1..Len(s) : s[i] < x) /\ Increasing(s)
              => Increasing(s \o <<x>>)
<1>1. /\ s \o <<x>> = Append(s, x) /\ Append(s, x) \in Seq(Inputs)
      /\ Len(Append(s, x)) = Len(s) + 1 /\ Len(s) \in Nat
      /\ \A i \in 1..Len(s) : Append(s, x)[i] = s[i]
      /\ Append(s, x)[Len(s) + 1] = x
  BY AppendProperties, AppendIsConcat, LenProperties
<1>2. \A i \in 1..Len(s) + 1 : i \in 1..Len(s) \/ i = Len(s) + 1
  BY <1>1
<1>3. Elements(s \o <<x>>) = Elements(s) \cup {x}
  BY <1>1, <1>2 DEF Elements
<1>4. ASSUME \A i \in 1..Len(s) : s[i] < x, Increasing(s)
      PROVE  Increasing(s \o <<x>>)
  <2> SUFFICES ASSUME NEW i \in 1..Len(s) + 1, NEW j \in 1..Len(s) + 1, i < j
               PROVE  Append(s, x)[i] < Append(s, x)[j]
    BY <1>1 DEF Increasing
  <2>1. i \in 1..Len(s)
    BY <1>1
  <2>2. j \in 1..Len(s) \/ j = Len(s) + 1
    BY <1>2
  <2> QED
    BY <1>1, <1>4, <2>1, <2>2 DEF Increasing
<1> QED
  BY <1>1, <1>3, <1>4

\* A list before another one, and a list without what was between.
LEMMA Prefix ==
  ASSUME NEW s \in Seq(Inputs), NEW t \in Seq(Inputs)
  PROVE  /\ s \o t \in Seq(Inputs)
         /\ Elements(s \o t) = Elements(s) \cup Elements(t)
         /\ Increasing(s \o t) => Increasing(s)
         /\ Increasing(s \o t) =>
              \A i \in 1..Len(s), j \in 1..Len(t) : s[i] < t[j]
<1>1. /\ s \o t \in Seq(Inputs) /\ Len(s) \in Nat /\ Len(t) \in Nat
      /\ Len(s \o t) = Len(s) + Len(t)
      /\ \A i \in 1..Len(s) + Len(t) :
           (s \o t)[i] = IF i <= Len(s) THEN s[i] ELSE t[i - Len(s)]
  BY ConcatProperties, LenProperties
<1>2. \A i \in 1..Len(s) : i \in 1..Len(s \o t) /\ (s \o t)[i] = s[i]
  BY <1>1
<1>3. ASSUME NEW j \in 1..Len(t)
      PROVE  Len(s) + j \in 1..Len(s \o t) /\ (s \o t)[Len(s) + j] = t[j]
  <2>1. /\ Len(s) + j \in 1..Len(s) + Len(t)
        /\ ~(Len(s) + j <= Len(s)) /\ (Len(s) + j) - Len(s) = j
    BY <1>1
  <2> QED
    BY <1>1, <2>1
<1>4. ASSUME NEW i \in 1..Len(s \o t), i \notin 1..Len(s)
      PROVE  \E j \in 1..Len(t) : (s \o t)[i] = t[j]
  <2>1. i - Len(s) \in 1..Len(t) /\ ~(i <= Len(s)) /\ i \in 1..Len(s) + Len(t)
    BY <1>1, <1>4
  <2> QED
    BY <1>1, <2>1
<1>5. Elements(s \o t) = Elements(s) \cup Elements(t)
  <2>1. Elements(s) \subseteq Elements(s \o t)
    BY <1>2 DEF Elements
  <2>2. Elements(t) \subseteq Elements(s \o t)
    BY <1>3 DEF Elements
  <2>3. \A i \in 1..Len(s \o t) :
          (s \o t)[i] \in Elements(s) \cup Elements(t)
    BY <1>2, <1>4 DEF Elements
  <2> QED
    BY <2>1, <2>2, <2>3 DEF Elements
<1>6. Increasing(s \o t) => Increasing(s)
  BY <1>2 DEF Increasing
<1>7. ASSUME Increasing(s \o t), NEW i \in 1..Len(s), NEW j \in 1..Len(t)
      PROVE  s[i] < t[j]
  <2>1. i < Len(s) + j
    BY <1>1
  <2> QED
    BY <1>2, <1>3, <1>7, <2>1 DEF Increasing
<1> QED
  BY <1>1, <1>5, <1>6, <1>7

\* What the line is made of.
LEMMA LineParts ==
  ASSUME TypeInv
  PROVE  /\ started \in Seq(Inputs) /\ Taken \in Seq(Inputs)
         /\ Queued \in Seq(Inputs) /\ InHand \in Seq(Inputs)
         /\ Line \in Seq(Inputs)
         /\ Elements(Queued) = {pending[i].id : i \in 1..Len(pending)}
<1>1. started \in Seq(Inputs) /\ input \in 0..MaxInputs
      /\ pending \in Seq([id : Inputs, echoed : BOOLEAN])
  BY DEF TypeInv, TypeOK, UiType, SharedType, ThreadType
<1>2. Taken \in Seq(Inputs)
  <2>1. agent # 0 => current[agent] \in Inputs
    BY InputBound DEF TypeInv, TypeOK, ThreadType, Counts, InputsCounted,
                      Threads
  <2> QED
    BY <2>1 DEF Taken
<1>3. InHand \in Seq(Inputs)
  <2>1. input # 0 => input \in Inputs
    BY <1>1, InputBound DEF Inputs
  <2> QED
    BY <2>1 DEF InHand
<1>4. ASSUME NEW i \in 1..Len(pending) PROVE pending[i].id \in Inputs
  <2>1. pending[i] \in [id : Inputs, echoed : BOOLEAN]
    BY <1>1, ElementOfSeq
  <2> QED
    BY <2>1
<1>5. Len(pending) \in Nat
  BY <1>1, LenProperties
<1>6. Queued \in [1..Len(pending) -> Inputs]
  BY <1>4 DEF Queued
<1>7. Queued \in Seq(Inputs) /\ Len(Queued) = Len(pending)
  BY <1>5, <1>6
<1>8. Elements(Queued) = {pending[i].id : i \in 1..Len(pending)}
  BY <1>7 DEF Elements, Queued
<1>9. Line \in Seq(Inputs)
  BY <1>1, <1>2, <1>3, <1>7, ConcatProperties DEF Line
<1> QED
  BY <1>1, <1>2, <1>3, <1>7, <1>8, <1>9

PartTypes == Taken \in Seq(Inputs) /\ Queued \in Seq(Inputs)

LEMMA NextLineParts == TypeInv' => PartTypes'
<1>1. TypeInv => PartTypes
  BY LineParts DEF PartTypes
<1> QED
  BY <1>1, PTL

LineInv == InputsRunInOrder

LEMMA LineInvIs ==
  LineInv <=> Increasing(Line) /\ Elements(Line) \cup dropped = 1..submitted
  BY DEF LineInv, InputsRunInOrder, Increasing, Elements

\* Steps that leave the line as it is.
LEMMA LineStays ==
  ASSUME UNCHANGED <<started, pending, input, dropped, submitted>>,
         Taken' = Taken, LineInv
  PROVE  LineInv'
<1>1. Queued' = Queued /\ InHand' = InHand
  BY DEF Queued, InHand
<1>2. Line' = Line
  BY <1>1 DEF Line
<1> QED
  BY <1>2 DEF LineInv, InputsRunInOrder

\* A new input goes to the end of the line.
LEMMA EnterKeepsLine ==
  ASSUME TypeInv, HandInv, LineInv, Submit \/ SkillCommand
  PROVE  LineInv'
<1>1. /\ submitted' = submitted + 1 /\ input' = submitted + 1 /\ ui = "loop"
      /\ submitted < MaxInputs
      /\ UNCHANGED <<started, pending, dropped, thread, agent, current>>
  BY DEF Submit, SkillCommand, AtPrompt, sharedVars, threadVars
<1>2. submitted \in Nat /\ submitted' \in Inputs /\ input = 0
  BY <1>1, InputBound DEF TypeInv, TypeOK, UiType, Inputs, HandInv
<1>3. Line = started \o Taken \o Queued
  <2>1. started \o Taken \o Queued \in Seq(Inputs) /\ InHand = << >>
    BY <1>2, LineParts, ConcatProperties DEF InHand
  <2> QED
    BY <2>1, ConcatEmptySeq DEF Line
<1>4. Line' = Line \o <<submitted'>>
  <2>1. Taken' = Taken /\ Queued' = Queued /\ InHand' = <<submitted'>>
    BY <1>1, <1>2 DEF Taken, Queued, InHand
  <2> QED
    BY <1>1, <1>3, <2>1 DEF Line
<1>5. Line \in Seq(Inputs)
  BY LineParts
<1>6. \A i \in 1..Len(Line) : Line[i] < submitted'
  <2>1. Elements(Line) \subseteq 1..submitted
    BY LineInvIs
  <2>2. \A i \in 1..Len(Line) : Line[i] \in 1..submitted
    BY <2>1 DEF Elements
  <2> QED
    BY <1>1, <1>2, <2>2
<1>7. Increasing(Line') /\ Elements(Line') = Elements(Line) \cup {submitted'}
  BY <1>2, <1>4, <1>5, <1>6, AppendElement, LineInvIs
<1>8. 1..submitted' = 1..submitted \cup {submitted'}
  BY <1>1, <1>2
<1> QED
  BY <1>1, <1>7, <1>8, LineInvIs DEF LineInv, InputsRunInOrder, Increasing,
     Elements

\* The input in hand goes to the end of the queue.
LEMMA QueueKeepsLine ==
  ASSUME TypeInv, HandInv, LineInv, QueueInput
  PROVE  LineInv'
<1>1. UNCHANGED <<started, thread, agent, current, dropped, submitted>>
  BY DEF QueueInput, threadVars
<1>2. Taken' = Taken
  BY <1>1 DEF Taken
<1>3. CASE UNCHANGED <<pending, input>>
  BY <1>1, <1>2, <1>3, LineStays
<1>4. CASE ~UNCHANGED <<pending, input>>
  <2> DEFINE r == [id |-> input, echoed |-> output_done]
             A == started \o Taken
  <2>1. pending' = Append(pending, r) /\ input' = 0
    BY <1>4 DEF QueueInput
  <2>2. input \in Inputs
    BY DEF QueueInput, TypeInv, Counts, InputsCounted
  <2>3. input # 0 /\ InHand = <<input>> /\ InHand' = << >>
    BY <2>1, <2>2 DEF InHand, Inputs
  <2>4. Queued' = Append(Queued, input)
    <3>1. /\ pending \in Seq([id : Inputs, echoed : BOOLEAN])
          /\ r \in [id : Inputs, echoed : BOOLEAN] /\ r.id = input
      BY <2>2 DEF TypeInv, TypeOK, SharedType
    <3> HIDE DEF r
    <3>2. /\ Len(pending') = Len(pending) + 1 /\ Len(pending) \in Nat
          /\ \A i \in 1..Len(pending) : pending'[i] = pending[i]
          /\ pending'[Len(pending) + 1] = r
      BY <2>1, <3>1, AppendProperties, LenProperties
    <3>3. Queued \in Seq(Inputs) /\ Len(Queued) = Len(pending)
      BY <3>2, LineParts DEF Queued
    <3>4. /\ Len(Append(Queued, input)) = Len(pending) + 1
          /\ \A i \in 1..Len(pending) :
               Append(Queued, input)[i] = pending[i].id
          /\ Append(Queued, input)[Len(pending) + 1] = input
      BY <2>2, <3>3, AppendProperties DEF Queued
    <3>5. Append(Queued, input) =
            [i \in 1..Len(pending) + 1 |-> Append(Queued, input)[i]]
      BY ZenonT(30), <2>2, <3>3, <3>4, AppendProperties, LenProperties
    <3>6. \A i \in 1..Len(pending) + 1 :
            pending'[i].id = Append(Queued, input)[i]
      <4>1. \A i \in 1..Len(pending) + 1 :
              i \in 1..Len(pending) \/ i = Len(pending) + 1
        BY <3>2
      <4> QED
        BY <3>1, <3>2, <3>4, <4>1
    <3> QED
      BY <3>2, <3>5, <3>6 DEF Queued
  <2>5. A \in Seq(Inputs) /\ Queued \in Seq(Inputs)
    BY LineParts, ConcatProperties
  <2>6. <<input>> \in Seq(Inputs) /\ Append(Queued, input) = Queued \o <<input>>
    BY <2>2, <2>5, AppendElement
  <2> HIDE DEF A
  <2>7. /\ Line = (A \o Queued) \o <<input>>
        /\ Line' = (A \o (Queued \o <<input>>)) \o << >>
    BY <1>1, <1>2, <2>3, <2>4, <2>6 DEF Line, A
  <2>8. A \o (Queued \o <<input>>) \in Seq(Inputs)
    BY <2>5, <2>6, ConcatProperties
  <2>9. Line' = Line
    BY <2>5, <2>6, <2>7, <2>8, ConcatAssociative, ConcatEmptySeq
  <2> QED
    BY <1>1, <2>9 DEF LineInv, InputsRunInOrder
<1> QED
  BY <1>3, <1>4

\* The input in hand goes to a new thread, which is the only one with an
\* input to run: the last thread has ended and the queue is empty.
LEMMA RunAgentKeepsLine ==
  ASSUME TypeInv, BusyInv, LineInv, RunAgent
  PROVE  LineInv'
<1>1. /\ agent' = agent + 1 /\ input' = 0
      /\ thread' = [thread EXCEPT ![agent'] = "starting"]
      /\ current' = [current EXCEPT ![agent'] = input]
      /\ UNCHANGED <<started, pending, dropped, submitted>>
      /\ ui = "direct" /\ (agent # 0 => thread[agent] = "done")
  BY DEF RunAgent, Spawn, Joinable, sharedVars
<1>2. input \in Inputs /\ agent < submitted
  BY <1>1 DEF TypeInv, Counts, InputsCounted
<1>3. Taken = << >>
  BY <1>1 DEF Taken
<1>4. pending = << >>
  BY <1>1 DEF BusyInv, LastThread, BusyPoints, RunPoints
<1>5. Queued = << >> /\ Queued' = << >>
  <2>1. Len(pending) = 0 /\ Len(pending') = 0
    BY <1>1, <1>4
  <2> QED
    BY <2>1 DEF Queued
<1>6. InHand = <<input>> /\ InHand' = << >>
  BY <1>1, <1>2 DEF InHand, Inputs
<1>7. Taken' = <<input>>
  <2>1. /\ agent \in 0..MaxInputs /\ submitted \in 0..MaxInputs
        /\ thread \in [Threads -> ThreadPoints]
        /\ current \in [Threads -> 0..MaxInputs]
    BY DEF TypeInv, TypeOK, UiType, ThreadType
  <2>2. agent' \in Threads /\ agent' # 0
    BY <1>1, <1>2, <2>1, InputBound DEF Threads
  <2>3. thread'[agent'] = "starting" /\ current'[agent'] = input
    BY <1>1, <2>1, <2>2
  <2> QED
    BY <2>2, <2>3 DEF Taken
<1>8. started \in Seq(Inputs) /\ <<input>> \in Seq(Inputs)
      /\ started \o <<input>> \in Seq(Inputs)
  BY <1>2, LineParts, AppendElement
<1>9. Line = started \o <<input>> /\ Line' = started \o <<input>>
  <2>1. Line = ((started \o << >>) \o << >>) \o <<input>>
    BY <1>3, <1>5, <1>6 DEF Line
  <2>2. Line' = ((started \o <<input>>) \o << >>) \o << >>
    BY <1>1, <1>5, <1>6, <1>7 DEF Line
  <2> QED
    BY <1>8, <2>1, <2>2, ConcatEmptySeq
<1> QED
  BY <1>1, <1>9 DEF LineInv, InputsRunInOrder

\* Ctrl+C takes the end of the line away.
LEMMA ClearKeepsLine ==
  ASSUME TypeInv, HandInv, LineInv, ClearPending
  PROVE  LineInv'
<1>1. /\ pending' = << >> /\ input = 0 /\ input' = 0
      /\ dropped' = dropped \cup {pending[i].id : i \in 1..Len(pending)}
      /\ UNCHANGED <<started, thread, agent, current, submitted>>
  BY DEF ClearPending, threadVars, HandInv
<1> DEFINE A == started \o Taken
<1>2. Taken' = Taken /\ Queued' = << >> /\ InHand = << >> /\ InHand' = << >>
  <2>1. Len(pending') = 0
    BY <1>1
  <2> QED
    BY <1>1, <2>1 DEF Taken, Queued, InHand
<1>3. A \in Seq(Inputs) /\ Queued \in Seq(Inputs)
      /\ A \o Queued \in Seq(Inputs)
  BY LineParts, ConcatProperties
<1>4. Line = (A \o Queued) \o << >> /\ Line' = (A \o << >>) \o << >>
  BY <1>1, <1>2 DEF Line
<1> HIDE DEF A
<1>5. Line = A \o Queued /\ Line' = A
  BY <1>3, <1>4, ConcatEmptySeq
<1>6. Increasing(A) /\ Elements(Line) = Elements(A) \cup Elements(Queued)
  BY <1>3, <1>5, Prefix, LineInvIs
<1>7. Elements(Line') \cup dropped' = 1..submitted'
  BY <1>1, <1>5, <1>6, LineInvIs, LineParts
<1> QED
  BY <1>5, <1>6, <1>7 DEF LineInv, InputsRunInOrder, Increasing, Elements

\* A thread that had none takes the first input of the queue.
LEMMA DrainKeepsLine ==
  ASSUME TypeInv, LineInv, NEW t \in Threads, DrainNext(t)
  PROVE  LineInv'
<1>1. /\ pending # << >> /\ pending' = Tail(pending)
      /\ current' = [current EXCEPT ![t] = Head(pending).id]
      /\ UNCHANGED <<started, agent, input, dropped, submitted>>
  BY DEF DrainNext, uiVars
<1>2. PICK to \in {"enter", "echo"} : Goes(t, "drain", to)
  BY DEF DrainNext
<1>3. t = agent /\ agent # 0 /\ thread[agent] = "drain" /\ thread'[agent] = to
  BY <1>1, <1>2, OnlyLastThreadMoves DEF ThreadPoints, BusyPoints, RunPoints
<1>4. current'[agent] = Head(pending).id
  BY <1>1, <1>3 DEF TypeInv, TypeOK, ThreadType
<1>5. Taken = << >> /\ Taken' = <<Head(pending).id>> /\ InHand' = InHand
  BY <1>1, <1>3, <1>4 DEF Taken, InHand
<1>6. Queued = <<Head(pending).id>> \o Queued'
  <2>1. pending \in Seq([id : Inputs, echoed : BOOLEAN])
    BY DEF TypeInv, TypeOK, SharedType
  <2>2. /\ Len(pending') = Len(pending) - 1 /\ Len(pending) \in Nat \ {0}
        /\ pending' \in Seq([id : Inputs, echoed : BOOLEAN])
        /\ \A i \in 1..Len(pending') : pending'[i] = pending[i + 1]
        /\ Head(pending) = pending[1]
    BY <1>1, <2>1, HeadTailProperties, EmptySeq
  <2>3. /\ Queued \in Seq(Inputs) /\ Len(Queued) = Len(pending)
        /\ \A i \in 1..Len(pending) : Queued[i] = pending[i].id
    BY <2>2, LineParts DEF Queued
  <2>4. TypeInv'
    BY DrainNextTypeInv
  <2>5. Queued' \in Seq(Inputs)
    BY <2>4, NextLineParts DEF PartTypes
  <2>6. /\ Len(Queued') = Len(pending')
        /\ \A i \in 1..Len(pending') : Queued'[i] = pending'[i].id
    BY <2>2 DEF Queued
  <2>7. 1 \in 1..Len(pending) /\ Head(pending).id \in Inputs
    BY <2>2, <2>3, ElementOfSeq
  <2>8. <<Head(pending).id>> \o Queued' \in Seq(Inputs)
        /\ Len(<<Head(pending).id>> \o Queued') = Len(Queued)
    BY <2>2, <2>3, <2>5, <2>6, <2>7, ConcatProperties
  <2>9. ASSUME NEW i \in 1..Len(Queued)
        PROVE  Queued[i] = (<<Head(pending).id>> \o Queued')[i]
    <3>1. (<<Head(pending).id>> \o Queued')[i] =
            IF i <= 1 THEN Head(pending).id ELSE Queued'[i - 1]
      BY <2>2, <2>3, <2>5, <2>6, <2>7, ConcatProperties
    <3>2. CASE i = 1
      BY <2>2, <2>3, <3>1, <3>2
    <3>3. CASE i # 1
      <4>1. i - 1 \in 1..Len(pending') /\ ~(i <= 1) /\ i \in 1..Len(pending)
            /\ (i - 1) + 1 = i
        BY <2>2, <2>3, <3>3
      <4>2. Queued'[i - 1] = pending[i].id
        BY <2>2, <2>6, <4>1
      <4> QED
        BY <2>3, <3>1, <4>1, <4>2
    <3> QED
      BY <3>2, <3>3
  <2> QED
    BY <2>3, <2>8, <2>9, SeqEqual
<1>7. Line' = Line
  <2>1. TypeInv'
    BY DrainNextTypeInv
  <2>2. Queued' \in Seq(Inputs) /\ Taken' \in Seq(Inputs)
    BY <2>1, NextLineParts DEF PartTypes
  <2>3. started \in Seq(Inputs)
    BY LineParts
  <2>4. Line = ((started \o << >>) \o (Taken' \o Queued')) \o InHand
    BY <1>5, <1>6 DEF Line
  <2>5. Line' = ((started \o Taken') \o Queued') \o InHand
    BY <1>1, <1>5 DEF Line
  <2> QED
    BY <2>2, <2>3, <2>4, <2>5, ConcatEmptySeq, ConcatAssociative
<1> QED
  BY <1>1, <1>7 DEF LineInv, InputsRunInOrder

\* run() is entered with the input the thread had.
LEMMA EnterRunKeepsLine ==
  ASSUME TypeInv, LineInv, NEW t \in Threads, EnterRun(t)
  PROVE  LineInv'
<1>1. /\ Goes(t, "enter", "entered") /\ started' = Append(started, current[t])
      /\ UNCHANGED <<agent, current, pending, input, dropped, submitted>>
  BY DEF EnterRun, uiVars
<1>2. t = agent /\ agent # 0 /\ thread[agent] = "enter"
      /\ thread'[agent] = "entered"
  BY <1>1, OnlyLastThreadMoves DEF ThreadPoints, BusyPoints, RunPoints
<1>3. current[t] \in Inputs
  BY <1>2, InputBound DEF TypeInv, TypeOK, ThreadType, Counts, InputsCounted,
                          Threads
<1>4. Taken = <<current[t]>> /\ Taken' = << >> /\ Queued' = Queued
      /\ InHand' = InHand
  BY <1>1, <1>2 DEF Taken, Queued, InHand
<1>5. started' = started \o Taken /\ started' \in Seq(Inputs)
  BY <1>1, <1>3, <1>4, LineParts, AppendElement
<1>6. started' \o Taken' = started \o Taken
  BY <1>4, <1>5, ConcatEmptySeq
<1>7. Line' = Line
  BY <1>4, <1>6 DEF Line
<1> QED
  BY <1>1, <1>7 DEF LineInv, InputsRunInOrder

LEMMA AgentKeepsLine ==
  ASSUME TypeInv, LineInv, NEW t \in Threads, Agent(t)
  PROVE  LineInv'
<1>1. CASE EnterRun(t) \/ DrainNext(t)
  BY <1>1, EnterRunKeepsLine, DrainKeepsLine
<1>2. CASE SetBusy(t) \/ EchoInput(t)
  <2>1. PICK from \in {"starting", "echo"} : Goes(t, from, "enter")
    BY <1>2 DEF SetBusy, EchoInput
  <2>2. UNCHANGED <<agent, current, started, pending, input, dropped,
                    submitted>>
    BY <1>2 DEF SetBusy, EchoInput, sharedVars, uiVars
  <2>3. agent # 0 /\ thread[agent] = from /\ thread'[agent] = "enter"
    BY <2>1, <2>2, OnlyLastThreadMoves DEF ThreadPoints, BusyPoints, RunPoints
  <2>4. Taken' = Taken
    BY <2>2, <2>3 DEF Taken
  <2> QED
    BY <2>2, <2>4, LineStays
<1>3. CASE \/ TurnStart(t) \/ Ask(t) \/ Answered(t) \/ RunEnds(t)
           \/ DrainEmpty(t) \/ Finish(t)
  <2> DEFINE P == {"entered", "running", "waiting", "drain", "finish", "done"}
  <2>1. PICK from \in P \ {"done"}, to \in P : Goes(t, from, to)
    BY <1>3 DEF TurnStart, Ask, Answered, RunEnds, DrainEmpty, Finish
  <2>2. UNCHANGED <<agent, current, started, pending, input, dropped,
                    submitted>>
    BY <1>3 DEF TurnStart, Ask, Answered, RunEnds, DrainEmpty, Finish,
                sharedVars, uiVars
  <2>3. agent # 0 /\ thread[agent] = from /\ thread'[agent] = to
    BY <2>1, <2>2, OnlyLastThreadMoves DEF ThreadPoints, BusyPoints, RunPoints
  <2>4. Taken' = Taken
    BY <2>1, <2>2, <2>3 DEF Taken
  <2> QED
    BY <2>2, <2>4, LineStays
<1> QED
  BY <1>1, <1>2, <1>3 DEF Agent

LEMMA NextLineInv ==
  TypeInv /\ BusyInv /\ HandInv /\ LineInv /\ [Next]_vars => LineInv'
<1> SUFFICES ASSUME TypeInv, BusyInv, HandInv, LineInv, [Next]_vars
             PROVE  LineInv'
  OBVIOUS
<1>1. CASE \/ CtrlC \/ Quit \/ SessionOp \/ InterruptAgent \/ SessionOpEnds
           \/ RunTask \/ Leave \/ Left \/ Decide \/ UNCHANGED vars
  <2>1. UNCHANGED <<started, pending, input, dropped, submitted, thread,
                    agent, current>>
    BY <1>1 DEF CtrlC, Quit, SessionOp, InterruptAgent, SessionOpEnds,
       RunTask, Leave, Left, Decide, vars, uiVars, sharedVars, threadVars
  <2>2. Taken' = Taken
    BY <2>1 DEF Taken
  <2> QED
    BY <2>1, <2>2, LineStays
<1>2. CASE Submit \/ SkillCommand \/ QueueInput \/ RunAgent \/ ClearPending
  BY <1>2, EnterKeepsLine, QueueKeepsLine, RunAgentKeepsLine, ClearKeepsLine
<1>3. CASE \E t \in Threads : Agent(t)
  BY <1>3, AgentKeepsLine
<1> QED
  BY <1>1, <1>2, <1>3 DEF Next, User, Ui

LEMMA InitLine == Init => HandInv /\ LineInv
<1> SUFFICES ASSUME Init PROVE HandInv /\ LineInv
  OBVIOUS
<1>1. input = 0 /\ ui = "loop" /\ agent = 0 /\ started = << >>
      /\ pending = << >> /\ submitted = 0 /\ dropped = {}
  BY DEF Init
<1>2. Taken = << >> /\ Queued = << >> /\ InHand = << >>
  <2>1. Len(pending) = 0
    BY <1>1
  <2> QED
    BY <1>1, <2>1 DEF Taken, Queued, InHand
<1>3. Line = << >>
  BY <1>1, <1>2 DEF Line
<1>4. Len(Line) = 0
  BY <1>3
<1> QED
  BY <1>1, <1>4 DEF HandInv, LineInv, InputsRunInOrder

LEMMA LineInvariant == Spec => [](HandInv /\ LineInv)
  BY InitLine, TypeInvariant, BusyInvariant, NextHandInv, NextLineInv, PTL
     DEF Spec

\* The inputs that Ctrl+C did not drop run once each and in the order in
\* which they were entered, by whatever way they got to run().
THEOREM RunInOrder == Spec => []InputsRunInOrder
  BY LineInvariant, PTL DEF LineInv
------------------------------------------------------------------------------
(* What the chat shows *)

\* Each visible input is visible once.
Distinct ==
  /\ \A i, j \in 1..Len(shown) : shown[i] = shown[j] => i = j
  /\ \A i, j \in Echoes : tasks[i].id = tasks[j].id => i = j
  /\ \A i \in 1..Len(shown), j \in Echoes : shown[i] # tasks[j].id

\* An input becomes visible on its way: when it is taken in with no run going
\* on, when it is queued after the turn's output, or else when a thread takes
\* it from the queue; PendingInput::echoed and the places of the threads keep
\* account of which of these has happened.
OnTheWay ==
  /\ ui = "queue" => input \notin Visible
  /\ ui = "direct" => input \in Visible
  /\ \A i \in 1..Len(pending) :
       pending[i].echoed <=> pending[i].id \in Visible
  /\ LastThread({"echo"}) => current[agent] \notin Visible
  /\ LastThread({"starting", "enter"}) => current[agent] \in Visible
  /\ Elements(started) \subseteq Visible

VisibleInv == Distinct /\ OnTheWay /\ Visible \subseteq 1..submitted

\* Steps that show nothing.
LEMMA NothingShown ==
  ASSUME UNCHANGED <<shown, tasks>>
  PROVE  Visible' = Visible /\ (Distinct => Distinct')
  BY DEF Visible, Echoes, Distinct

\* A closure of another kind is posted.
LEMMA PostShowsNothing ==
  ASSUME TypeInv, NEW kind \in {"turn_start", "turn_end", "exit"},
         Post(kind, 0), UNCHANGED shown
  PROVE  Visible' = Visible /\ (Distinct => Distinct')
<1>1. [kind |-> kind, id |-> 0] \in Task /\ tasks \in Seq(Task)
      /\ tasks' = Append(tasks, [kind |-> kind, id |-> 0])
  BY DEF TypeInv, TypeOK, Post, Task
<1>2. /\ Len(tasks') = Len(tasks) + 1 /\ Len(tasks) \in Nat
      /\ \A i \in 1..Len(tasks) : tasks'[i] = tasks[i]
      /\ tasks'[Len(tasks) + 1] = [kind |-> kind, id |-> 0]
  BY <1>1, AppendProperties, LenProperties
<1>3. tasks'[Len(tasks) + 1].kind # "echo"
  BY <1>2
<1>4. \A i \in 1..Len(tasks') : i \in 1..Len(tasks) \/ i = Len(tasks) + 1
  BY <1>2
<1>5. Echoes' = Echoes /\ \A i \in Echoes : tasks'[i] = tasks[i]
  BY <1>2, <1>3, <1>4 DEF Echoes
<1> QED
  BY <1>5 DEF Visible, Distinct

\* An input is appended to the chat: it is visible now, and was not before.
LEMMA Shows ==
  ASSUME TypeInv, NEW x \in Inputs, shown' = Append(shown, x),
         UNCHANGED tasks
  PROVE  /\ Visible' = Visible \cup {x}
         /\ Distinct /\ x \notin Visible => Distinct'
<1>1. shown \in Seq(Inputs)
  BY DEF TypeInv, TypeOK, UiType
<1>2. /\ Len(shown') = Len(shown) + 1 /\ Len(shown) \in Nat
      /\ \A i \in 1..Len(shown) : shown'[i] = shown[i]
      /\ shown'[Len(shown) + 1] = x
  BY <1>1, AppendProperties, LenProperties
<1>3. \A i \in 1..Len(shown') : i \in 1..Len(shown) \/ i = Len(shown) + 1
  BY <1>2
<1>4. Echoes' = Echoes
  BY DEF Echoes
<1>5. {shown'[i] : i \in 1..Len(shown')}
        = {shown[i] : i \in 1..Len(shown)} \cup {x}
  BY <1>2, <1>3
<1>6. Visible' = Visible \cup {x}
  BY <1>4, <1>5 DEF Visible
<1>7. ASSUME Distinct, x \notin Visible PROVE Distinct'
  <2>1. /\ \A i \in 1..Len(shown) : shown[i] # x
        /\ \A j \in Echoes : tasks[j].id # x
    BY <1>7 DEF Visible
  <2> QED
    BY <1>2, <1>3, <1>4, <1>7, <2>1 DEF Distinct
<1> QED
  BY <1>6, <1>7

\* The closure that will show an input is posted.
LEMMA EchoShows ==
  ASSUME TypeInv, NEW x \in Inputs, Post("echo", x), UNCHANGED shown
  PROVE  /\ Visible' = Visible \cup {x}
         /\ Distinct /\ x \notin Visible => Distinct'
<1>1. [kind |-> "echo", id |-> x] \in Task /\ tasks \in Seq(Task)
      /\ tasks' = Append(tasks, [kind |-> "echo", id |-> x])
  BY DEF TypeInv, TypeOK, Post, Task
<1>2. /\ Len(tasks') = Len(tasks) + 1 /\ Len(tasks) \in Nat
      /\ \A i \in 1..Len(tasks) : tasks'[i] = tasks[i]
      /\ tasks'[Len(tasks) + 1] = [kind |-> "echo", id |-> x]
  BY <1>1, AppendProperties, LenProperties
<1>3. tasks'[Len(tasks) + 1].kind = "echo" /\ tasks'[Len(tasks) + 1].id = x
  BY <1>2
<1>4. \A i \in 1..Len(tasks') : i \in 1..Len(tasks) \/ i = Len(tasks) + 1
  BY <1>2
<1>5. Echoes' = Echoes \cup {Len(tasks) + 1}
      /\ \A i \in Echoes : tasks'[i] = tasks[i] /\ i # Len(tasks) + 1
  BY <1>2, <1>3, <1>4 DEF Echoes
<1>6. Visible' = Visible \cup {x}
  BY <1>3, <1>5 DEF Visible
<1>7. ASSUME Distinct, x \notin Visible PROVE Distinct'
  <2>1. /\ \A i \in 1..Len(shown) : shown[i] # x
        /\ \A j \in Echoes : tasks[j].id # x
    BY <1>7 DEF Visible
  <2> QED
    BY <1>3, <1>5, <1>7, <2>1 DEF Distinct
<1> QED
  BY <1>6, <1>7

\* A posted closure runs: an input to show goes from the closures to the chat.
LEMMA RunTaskShows ==
  ASSUME TypeInv, RunTask
  PROVE  Visible' = Visible /\ (Distinct => Distinct')
<1>1. tasks # << >> /\ tasks \in Seq(Task) /\ tasks' = Tail(tasks)
      /\ shown \in Seq(Inputs)
  BY DEF RunTask, TypeInv, TypeOK, UiType
<1>2. /\ Len(tasks) \in Nat /\ Len(tasks') = Len(tasks) - 1
      /\ \A i \in 1..Len(tasks') : tasks'[i] = tasks[i + 1]
      /\ Head(tasks) = tasks[1] /\ Head(tasks) \in Task /\ Len(tasks) >= 1
  BY <1>1, HeadTailProperties, LenProperties, EmptySeq
<1>3. \A i \in Echoes' : i + 1 \in Echoes /\ tasks'[i] = tasks[i + 1]
  BY <1>2 DEF Echoes
<1>4. \A i \in Echoes : i = 1 \/ (i - 1 \in Echoes' /\ tasks'[i - 1] = tasks[i])
  <2> SUFFICES ASSUME NEW i \in Echoes, i # 1
               PROVE  i - 1 \in Echoes' /\ tasks'[i - 1] = tasks[i]
    OBVIOUS
  <2>1. i \in 1..Len(tasks) /\ tasks[i].kind = "echo"
    BY DEF Echoes
  <2>2. i - 1 \in 1..Len(tasks') /\ (i - 1) + 1 = i
    BY <1>2, <2>1
  <2>3. tasks'[i - 1] = tasks[i]
    BY <1>2, <2>2
  <2> QED
    BY <2>1, <2>2, <2>3 DEF Echoes
<1>5. CASE Head(tasks).kind # "echo"
  <2>1. shown' = shown
    BY <1>5 DEF RunTask
  <2>2. 1 \notin Echoes
    BY <1>2, <1>5 DEF Echoes
  <2>3. \A i \in Echoes : i - 1 \in Echoes' /\ tasks'[i - 1] = tasks[i]
    BY <1>4, <2>2
  <2>4. {tasks'[i].id : i \in Echoes'} = {tasks[i].id : i \in Echoes}
    BY <1>3, <2>3
  <2>5. Visible' = Visible
    BY <2>1, <2>4 DEF Visible
  <2>6. ASSUME Distinct PROVE Distinct'
    <3>1. ASSUME NEW i \in Echoes', NEW j \in Echoes',
                 tasks'[i].id = tasks'[j].id
          PROVE  i = j
      <4>1. i + 1 = j + 1
        BY <1>3, <2>6, <3>1 DEF Distinct
      <4> QED
        BY <4>1 DEF Echoes
    <3>2. \A i \in 1..Len(shown), j \in Echoes' : shown[i] # tasks'[j].id
      BY <1>3, <2>6 DEF Distinct
    <3> QED
      BY <2>1, <2>6, <3>1, <3>2 DEF Distinct
  <2> QED
    BY <2>5, <2>6
<1>6. CASE Head(tasks).kind = "echo"
  <2> DEFINE x == Head(tasks).id
  <2>1. shown' = Append(shown, x) /\ x \in Inputs
    BY <1>2, <1>6 DEF RunTask, Task
  <2>2. 1 \in Echoes /\ tasks[1].id = x
    BY <1>2, <1>6 DEF Echoes
  <2> HIDE DEF x
  <2>3. /\ Len(shown') = Len(shown) + 1 /\ Len(shown) \in Nat
        /\ \A i \in 1..Len(shown) : shown'[i] = shown[i]
        /\ shown'[Len(shown) + 1] = x
    BY <1>1, <2>1, AppendProperties, LenProperties
  <2>4. \A i \in 1..Len(shown') : i \in 1..Len(shown) \/ i = Len(shown) + 1
    BY <2>3
  <2>5. {shown'[i] : i \in 1..Len(shown')}
          = {shown[i] : i \in 1..Len(shown)} \cup {x}
    BY <2>3, <2>4
  <2>6. {tasks[i].id : i \in Echoes} = {tasks'[i].id : i \in Echoes'} \cup {x}
    BY <1>3, <1>4, <2>2
  <2>7. Visible' = Visible
    BY <2>5, <2>6 DEF Visible
  <2>8. ASSUME Distinct PROVE Distinct'
    <3>1. ASSUME NEW i \in Echoes'
          PROVE  /\ tasks'[i].id # x
                 /\ \A j \in 1..Len(shown) : shown[j] # tasks'[i].id
      <4>1. i + 1 \in Echoes /\ tasks'[i] = tasks[i + 1] /\ i + 1 # 1
        BY <1>3 DEF Echoes
      <4> QED
        BY <2>2, <2>8, <4>1 DEF Distinct
    <3>2. ASSUME NEW i \in Echoes', NEW j \in Echoes',
                 tasks'[i].id = tasks'[j].id
          PROVE  i = j
      <4>1. i + 1 = j + 1
        BY <1>3, <2>8, <3>2 DEF Distinct
      <4> QED
        BY <4>1 DEF Echoes
    <3>3. \A i \in 1..Len(shown) : shown[i] # x
      BY <2>2, <2>8 DEF Distinct
    <3>4. \A i \in 1..Len(shown'), j \in Echoes' : shown'[i] # tasks'[j].id
      BY <2>3, <2>4, <3>1
    <3>5. \A i, j \in 1..Len(shown') : shown'[i] = shown'[j] => i = j
      BY <2>3, <2>4, <2>8, <3>3 DEF Distinct
    <3> QED
      BY <3>2, <3>4, <3>5 DEF Distinct
  <2> QED
    BY <2>7, <2>8
<1> QED
  BY <1>5, <1>6
\* Steps that move no input: nothing becomes visible, and no thread gets to
\* where it has an input to run.
LEMMA NoInputMoves ==
  ASSUME OnTheWay, Visible' = Visible,
         UNCHANGED <<input, pending, started, current, agent>>,
         ui' \in {"queue", "direct"} => ui' = ui,
         LastThread({"echo"})' => LastThread({"echo"}),
         LastThread({"starting", "enter"})' => LastThread({"starting", "enter"})
  PROVE  OnTheWay'
  BY DEF OnTheWay, Elements

\* The inputs on the line are distinct.
LEMMA LineApart ==
  ASSUME TypeInv, LineInv
  PROVE  /\ \A i \in 1..Len(pending) : pending[i].id \in 1..submitted
         /\ \A i, j \in 1..Len(pending) :
              i < j => pending[i].id < pending[j].id
         /\ input # 0 => \A i \in 1..Len(pending) : pending[i].id # input
         /\ LastThread({"starting", "echo", "enter"}) =>
              /\ current[agent] \in 1..submitted
              /\ input # 0 => current[agent] # input
              /\ \A i \in 1..Len(pending) : pending[i].id # current[agent]
<1> DEFINE A == started \o Taken
           B == A \o Queued
<1>1. /\ started \in Seq(Inputs) /\ Taken \in Seq(Inputs)
      /\ Queued \in Seq(Inputs) /\ InHand \in Seq(Inputs)
  BY LineParts
<1>2. A \in Seq(Inputs) /\ Elements(A) = Elements(started) \cup Elements(Taken)
  BY <1>1, Prefix
<1>3. B \in Seq(Inputs) /\ Elements(B) = Elements(A) \cup Elements(Queued)
  <2> HIDE DEF A
  <2> QED
    BY <1>1, <1>2, Prefix
<1>4. Line = B \o InHand
  BY DEF Line
<1> HIDE DEF B
<1>5. /\ Increasing(B)
      /\ \A i \in 1..Len(B), j \in 1..Len(InHand) : B[i] < InHand[j]
      /\ Elements(Line) = Elements(B) \cup Elements(InHand)
  BY <1>1, <1>3, <1>4, LineInvIs, Prefix
<1>6. \A i \in 1..Len(A), j \in 1..Len(Queued) : A[i] < Queued[j]
  <2> HIDE DEF A
  <2> QED
    BY <1>1, <1>2, <1>5, Prefix DEF B
<1> HIDE DEF A
<1>7. \A x \in Elements(Taken), y \in Elements(Queued) : x < y
  BY <1>2, <1>6 DEF Elements
<1>8. \A x \in Elements(Taken) \cup Elements(Queued), y \in Elements(InHand) :
        x < y
  <2>1. \A x \in Elements(B), y \in Elements(InHand) : x < y
    BY <1>5 DEF Elements
  <2>2. Elements(Taken) \cup Elements(Queued) \subseteq Elements(B)
    BY <1>2, <1>3
  <2> QED
    BY <2>1, <2>2
<1>9. Elements(Taken) \cup Elements(Queued) \subseteq 1..submitted
  BY <1>2, <1>3, <1>5, LineInvIs
<1>10. \A i \in 1..Len(pending) : pending[i].id \in Elements(Queued)
  BY LineParts
<1>11. input # 0 => input \in Elements(InHand)
  BY DEF InHand, Elements
<1>12. LastThread({"starting", "echo", "enter"}) =>
         current[agent] \in Elements(Taken)
  BY DEF LastThread, Taken, Elements
<1>13. ASSUME NEW i \in 1..Len(pending), NEW j \in 1..Len(pending), i < j
       PROVE  pending[i].id < pending[j].id
  <2>1. Len(pending) \in Nat
    BY LenProperties DEF TypeInv, TypeOK, SharedType
  <2>2. Len(Queued) = Len(pending) /\ Queued[i] = pending[i].id
        /\ Queued[j] = pending[j].id
    BY <1>1, <2>1 DEF Queued
  <2>3. Increasing(Queued)
    <3>1. Len(A) \in Nat /\ Len(Queued) \in Nat /\ Len(B) = Len(A) + Len(Queued)
          /\ \A n \in 1..Len(A) + Len(Queued) :
               B[n] = IF n <= Len(A) THEN A[n] ELSE Queued[n - Len(A)]
      BY <1>1, <1>2, ConcatProperties, LenProperties DEF B
    <3>2. ASSUME NEW n \in 1..Len(Queued)
          PROVE  Len(A) + n \in 1..Len(B) /\ B[Len(A) + n] = Queued[n]
      <4>1. /\ Len(A) + n \in 1..Len(A) + Len(Queued)
            /\ ~(Len(A) + n <= Len(A)) /\ (Len(A) + n) - Len(A) = n
        BY <3>1
      <4> QED
        BY <3>1, <4>1
    <3>3. ASSUME NEW m \in 1..Len(Queued), NEW n \in 1..Len(Queued), m < n
          PROVE  Queued[m] < Queued[n]
      <4>1. Len(A) + m < Len(A) + n
        BY <3>1, <3>3
      <4> QED
        BY <1>5, <3>2, <4>1 DEF Increasing
    <3> QED
      BY <3>3 DEF Increasing
  <2> QED
    BY <1>13, <2>2, <2>3 DEF Increasing
<1>14. \A x, y \in 1..submitted : x < y => x # y
  BY InputBound DEF TypeInv, TypeOK, UiType
<1>15. \A i \in 1..Len(pending) : pending[i].id \in 1..submitted
  BY <1>9, <1>10
<1>16. input # 0 => \A x \in Elements(Taken) \cup Elements(Queued) : x # input
  <2>1. input \in Nat /\ submitted \in Nat
    BY InputBound DEF TypeInv, TypeOK, UiType
  <2>2. \A x \in 1..submitted : x < input => x # input
    BY <2>1
  <2> QED
    BY <1>8, <1>9, <1>11, <2>2
<1>17. \A x \in Elements(Taken), y \in Elements(Queued) : x # y
  BY <1>7, <1>9, <1>14
<1> QED
  BY <1>9, <1>10, <1>12, <1>13, <1>15, <1>16, <1>17

------------------------------------------------------------------------------

LEMMA EnterVisible ==
  ASSUME TypeInv, LineInv, VisibleInv, Submit \/ SkillCommand
  PROVE  VisibleInv'
<1>1. /\ submitted' = submitted + 1 /\ input' = submitted + 1
      /\ submitted < MaxInputs
      /\ UNCHANGED <<pending, started, thread, agent, current, tasks>>
      /\ \/ ui' = "queue" /\ shown' = shown
         \/ ui' = "direct" /\ shown' = Append(shown, input')
  BY DEF Submit, SkillCommand, sharedVars, threadVars
<1> DEFINE x == submitted + 1
<1>2. submitted \in Nat /\ x \in Inputs /\ x \notin 1..submitted
  BY <1>1, InputBound DEF TypeInv, TypeOK, UiType, Inputs
<1>3. 1..submitted' = 1..submitted \cup {x}
  BY <1>1, <1>2
<1> HIDE DEF x
<1>4. x \notin Visible /\ input' = x
  BY <1>1, <1>2 DEF VisibleInv, x
<1>5. /\ Distinct' /\ Visible' \subseteq Visible \cup {x}
      /\ Visible \subseteq Visible'
      /\ ui' = "queue" => Visible' = Visible
      /\ ui' = "direct" => x \in Visible'
  BY <1>1, <1>2, <1>4, NothingShown, Shows DEF VisibleInv
<1>6. \A i \in 1..Len(pending) : pending[i].id # x
  BY <1>2, LineApart
<1>7. LastThread({"echo"}) => current[agent] # x
  BY <1>2, LineApart DEF LastThread
<1>8. \A S : LastThread(S)' <=> LastThread(S)
  BY <1>1 DEF LastThread
<1>9. OnTheWay
  BY DEF VisibleInv
<1>10. OnTheWay'
  <2>1. /\ ui' = "queue" => input' \notin Visible'
        /\ ui' = "direct" => input' \in Visible'
    BY <1>4, <1>5
  <2>2. \A i \in 1..Len(pending') :
          pending'[i].echoed <=> pending'[i].id \in Visible'
    BY <1>1, <1>5, <1>6, <1>9 DEF OnTheWay
  <2>3. LastThread({"echo"})' => current'[agent'] \notin Visible'
    BY <1>1, <1>5, <1>7, <1>8, <1>9 DEF OnTheWay
  <2>4. LastThread({"starting", "enter"})' => current'[agent'] \in Visible'
    BY <1>1, <1>5, <1>8, <1>9 DEF OnTheWay
  <2>5. Elements(started') \subseteq Visible'
    BY <1>1, <1>5, <1>9 DEF OnTheWay
  <2> QED
    BY <2>1, <2>2, <2>3, <2>4, <2>5 DEF OnTheWay, Elements
<1> QED
  BY <1>3, <1>5, <1>10 DEF VisibleInv

LEMMA QueueVisible ==
  ASSUME TypeInv, BusyInv, HandInv, LineInv, VisibleInv, QueueInput
  PROVE  VisibleInv'
<1>1. /\ ui = "queue"
      /\ UNCHANGED <<started, thread, agent, current, submitted, tasks>>
  BY DEF QueueInput, threadVars
<1>2. input \in Inputs /\ input # 0 /\ input \notin Visible
      /\ submitted \in Nat /\ input \in 1..submitted
  <2>1. input \in Inputs /\ submitted \in Nat
    BY <1>1, InputBound
       DEF TypeInv, TypeOK, UiType, Counts, InputsCounted
  <2>2. input # 0 /\ input \notin Visible
    BY <1>1, <2>1 DEF Inputs, VisibleInv, OnTheWay
  <2>3. input \in Elements(InHand)
    BY <2>2 DEF InHand, Elements
  <2>4. Elements(InHand) \subseteq Elements(Line)
    BY ZenonT(30), LineParts, Prefix, ConcatProperties DEF Line
  <2> QED
    BY <2>1, <2>2, <2>3, <2>4, LineInvIs
<1>3. OnTheWay /\ Distinct /\ Visible \subseteq 1..submitted
  BY DEF VisibleInv
<1>4. /\ \A i \in 1..Len(pending) : pending[i].id # input
      /\ LastThread({"echo"}) => current[agent] # input
  BY <1>2, LineApart DEF LastThread
<1>5. \A S : LastThread(S)' <=> LastThread(S)
  BY <1>1 DEF LastThread
<1>6. ASSUME Visible \subseteq Visible', Visible' \subseteq Visible \cup {input}
      PROVE  /\ LastThread({"echo"})' => current'[agent'] \notin Visible'
             /\ LastThread({"starting", "enter"})' =>
                  current'[agent'] \in Visible'
             /\ Elements(started)' \subseteq Visible'
             /\ \A i \in 1..Len(pending) :
                  pending[i].echoed <=> pending[i].id \in Visible'
             /\ Visible' \subseteq 1..submitted'
  <2>1. Elements(started)' = Elements(started)
    BY <1>1 DEF Elements
  <2>2. /\ LastThread({"echo"})' => current'[agent'] \notin Visible'
        /\ LastThread({"starting", "enter"})' => current'[agent'] \in Visible'
    BY <1>1, <1>3, <1>4, <1>5, <1>6 DEF OnTheWay
  <2>3. \A i \in 1..Len(pending) :
          pending[i].echoed <=> pending[i].id \in Visible'
    BY <1>3, <1>4, <1>6 DEF OnTheWay
  <2>4. Visible' \subseteq 1..submitted'
    BY <1>1, <1>2, <1>3, <1>6
  <2>5. Elements(started)' \subseteq Visible'
    BY <1>3, <1>6, <2>1 DEF OnTheWay
  <2> QED
    BY <2>2, <2>3, <2>4, <2>5
<1>7. CASE ~UNCHANGED <<pending, input>>
  <2> DEFINE r == [id |-> input, echoed |-> output_done]
  <2>1. /\ pending' = Append(pending, r) /\ ui' = "loop"
        /\ shown' = IF output_done THEN Append(shown, input) ELSE shown
    BY <1>7 DEF QueueInput
  <2>2. output_done \in BOOLEAN /\ r \in [id : Inputs, echoed : BOOLEAN]
        /\ pending \in Seq([id : Inputs, echoed : BOOLEAN])
        /\ r.id = input
    BY <1>2 DEF TypeInv, TypeOK, SharedType
  <2>3. r.echoed <=> output_done
    OBVIOUS
  <2> HIDE DEF r
  <2>4. /\ Len(pending') = Len(pending) + 1 /\ Len(pending) \in Nat
        /\ \A i \in 1..Len(pending) : pending'[i] = pending[i]
        /\ pending'[Len(pending) + 1] = r
    BY <2>1, <2>2, AppendProperties, LenProperties
  <2>5. \A i \in 1..Len(pending') : i \in 1..Len(pending) \/ i = Len(pending) + 1
    BY <2>4
  <2>6. /\ Distinct'
        /\ output_done => Visible' = Visible \cup {input}
        /\ ~output_done => Visible' = Visible
    BY <1>1, <1>2, <1>3, <2>1, <2>2, NothingShown, Shows
  <2>7. r.echoed <=> r.id \in Visible'
    BY <1>2, <2>2, <2>3, <2>6
  <2>8. Visible \subseteq Visible' /\ Visible' \subseteq Visible \cup {input}
    BY <2>2, <2>6
  <2>9. \A i \in 1..Len(pending') :
          pending'[i].echoed <=> pending'[i].id \in Visible'
    BY <1>6, <2>4, <2>5, <2>7, <2>8
  <2>10. OnTheWay'
    BY <1>6, <2>1, <2>8, <2>9 DEF OnTheWay
  <2> QED
    BY <1>6, <2>6, <2>8, <2>10 DEF VisibleInv
<1>8. CASE UNCHANGED <<pending, input>>
  <2>1. shown' = Append(shown, input) /\ ui' = "direct"
    BY <1>2, <1>8 DEF QueueInput
  <2>2. Distinct' /\ Visible' = Visible \cup {input}
    BY <1>1, <1>2, <1>3, <2>1, Shows
  <2>3. Visible \subseteq Visible' /\ Visible' \subseteq Visible \cup {input}
        /\ input \in Visible'
    BY <2>2
  <2>4. OnTheWay'
    BY <1>6, <1>8, <2>1, <2>3 DEF OnTheWay
  <2> QED
    BY <1>6, <2>2, <2>3, <2>4 DEF VisibleInv
<1> QED
  BY <1>7, <1>8

LEMMA RunAgentVisible ==
  ASSUME TypeInv, VisibleInv, RunAgent
  PROVE  VisibleInv'
<1>1. /\ agent' = agent + 1 /\ ui' = "loop" /\ ui = "direct"
      /\ thread' = [thread EXCEPT ![agent'] = "starting"]
      /\ current' = [current EXCEPT ![agent'] = input]
      /\ UNCHANGED <<submitted, shown, pending, started, tasks>>
  BY DEF RunAgent, Spawn, sharedVars
<1>2. Visible' = Visible /\ Distinct' /\ input \in Visible
  BY <1>1, NothingShown DEF VisibleInv, OnTheWay
<1>3. thread'[agent'] = "starting" /\ current'[agent'] = input
  <2>1. /\ agent \in 0..MaxInputs /\ submitted \in 0..MaxInputs
        /\ agent < submitted /\ thread \in [Threads -> ThreadPoints]
        /\ current \in [Threads -> 0..MaxInputs]
    BY <1>1 DEF TypeInv, TypeOK, UiType, ThreadType, Counts, InputsCounted
  <2>2. agent' \in Threads
    BY <1>1, <2>1, InputBound DEF Threads
  <2> QED
    BY <1>1, <2>1, <2>2
<1>4. ~LastThread({"echo"})'
  BY <1>3 DEF LastThread
<1>5. OnTheWay'
  BY <1>1, <1>2, <1>3, <1>4 DEF OnTheWay, VisibleInv, Elements
<1> QED
  BY <1>1, <1>2, <1>5 DEF VisibleInv

LEMMA DrainVisible ==
  ASSUME TypeInv, VisibleInv, NEW t \in Threads, DrainNext(t)
  PROVE  VisibleInv'
<1>1. /\ pending # << >> /\ pending' = Tail(pending)
      /\ current' = [current EXCEPT ![t] = Head(pending).id]
      /\ Goes(t, "drain", IF Head(pending).echoed THEN "enter" ELSE "echo")
      /\ UNCHANGED <<ui, input, shown, submitted, agent, started, tasks>>
  BY DEF DrainNext, uiVars
<1>2. Visible' = Visible /\ Distinct' /\ OnTheWay
  BY <1>1, NothingShown DEF VisibleInv
<1>3. PICK to \in {"enter", "echo"} :
        Goes(t, "drain", to) /\ (to = "enter" <=> Head(pending).echoed)
  BY <1>1
<1>4. t = agent /\ agent # 0 /\ thread'[agent] = to
  BY <1>1, <1>3, OnlyLastThreadMoves DEF ThreadPoints, BusyPoints, RunPoints
<1>5. current'[agent] = Head(pending).id
  BY <1>1, <1>4 DEF TypeInv, TypeOK, ThreadType
<1>6. /\ Len(pending) \in Nat /\ Len(pending') = Len(pending) - 1
      /\ \A i \in 1..Len(pending') : pending'[i] = pending[i + 1]
      /\ Head(pending) = pending[1] /\ 1 \in 1..Len(pending)
  <2>1. pending \in Seq([id : Inputs, echoed : BOOLEAN])
    BY DEF TypeInv, TypeOK, SharedType
  <2> QED
    BY <1>1, <2>1, HeadTailProperties, LenProperties, EmptySeq
<1>7. Head(pending).echoed <=> Head(pending).id \in Visible
  BY <1>2, <1>6 DEF OnTheWay
<1>8. \A i \in 1..Len(pending') :
        pending'[i].echoed <=> pending'[i].id \in Visible
  <2>1. \A i \in 1..Len(pending') : i + 1 \in 1..Len(pending)
    BY <1>6
  <2> QED
    BY <1>2, <1>6, <2>1 DEF OnTheWay
<1>9. /\ LastThread({"echo"})' => current'[agent'] \notin Visible'
      /\ LastThread({"starting", "enter"})' => current'[agent'] \in Visible'
  BY <1>1, <1>2, <1>3, <1>4, <1>5, <1>7 DEF LastThread
<1>10. OnTheWay'
  BY <1>1, <1>2, <1>8, <1>9 DEF OnTheWay, Elements
<1> QED
  BY <1>1, <1>2, <1>10 DEF VisibleInv

LEMMA EchoVisible ==
  ASSUME TypeInv, LineInv, HandInv, VisibleInv, NEW t \in Threads,
         EchoInput(t)
  PROVE  VisibleInv'
<1>1. /\ Goes(t, "echo", "enter") /\ Post("echo", current[t])
      /\ UNCHANGED <<ui, input, shown, submitted, pending, agent, current,
                     started>>
  BY DEF EchoInput, uiVars, sharedVars
<1>2. t = agent /\ agent # 0 /\ thread[agent] = "echo"
      /\ thread'[agent] = "enter"
  BY <1>1, OnlyLastThreadMoves DEF ThreadPoints, BusyPoints, RunPoints
<1> DEFINE x == current[agent]
<1>3. x \in Inputs
  BY <1>2, InputBound DEF TypeInv, TypeOK, ThreadType, Counts, InputsCounted,
                          Threads
<1>4. LastThread({"echo"}) /\ LastThread({"starting", "echo", "enter"})
      /\ OnTheWay /\ Distinct
  BY <1>2 DEF LastThread, VisibleInv
<1>5. /\ x \notin Visible /\ x \in 1..submitted
      /\ input # 0 => x # input
      /\ \A i \in 1..Len(pending) : pending[i].id # x
  BY <1>4, LineApart DEF OnTheWay
<1>6. Visible' = Visible \cup {x} /\ Distinct'
  <2>1. Post("echo", x) /\ shown' = shown
    BY <1>1, <1>2
  <2> HIDE DEF x
  <2> QED
    BY <1>3, <1>4, <1>5, <2>1, EchoShows
<1>7. ~LastThread({"echo"})' /\ current'[agent'] = x
  BY <1>1, <1>2 DEF LastThread
<1>8. OnTheWay'
  <2>1. /\ ui' = "queue" => input' \notin Visible'
        /\ ui' = "direct" => input' \in Visible'
    BY <1>1, <1>4, <1>5, <1>6 DEF OnTheWay, HandInv
  <2>2. \A i \in 1..Len(pending') :
          pending'[i].echoed <=> pending'[i].id \in Visible'
    BY <1>1, <1>4, <1>5, <1>6 DEF OnTheWay
  <2>3. Elements(started)' \subseteq Visible'
    BY <1>1, <1>4, <1>6 DEF OnTheWay, Elements
  <2> QED
    BY <1>6, <1>7, <2>1, <2>2, <2>3 DEF OnTheWay
<1> QED
  BY <1>1, <1>4, <1>5, <1>6, <1>8 DEF VisibleInv

LEMMA EnterRunVisible ==
  ASSUME TypeInv, VisibleInv, NEW t \in Threads, EnterRun(t)
  PROVE  VisibleInv'
<1>1. /\ Goes(t, "enter", "entered") /\ started' = Append(started, current[t])
      /\ UNCHANGED <<ui, input, shown, submitted, pending, agent, current,
                     tasks>>
  BY DEF EnterRun, uiVars
<1>2. t = agent /\ agent # 0 /\ thread[agent] = "enter"
      /\ thread'[agent] = "entered"
  BY <1>1, OnlyLastThreadMoves DEF ThreadPoints, BusyPoints, RunPoints
<1>3. Visible' = Visible /\ Distinct' /\ OnTheWay
  BY <1>1, NothingShown DEF VisibleInv
<1>4. current[t] \in Visible
  BY <1>2, <1>3 DEF OnTheWay, LastThread
<1>5. Elements(started)' = Elements(started) \cup {current[t]}
  <2>1. current[t] \in Inputs /\ started \in Seq(Inputs)
    BY <1>2, InputBound DEF TypeInv, TypeOK, ThreadType, Counts,
                            InputsCounted, Threads
  <2>2. Elements(started)' = Elements(started')
    BY DEF Elements
  <2> QED
    BY <1>1, <2>1, <2>2, AppendElement
<1>6. ~LastThread({"echo"})' /\ ~LastThread({"starting", "enter"})'
  BY <1>1, <1>2 DEF LastThread
<1>7. OnTheWay'
  BY <1>1, <1>3, <1>4, <1>5, <1>6 DEF OnTheWay
<1> QED
  BY <1>1, <1>3, <1>7 DEF VisibleInv

LEMMA AgentVisible ==
  ASSUME TypeInv, LineInv, HandInv, VisibleInv, NEW t \in Threads, Agent(t)
  PROVE  VisibleInv'
<1>1. CASE DrainNext(t) \/ EchoInput(t) \/ EnterRun(t)
  BY <1>1, DrainVisible, EchoVisible, EnterRunVisible
<1>2. CASE \/ SetBusy(t) \/ TurnStart(t) \/ Ask(t) \/ Answered(t)
           \/ RunEnds(t) \/ DrainEmpty(t) \/ Finish(t)
  <2>1. UNCHANGED <<ui, input, shown, submitted, pending, started, current,
                    agent>>
    BY <1>2 DEF SetBusy, TurnStart, Ask, Answered, RunEnds, DrainEmpty,
                Finish, uiVars, sharedVars
  <2>2. Visible' = Visible /\ Distinct'
    <3>1. CASE UNCHANGED tasks
      BY <2>1, <3>1, NothingShown DEF VisibleInv
    <3>2. CASE \E kind \in {"turn_start", "turn_end"} : Post(kind, 0)
      BY <2>1, <3>2, PostShowsNothing DEF VisibleInv
    <3> QED
      BY <1>2, <3>1, <3>2 DEF SetBusy, TurnStart, Ask, Answered, RunEnds,
                              DrainEmpty, Finish
  <2>3. /\ LastThread({"echo"})' => LastThread({"echo"})
        /\ LastThread({"starting", "enter"})' =>
             LastThread({"starting", "enter"})
    <3> DEFINE P == ThreadPoints \ {"none", "done"}
               Q == ThreadPoints \ {"none", "starting", "echo"}
    <3>1. PICK from \in P, to \in Q :
            Goes(t, from, to) /\ (to = "enter" => from = "starting")
      BY <1>2 DEF SetBusy, TurnStart, Ask, Answered, RunEnds, DrainEmpty,
                  Finish, ThreadPoints, BusyPoints, RunPoints
    <3>2. /\ \A S : LastThread(S) <=> from \in S
          /\ \A S : LastThread(S)' <=> to \in S
      BY <2>1, <3>1, LastThreadMoves
    <3> QED
      BY <3>1, <3>2
  <2>4. OnTheWay'
    BY <2>1, <2>2, <2>3, NoInputMoves DEF VisibleInv
  <2> QED
    BY <2>1, <2>2, <2>4 DEF VisibleInv
<1> QED
  BY <1>1, <1>2 DEF Agent

LEMMA NextVisibleInv ==
  TypeInv /\ BusyInv /\ HandInv /\ LineInv /\ VisibleInv /\ [Next]_vars
    => VisibleInv'
<1> SUFFICES ASSUME TypeInv, BusyInv, HandInv, LineInv, VisibleInv, [Next]_vars
             PROVE  VisibleInv'
  OBVIOUS
<1>1. CASE \/ CtrlC \/ Quit \/ SessionOp \/ InterruptAgent \/ SessionOpEnds
           \/ RunTask \/ Leave \/ Left \/ Decide \/ UNCHANGED vars
  <2>1. /\ UNCHANGED <<input, submitted, pending, started, thread, agent,
                       current>>
        /\ ui' \in {"queue", "direct"} => ui' = ui
    BY <1>1 DEF CtrlC, Quit, SessionOp, InterruptAgent, SessionOpEnds,
       RunTask, Leave, Left, Decide, vars, uiVars, sharedVars, threadVars
  <2>2. Visible' = Visible /\ Distinct'
    <3>1. CASE UNCHANGED <<shown, tasks>>
      BY <3>1, NothingShown DEF VisibleInv
    <3>2. CASE Quit
      BY <3>2, PostShowsNothing DEF Quit, uiVars, VisibleInv
    <3>3. CASE RunTask
      BY <3>3, RunTaskShows DEF VisibleInv
    <3> QED
      BY <1>1, <3>1, <3>2, <3>3
         DEF CtrlC, SessionOp, InterruptAgent, SessionOpEnds, Leave, Left,
             Decide, vars, uiVars
  <2>3. \A S : LastThread(S)' <=> LastThread(S)
    BY <2>1 DEF LastThread
  <2>4. OnTheWay'
    BY <2>1, <2>2, <2>3, NoInputMoves DEF VisibleInv
  <2> QED
    BY <2>1, <2>2, <2>4 DEF VisibleInv
<1>2. CASE ClearPending
  <2>1. /\ UNCHANGED <<input, submitted, shown, tasks, started, thread, agent,
                       current>>
        /\ pending' = << >> /\ ui' = "interrupt"
    BY <1>2 DEF ClearPending, threadVars
  <2>2. Visible' = Visible /\ Distinct'
    BY <2>1, NothingShown DEF VisibleInv
  <2>3. \A S : LastThread(S)' <=> LastThread(S)
    BY <2>1 DEF LastThread
  <2>4. Len(pending') = 0
    BY <2>1
  <2>5. OnTheWay'
    BY <2>1, <2>2, <2>3, <2>4 DEF OnTheWay, VisibleInv, Elements
  <2> QED
    BY <2>1, <2>2, <2>5 DEF VisibleInv
<1>3. CASE Submit \/ SkillCommand \/ QueueInput \/ RunAgent
  BY <1>3, EnterVisible, QueueVisible, RunAgentVisible
<1>4. CASE \E t \in Threads : Agent(t)
  BY <1>4, AgentVisible
<1> QED
  BY <1>1, <1>2, <1>3, <1>4 DEF Next, User, Ui

LEMMA InitVisible == Init => VisibleInv
<1> SUFFICES ASSUME Init PROVE VisibleInv
  OBVIOUS
<1>1. /\ Len(shown) = 0 /\ Len(tasks) = 0 /\ Len(pending) = 0
      /\ Len(started) = 0 /\ ui = "loop" /\ agent = 0 /\ submitted = 0
  BY DEF Init
<1>2. Echoes = {} /\ Visible = {} /\ Elements(started) = {}
  BY <1>1 DEF Echoes, Visible, Elements
<1> QED
  BY <1>1, <1>2 DEF VisibleInv, Distinct, OnTheWay, LastThread

\* Each input is shown at most once, and none is run that is not shown or on
\* its way to be: the two places that look at PendingInput::echoed agree.
THEOREM ShownOnce == Spec => []InputsAreShownOnce
<1>1. VisibleInv => InputsAreShownOnce
  BY DEF VisibleInv, Distinct, OnTheWay, InputsAreShownOnce, Elements
<1> QED
  BY <1>1, InitVisible, TypeInvariant, BusyInvariant, LineInvariant,
     NextVisibleInv, PTL DEF Spec

------------------------------------------------------------------------------
(* Session operations *)

\* An operation that began with no thread in its first statements runs beside
\* a thread that is about to end, if any.
SessionInv ==
  ui = "session" /\ ~window => ~LastThread({"starting"} \cup BusyPoints)

LEMMA NextSessionInv ==
  TypeInv /\ BusyInv /\ SessionInv /\ [Next]_vars => SessionInv'
<1> SUFFICES ASSUME TypeInv, BusyInv, SessionInv, [Next]_vars,
                    ui' = "session", ~window'
             PROVE  ~LastThread({"starting"} \cup BusyPoints)'
  BY DEF SessionInv
<1>1. CASE SessionOp
  <2>1. ~LastThread(BusyPoints) /\ UNCHANGED threadVars
    BY <1>1 DEF SessionOp, BusyInv
  <2>2. \A t \in Threads : thread[t] # "starting"
    BY <1>1 DEF SessionOp
  <2>3. agent # 0 => agent \in Threads
    BY InputBound DEF TypeInv, TypeOK, ThreadType, Threads
  <2>4. ~LastThread({"starting"} \cup BusyPoints)
    BY <2>1, <2>2, <2>3 DEF LastThread
  <2> QED
    BY <2>1, <2>4 DEF LastThread, threadVars
<1>2. CASE (User \/ Ui \/ Decide \/ UNCHANGED vars) /\ ~SessionOp
  <2>1. UNCHANGED <<ui, window, threadVars>>
    BY <1>2 DEF User, Ui, Decide, Submit, SkillCommand, CtrlC, Quit,
       QueueInput, RunAgent, Spawn, ClearPending, InterruptAgent,
       SessionOpEnds, RunTask, Leave, Left, vars, uiVars
  <2> QED
    BY <2>1, LastThreadStays DEF SessionInv
<1>3. ASSUME NEW t \in Threads, Agent(t)
      PROVE  ~LastThread({"starting"} \cup BusyPoints)'
  <2>1. UNCHANGED <<ui, window, agent>>
    BY <1>3 DEF Agent, SetBusy, EnterRun, TurnStart, Ask, Answered, RunEnds,
       DrainNext, DrainEmpty, EchoInput, Finish, uiVars
  <2>2. ~LastThread({"starting"} \cup BusyPoints)
    BY <2>1 DEF SessionInv
  <2>3. CASE Finish(t)
    BY <2>3, LastThreadMoves
       DEF Finish, ThreadPoints, BusyPoints, RunPoints
  <2>4. CASE ~Finish(t)
    <3>1. PICK from \in {"starting"} \cup BusyPoints, to \in ThreadPoints :
            Goes(t, from, to) /\ to # "none"
      BY <1>3, <2>4
         DEF Agent, SetBusy, EnterRun, TurnStart, Ask, Answered, RunEnds,
             DrainNext, DrainEmpty, EchoInput, ThreadPoints, BusyPoints,
             RunPoints
    <3>2. LastThread({"starting"} \cup BusyPoints)
      BY <2>1, <3>1, LastThreadMoves DEF BusyPoints, RunPoints
    <3> QED
      BY <2>2, <3>2
  <2> QED
    BY <2>3, <2>4
<1> QED
  BY <1>1, <1>2, <1>3 DEF Next

\* A session operation and a run of the agent loop overlap only if the
\* operation began before the first statement of the run's thread.
THEOREM SessionOpsExclude == Spec => []SessionOpsExcludeRuns
<1>1. Init => SessionInv
  BY DEF Init, SessionInv
<1>2. TypeInv /\ BusyInv /\ SessionInv => SessionOpsExcludeRuns
  <2>1. TypeInv => \A t \in Threads : thread[t] \in RunPoints =>
                     LastThread({"starting"} \cup BusyPoints)
    BY InputBound
       DEF TypeInv, TypeOK, ThreadType, ThreadsInOrder, Threads, LastThread,
           BusyPoints, RunPoints
  <2> QED
    BY <2>1 DEF SessionOpsExcludeRuns, SessionInv
<1> QED
  BY <1>1, <1>2, TypeInvariant, BusyInvariant, NextSessionInv, PTL DEF Spec

=============================================================================
