------------------------------- MODULE Budget -------------------------------
(***************************************************************************)
(* The usage counters of the provider wrapper                              *)
(* (src/src/budget/BudgetTracker.cpp), the records it leaves in the usage  *)
(* database (SqliteUsageStore.cpp), and their users: the runs of the agent *)
(* thread and its parallel subagents, and the session operations of the    *)
(* terminal UI (src/src/tui/TuiApp.cpp).  The counters change under the    *)
(* mutex of the tracker; the record is written after it is released, and a *)
(* failure to write it is only logged.                                     *)
(*                                                                         *)
(* A use is a number of tokens.  Cost follows the tokens by a table of     *)
(* prices and is left out, and so are the warnings, which decide nothing.  *)
(***************************************************************************)
EXTENDS Integers, FiniteSets, FiniteSetsExt

CONSTANTS
  BudCallers,    \* the agent thread and subagents, which call the provider in a run
  BudTokens,     \* sizes of a use
  BudSessions,   \* conversation ids
  BudMaxCalls,   \* bound: calls of the provider
  BudMaxSessions \* bound: session operations

ASSUME BudAssumption ==
  {BudMaxCalls, BudMaxSessions} \subseteq Nat /\ BudTokens \subseteq Nat

VARIABLES
  budSession, budGlobal, \* session_usage_, global_usage_
  budSid,      \* session_id_, "" before one is set
  budStore,    \* whether there is a store: its open may have failed
  budRecords,  \* usage_records: [id, sid, tokens]
  budCall,     \* call of each thread: [pc, epoch, tokens, sid, streamed, id]
  budBusy,     \* agent_busy_
  budConv,     \* conversation_id() of the loop
  budCalls, budOps, \* calls and session operations begun
  budEpoch,    \* number of /new so far
  budSpent     \* uses the tracker was told of: [id, epoch, tokens], a history

budVars == <<budSession, budGlobal, budSid, budStore, budRecords, budCall, budBusy, budConv,
             budCalls, budOps, budEpoch, budSpent>>
budCounters == <<budSession, budGlobal>>
budUi == <<budBusy, budConv, budOps, budEpoch>>

BudIdle == [pc |-> "idle", epoch |-> 0, tokens |-> 0, sid |-> "", streamed |-> FALSE, id |-> 0]
BudGo(c, call) == budCall' = [budCall EXCEPT ![c] = call]
BudSum(uses) == SumFunction([u \in uses |-> u.tokens])

-----------------------------------------------------------------------------
\* BudgetTracker: chat and stream_chat call the provider without a lock.

BudBegin(c, streamed) ==
  /\ budBusy /\ budCall[c] = BudIdle /\ budCalls < BudMaxCalls
  /\ budCalls' = budCalls + 1
  /\ BudGo(c, [BudIdle EXCEPT !.pc = "provider", !.epoch = budEpoch, !.streamed = streamed,
                              !.id = budCalls + 1])
  /\ UNCHANGED <<budCounters, budSid, budStore, budRecords, budUi, budSpent>>

BudChat(c) == BudBegin(c, FALSE)
BudStreamChat(c) == BudBegin(c, TRUE)

\* A failed call is not counted, nor a stream whose Done chunk has no usage.
BudUncounted(c) ==
  /\ budCall[c].pc = "provider"
  /\ BudGo(c, BudIdle)
  /\ UNCHANGED <<budCounters, budSid, budStore, budRecords, budUi, budCalls, budSpent>>

\* record_usage under the mutex: both counters, and the session the record is for.
BudRecordUsage(c, tokens) ==
  LET use == [id |-> budCall[c].id, epoch |-> budCall[c].epoch, tokens |-> tokens]
  IN /\ budCall[c].pc = "provider"
     /\ budSession' = budSession + tokens
     /\ budGlobal' = budGlobal + tokens
     /\ budSpent' = budSpent \cup {use}
     /\ BudGo(c, IF budStore
                 THEN [budCall[c] EXCEPT !.pc = "store", !.tokens = tokens, !.sid = budSid]
                 ELSE BudIdle)
     /\ UNCHANGED <<budSid, budStore, budRecords, budUi, budCalls>>

\* SqliteUsageStore::record, after the mutex.
UsageRecord(c) == [id |-> budCall[c].id, sid |-> budCall[c].sid, tokens |-> budCall[c].tokens]
BudStoreRecord(c, stored) ==
  /\ budCall[c].pc = "store"
  /\ budRecords' = IF stored THEN budRecords \cup {UsageRecord(c)} ELSE budRecords
  /\ BudGo(c, BudIdle)
  /\ UNCHANGED <<budCounters, budSid, budStore, budUi, budCalls, budSpent>>

\* total_usage: of all sessions when none is named.
BudTotalUsage(sid) == BudSum({r \in budRecords : sid # "" => r.sid = sid})

-----------------------------------------------------------------------------
\* TuiApp.

\* start_agent; a first run gives the loop a conversation.
BudRunStarts(conv) ==
  /\ ~budBusy /\ budOps < BudMaxSessions
  /\ budBusy' = TRUE /\ budOps' = budOps + 1
  /\ budConv' = IF budConv = "" THEN conv ELSE budConv
  /\ UNCHANGED <<budCounters, budSid, budStore, budRecords, budCall, budCalls, budEpoch, budSpent>>

\* The run returns; the tracker is told the session only now.
BudRunReturns ==
  /\ budBusy /\ \A c \in BudCallers : budCall[c] = BudIdle
  /\ budSid' = IF budConv = "" THEN budSid ELSE budConv
  /\ budBusy' = FALSE
  /\ UNCHANGED <<budCounters, budStore, budRecords, budCall, budConv, budCalls, budOps,
                 budEpoch, budSpent>>

\* Faulty variant: /new is allowed while a run goes on.
BudNewSessionAnytime ==
  /\ budOps < BudMaxSessions
  /\ budSession' = 0 /\ budSid' = "" /\ budConv' = ""
  /\ budEpoch' = budEpoch + 1 /\ budOps' = budOps + 1
  /\ UNCHANGED <<budGlobal, budStore, budRecords, budCall, budBusy, budCalls, budSpent>>

\* start_new_session: refused while the agent is busy; then reset_session and set_session_id.
BudNewSession ==
  /\ ~budBusy /\ budOps < BudMaxSessions
  /\ budSession' = 0 /\ budSid' = "" /\ budConv' = ""
  /\ budEpoch' = budEpoch + 1 /\ budOps' = budOps + 1
  /\ UNCHANGED <<budGlobal, budStore, budRecords, budCall, budBusy, budCalls, budSpent>>

\* resume_session leaves the tracker as it is.
BudResumeSession(conv) ==
  /\ ~budBusy /\ budOps < BudMaxSessions
  /\ budConv' = conv /\ budOps' = budOps + 1
  /\ UNCHANGED <<budCounters, budSid, budStore, budRecords, budCall, budBusy, budCalls,
                 budEpoch, budSpent>>

BudInit ==
  /\ budSession = 0 /\ budGlobal = 0 /\ budSid = "" /\ budStore \in BOOLEAN
  /\ budRecords = {} /\ budCall = [c \in BudCallers |-> BudIdle] /\ budBusy = FALSE
  /\ budConv = "" /\ budCalls = 0 /\ budOps = 0 /\ budEpoch = 0 /\ budSpent = {}

BudNext ==
  \/ \E c \in BudCallers :
       \/ BudChat(c) \/ BudStreamChat(c) \/ BudUncounted(c)
       \/ \E tokens \in BudTokens : BudRecordUsage(c, tokens)
       \/ \E stored \in BOOLEAN : BudStoreRecord(c, stored)
  \/ \E conv \in BudSessions : BudRunStarts(conv) \/ BudResumeSession(conv)
  \/ BudRunReturns \/ BudNewSession

BudSpec == BudInit /\ [][BudNext]_budVars

-----------------------------------------------------------------------------
BudTypeOK ==
  /\ {budSession, budGlobal} \subseteq Nat
  /\ budSid \in BudSessions \cup {""} /\ budCalls \in 0..BudMaxCalls
  /\ \A r \in budRecords : r.tokens \in BudTokens /\ r.sid \in BudSessions \cup {""}

(***************************************************************************)
(* The counters hold every use they were told of, once: the global one all *)
(* of them, the session's those of the calls begun since the last /new,    *)
(* with several threads counting.  The database holds no use twice and     *)
(* none that was not counted, so its total never exceeds the counter       *)
(* (BudgetTracker::record_usage, reset_session; TuiApp::start_new_session). *)
(***************************************************************************)
UsageIsAccounted ==
  /\ budGlobal = BudSum(budSpent)
  /\ budSession = BudSum({u \in budSpent : u.epoch = budEpoch})
  /\ \A r \in budRecords : \E u \in budSpent : u.id = r.id /\ u.tokens = r.tokens
  /\ BudTotalUsage("") <= budGlobal

=============================================================================
