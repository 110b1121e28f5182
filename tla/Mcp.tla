--------------------------------- MODULE Mcp ---------------------------------
(***************************************************************************)
(* One MCP server: the child process and its two pipes                     *)
(* (src/src/mcp/StdioTransport.cpp), the JSON-RPC client over them         *)
(* (McpClient.cpp), and who uses it: the assembly of the program           *)
(* (src/src/app/AppBuilder.cpp) and the tools it registers                 *)
(* (McpToolAdapter.h).  The client pairs an answer with a call by order    *)
(* alone: each send, notifications included, reads the next line.          *)
(*                                                                         *)
(* The server is external.  One kind answers every line, as the mock       *)
(* transport of the tests does; the other, as JSON-RPC has it, answers     *)
(* requests only.  A line is the number of the message it belongs to.      *)
(* Subagents that run in parallel share the client without a lock.  Left   *)
(* out: an answer of 64 KiB or more, which fgets hands out in pieces.      *)
(***************************************************************************)
EXTENDS Integers, Sequences

CONSTANTS
  McpServerKinds, \* kinds of server: "all" answers every line, "requests" only those
  McpTools,       \* tools the server may offer
  McpCallers,     \* threads that call them: the agent, or parallel subagents
  McpMaxCalls     \* bound: tool calls

ASSUME McpAssumption == McpServerKinds \subseteq {"all", "requests"} /\ McpMaxCalls \in Nat

VARIABLES
  mcpKind,       \* kind of the server
  mcpServer,     \* child: "none", "running" or "dead" (an unreaped exit is "dead")
  mcpIn, mcpOut, \* lines in the pipes: [id, request] to the server, [id, error] back
  mcpPc,         \* the assembly's use of the client, then "ready"
  mcpConnected,  \* connected_
  mcpNextId,     \* next_id_; a notification takes a number of the model's own
  mcpWaits,      \* by thread: <<>> or <<number>>, the message whose answer it awaits
  mcpRegistered, \* tools in the registry
  mcpCalls,      \* tool calls begun
  mcpShared,     \* threads whose call has been under way with another's
  mcpGot         \* the last answer given to a caller: [request, answer, shared]

mcpVars == <<mcpKind, mcpServer, mcpIn, mcpOut, mcpPc, mcpConnected, mcpNextId, mcpWaits,
             mcpRegistered, mcpCalls, mcpShared, mcpGot>>

McpMain == "main"
McpThreads == McpCallers \cup {McpMain}
mcpKept == <<mcpKind, mcpRegistered, mcpCalls, mcpGot>>

-----------------------------------------------------------------------------
\* StdioTransport.

McpStart(started) ==
  /\ mcpPc = "start"
  /\ IF started
     THEN mcpServer' = "running" /\ mcpPc' = "initialize"
     ELSE UNCHANGED mcpServer /\ mcpPc' = "skipped"
  /\ UNCHANGED <<mcpKept, mcpIn, mcpOut, mcpConnected, mcpNextId, mcpWaits, mcpShared>>

\* stop: both ends are closed, the child is killed and reaped.
McpStop == mcpServer' = "none" /\ mcpIn' = <<>> /\ mcpOut' = <<>>

\* send, up to the write.  SIGPIPE is not ignored: a write to a dead child ends the program.
McpSend(t, isRequest) ==
  /\ mcpWaits[t] = <<>> /\ mcpServer # "none"
  /\ IF mcpServer = "running"
     THEN /\ mcpIn' = Append(mcpIn, [id |-> mcpNextId, request |-> isRequest])
          /\ mcpWaits' = [mcpWaits EXCEPT ![t] = <<mcpNextId>>]
          /\ mcpNextId' = mcpNextId + 1
          /\ UNCHANGED mcpPc
     ELSE mcpPc' = "killed" /\ UNCHANGED <<mcpIn, mcpWaits, mcpNextId>>
  /\ LET others == {o \in McpThreads \ {t} : mcpWaits[o] # <<>>}
     IN mcpShared' = IF others = {} THEN mcpShared \ {t} ELSE mcpShared \cup others \cup {t}
  /\ UNCHANGED <<mcpServer, mcpOut, mcpConnected>>

\* fgets: the next line, whoever wrote for it, or the end of the file.
McpHasLine(t) == mcpPc # "killed" /\ mcpWaits[t] # <<>> /\ (mcpOut # <<>> \/ mcpServer = "dead")
McpLine == IF mcpOut = <<>> THEN [id |-> 0, error |-> TRUE] ELSE Head(mcpOut)
McpTaken(t) == mcpWaits' = [mcpWaits EXCEPT ![t] = <<>>]
McpReceive(t) ==
  /\ McpHasLine(t) /\ McpTaken(t)
  /\ mcpOut' = IF mcpOut = <<>> THEN mcpOut ELSE Tail(mcpOut)
  /\ UNCHANGED <<mcpServer, mcpIn>>

\* What send_request returns: an error, or the result of the line that came.
McpAnswer(t) ==
  mcpGot' = IF McpLine.error THEN mcpGot
            ELSE [request |-> Head(mcpWaits[t]), answer |-> McpLine.id,
                  shared |-> t \in mcpShared]

-----------------------------------------------------------------------------
\* McpClient; the assembly of the program.

McpSendRequest ==
  mcpPc \in {"initialize", "list"} /\ McpSend(McpMain, TRUE) /\ UNCHANGED mcpKept
\* Faulty variant: the client does not wait for the answer to a notification.
McpNotifyOnly ==
  /\ mcpPc \in {"initialized", "cancelled"} /\ mcpServer = "running"
  /\ mcpIn' = Append(mcpIn, [id |-> mcpNextId, request |-> FALSE])
  /\ mcpNextId' = mcpNextId + 1
  /\ mcpConnected' = (mcpPc = "initialized")
  /\ mcpPc' = IF mcpPc = "initialized" THEN "list" ELSE "skipped"
  /\ UNCHANGED <<mcpKept, mcpServer, mcpOut, mcpWaits, mcpShared>>

McpNotify ==
  mcpPc \in {"initialized", "cancelled"} /\ McpSend(McpMain, FALSE) /\ UNCHANGED mcpKept

\* connect: an initialize that fails stops the transport and the assembly skips the server.
McpInitialized ==
  /\ mcpPc = "initialize" /\ McpHasLine(McpMain)
  /\ IF McpLine.error
     THEN McpStop /\ McpTaken(McpMain) /\ mcpPc' = "skipped"
     ELSE McpReceive(McpMain) /\ mcpPc' = "initialized"
  /\ UNCHANGED <<mcpKept, mcpConnected, mcpNextId, mcpShared>>

\* What comes back for a notification is not looked at; after disconnect the child is stopped.
McpNotified ==
  /\ mcpPc \in {"initialized", "cancelled"} /\ McpHasLine(McpMain)
  /\ mcpConnected' = (mcpPc = "initialized")
  /\ IF mcpPc = "initialized"
     THEN McpReceive(McpMain) /\ mcpPc' = "list"
     ELSE McpStop /\ McpTaken(McpMain) /\ mcpPc' = "skipped"
  /\ UNCHANGED <<mcpKept, mcpNextId, mcpShared>>

\* list_tools, and the registration of what it returns.
McpListTools(tools) ==
  /\ mcpPc = "list" /\ McpReceive(McpMain) /\ McpAnswer(McpMain)
  /\ IF McpLine.error
     THEN mcpPc' = "cancelled" /\ UNCHANGED mcpRegistered
     ELSE mcpPc' = "ready" /\ mcpRegistered' = tools
  /\ UNCHANGED <<mcpKind, mcpConnected, mcpNextId, mcpCalls, mcpShared>>

\* call_tool through the adapter: the thread writes its request, then takes a line.
McpToolAdapter(t, tool) ==
  /\ mcpPc = "ready" /\ tool \in mcpRegistered /\ mcpCalls < McpMaxCalls
  /\ McpSend(t, TRUE)
  /\ mcpCalls' = mcpCalls + 1
  /\ UNCHANGED <<mcpKind, mcpRegistered, mcpGot>>

McpCallTool(t) ==
  /\ mcpPc = "ready" /\ McpReceive(t) /\ McpAnswer(t)
  /\ UNCHANGED <<mcpKind, mcpPc, mcpConnected, mcpNextId, mcpRegistered, mcpCalls, mcpShared>>

\* The program ends: nobody disconnects, the destructor stops the transport.
McpEnd ==
  /\ mcpPc = "ready" /\ \A t \in McpThreads : mcpWaits[t] = <<>>
  /\ McpStop
  /\ mcpPc' = "ended" /\ mcpRegistered' = {}
  /\ UNCHANGED <<mcpKind, mcpConnected, mcpNextId, mcpWaits, mcpCalls, mcpShared, mcpGot>>

McpClient ==
  \/ \E started \in BOOLEAN : McpStart(started)
  \/ McpSendRequest \/ McpNotify \/ McpInitialized \/ McpNotified
  \/ \E tools \in SUBSET McpTools : McpListTools(tools)
  \/ \E t \in McpCallers : McpCallTool(t) \/ \E tool \in McpTools : McpToolAdapter(t, tool)
  \/ McpEnd

-----------------------------------------------------------------------------
\* The server.

McpServerReads(error) ==
  /\ mcpServer = "running" /\ mcpIn # <<>>
  /\ mcpIn' = Tail(mcpIn)
  /\ mcpOut' = IF Head(mcpIn).request \/ mcpKind = "all"
               THEN Append(mcpOut, [id |-> Head(mcpIn).id, error |-> error]) ELSE mcpOut
  /\ UNCHANGED <<mcpKept, mcpServer, mcpPc, mcpConnected, mcpNextId, mcpWaits, mcpShared>>

McpServerDies ==
  /\ mcpServer = "running"
  /\ mcpServer' = "dead"
  /\ UNCHANGED <<mcpKept, mcpIn, mcpOut, mcpPc, mcpConnected, mcpNextId, mcpWaits, mcpShared>>

McpInit ==
  /\ mcpKind \in McpServerKinds
  /\ mcpServer = "none" /\ mcpIn = <<>> /\ mcpOut = <<>> /\ mcpPc = "start"
  /\ mcpConnected = FALSE /\ mcpNextId = 1 /\ mcpRegistered = {}
  /\ mcpWaits = [t \in McpThreads |-> <<>>] /\ mcpCalls = 0 /\ mcpShared = {}
  /\ mcpGot = [request |-> 0, answer |-> 0, shared |-> FALSE]

McpNext == McpClient \/ (\E error \in BOOLEAN : McpServerReads(error)) \/ McpServerDies

McpSpec == McpInit /\ [][McpNext]_mcpVars

-----------------------------------------------------------------------------
McpTypeOK ==
  /\ mcpServer \in {"none", "running", "dead"}
  /\ mcpPc \in {"start", "initialize", "initialized", "list", "cancelled", "ready",
               "skipped", "ended", "killed"}
  /\ mcpRegistered \subseteq McpTools /\ mcpCalls \in 0..McpMaxCalls

(***************************************************************************)
(* A caller whose call did not overlap another gets the answer to its own  *)
(* request, after failed, overlapping and notifying sends too, though the  *)
(* numbers of the answers are not compared; tools are registered for a     *)
(* connected server only, and no child is left once the server has been    *)
(* given up (McpClient::send_request, connect, disconnect).                *)
(***************************************************************************)
McpAnswersAreOwn ==
  /\ mcpGot.request = mcpGot.answer \/ mcpGot.shared
  /\ mcpPc \in {"skipped", "ended"} => mcpServer = "none"
  /\ mcpRegistered # {} => mcpConnected

=============================================================================
