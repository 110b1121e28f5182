--------------------------- MODULE ProviderStream ---------------------------
(***************************************************************************)
(* One exchange with a model provider and the request after it: the answer *)
(* comes as events cut into pieces (src/src/net/SseParser.cpp), the client *)
(* of the provider turns them into chunks (OpenAIProvider.cpp,             *)
(* AnthropicProvider.cpp, OllamaProvider.cpp), CallProviderStep assembles  *)
(* a response, and the next request tells the model what it said.          *)
(*                                                                         *)
(* A text is a sequence of tokens and the arguments of a call a sequence   *)
(* of parts; JSON text and the value it stands for are the two forms of    *)
(* one sequence, `null` is the form of arguments nobody set.  Token        *)
(* counts, model names and options are left out.                           *)
(***************************************************************************)
EXTENDS Naturals, Sequences, SequencesExt

CONSTANTS
  StrDialects,  \* the providers tried, a subset of {"openai", "anthropic", "ollama"}
  StrMaxText,   \* bound: tokens of the answer's text
  StrMaxCalls,  \* bound: tool calls of the answer
  StrMaxParts,  \* bound: parts of the arguments of a call
  StrWindow     \* bound: pieces sent and not yet delivered

ASSUME StrAssumption ==
  /\ StrDialects \subseteq {"openai", "anthropic", "ollama"}
  /\ {StrMaxText, StrMaxCalls, StrMaxParts, StrWindow} \subseteq Nat

VARIABLES
  strDialect,   \* the provider behind the client
  strPath,      \* "stream", "simulated" or "plain": the three paths of the step
  strAnswer,    \* what the model says: tokens of text, parts of each call
  strSent,      \* what the server has sent of it
  strWire,      \* pieces under way: [event, last]
  strBuffer,    \* pieces kept by the parser
  strAcc,       \* accumulating_calls, and tool_call_counter for Ollama
  strResponse,  \* what CallProviderStep has accumulated
  strShown,     \* text the stream callback has shown
  strStatus,    \* "reading", "ok", "failed", or "interrupted"
  strStop,      \* ctx.interrupted
  strRequest    \* messages of the request that follows

strVars == <<strDialect, strPath, strAnswer, strSent, strWire, strBuffer, strAcc,
             strResponse, strShown, strStatus, strStop, strRequest>>

StrArgs(form, n) == [form |-> form, parts |-> [i \in 1..n |-> i]]
StrNoArgs == StrArgs("null", 0)
\* json::parse of the arguments, which stay text when there is nothing to parse.
StrParsed(args) ==
  IF args.form = "text" /\ args.parts # <<>> THEN [args EXCEPT !.form = "object"] ELSE args
StrDumped(args) == IF args.form = "text" THEN args ELSE [args EXCEPT !.form = "text"]

\* ids: calls are numbered by the server; Ollama sends none.
StrCall(id, name, args) == [id |-> id, name |-> name, args |-> args]
StrEmptyCall == StrCall("", 0, StrNoArgs)
StrCalls(a) == [c \in DOMAIN a.parts |-> StrCall(c, c, StrArgs("text", a.parts[c]))]
StrText(a) == [i \in 1..a.text |-> i]

StrMessage(role, text, calls, name, ref) ==
  [role |-> role, text |-> text, calls |-> calls, name |-> name, ref |-> ref]
StrPrompt == <<StrMessage("system", <<0>>, <<>>, 0, ""), StrMessage("user", <<0>>, <<>>, 0, "")>>
StrHistory(resp) ==
  StrPrompt \o <<StrMessage("assistant", resp.content, resp.calls, 0, "")>>
    \o [c \in DOMAIN resp.calls |->
          StrMessage("tool", <<0>>, <<>>, resp.calls[c].name, resp.calls[c].id)]

-----------------------------------------------------------------------------
\* The requests.  Each dialect keeps, of a tool result, what it names its call by.

OpenAIRequest(h) ==
  [i \in DOMAIN h |->
     [role |-> h[i].role, text |-> h[i].text, ref |-> h[i].ref,
      calls |-> [c \in DOMAIN h[i].calls |->
                   [h[i].calls[c] EXCEPT !.args = StrDumped(@)]]]]

\* The system text goes to a field of its own; a tool result becomes a user
\* message with one tool_result block.
AnthropicMessage(msg) ==
  [role |-> IF msg.role = "tool" THEN "user" ELSE msg.role,
   text |-> msg.text, ref |-> msg.ref, calls |-> msg.calls]
AnthropicRequest(h) ==
  LET step(list, msg) ==
        IF msg.role = "system" THEN list ELSE Append(list, AnthropicMessage(msg))
  IN FoldLeft(step, <<>>, h)

OllamaRequest(h) ==
  [i \in DOMAIN h |->
     [role |-> h[i].role, text |-> h[i].text,
      ref |-> IF h[i].role = "tool" /\ h[i].name # 0 THEN h[i].name ELSE h[i].ref,
      calls |-> [c \in DOMAIN h[i].calls |->
                   [StrEmptyCall EXCEPT !.name = h[i].calls[c].name,
                                        !.args = StrDumped(h[i].calls[c].args)]]]]

StrNextRequest(resp) ==
  CASE strDialect = "openai" -> OpenAIRequest(StrHistory(resp))
    [] strDialect = "anthropic" -> AnthropicRequest(StrHistory(resp))
    [] strDialect = "ollama" -> OllamaRequest(StrHistory(resp))

-----------------------------------------------------------------------------
\* chat(): the answer comes in one body.

StrReply(content, calls) == [content |-> content, calls |-> calls]

OpenAIParse(a) ==
  StrReply(StrText(a), [c \in DOMAIN a.parts |->
             [StrCalls(a)[c] EXCEPT !.args = StrParsed(@)]])
AnthropicParse(a) ==
  StrReply(StrText(a), [c \in DOMAIN a.parts |->
             [StrCalls(a)[c] EXCEPT !.args = StrArgs("object", a.parts[c])]])
OllamaParse(a) ==
  StrReply(StrText(a), [c \in DOMAIN a.parts |->
             [StrCalls(a)[c] EXCEPT !.id = "", !.args = StrParsed(@)]])
StrParse(a) ==
  CASE strDialect = "openai" -> OpenAIParse(a)
    [] strDialect = "anthropic" -> AnthropicParse(a)
    [] strDialect = "ollama" -> OllamaParse(a)

-----------------------------------------------------------------------------
\* The events of a streamed answer, in an order the server may send them in.

StrEvent(kind, index, arg) == [kind |-> kind, index |-> index, arg |-> arg]

\* Blocks of an Anthropic message are numbered together: text takes number 0.
StrBlock(c) == IF strDialect = "anthropic" /\ strAnswer.text > 0 THEN c ELSE c - 1

StrTextSent == strSent.text = strAnswer.text
StrCallSent(c) == c \in DOMAIN strSent.parts /\ strSent.parts[c] = strAnswer.parts[c]
StrAllSent == StrTextSent /\ \A c \in DOMAIN strAnswer.parts : StrCallSent(c)

StrSendable ==
  LET next == Len(strSent.parts) + 1
      texts == IF StrTextSent THEN {} ELSE {StrEvent("text", 0, strSent.text + 1)}
      opens == IF /\ next \in DOMAIN strAnswer.parts
                  /\ strDialect # "openai" => StrTextSent
                  /\ strDialect = "anthropic" => \A c \in 1..next - 1 : StrCallSent(c)
               THEN {StrEvent("open", StrBlock(next), next)} ELSE {}
      parts == {StrEvent("part", StrBlock(c), strSent.parts[c] + 1) :
                  c \in {k \in DOMAIN strSent.parts : ~StrCallSent(k)}}
      ends == IF StrAllSent THEN {StrEvent("finish", 0, 0)} ELSE {}
  IN IF strSent.ended THEN {} ELSE texts \cup opens \cup parts \cup ends

\* A server sends its next event, whole or cut in two.  Ollama sends a call whole.
StrSend(e, whole) ==
  LET c == IF e.kind = "part" /\ StrBlock(1) = 1 THEN e.index ELSE e.index + 1
  IN /\ strPath = "stream" /\ strStatus = "reading"
     /\ e \in StrSendable
     /\ Len(strWire) < StrWindow
     /\ strWire' = strWire \o
          (IF whole THEN <<[event |-> e, last |-> TRUE]>>
           ELSE <<[event |-> e, last |-> FALSE], [event |-> e, last |-> TRUE]>>)
     /\ strSent' =
          CASE e.kind = "text" -> [strSent EXCEPT !.text = @ + 1]
            [] e.kind = "open" ->
                 [strSent EXCEPT !.parts = Append(@, IF strDialect = "ollama"
                                                     THEN strAnswer.parts[e.arg] ELSE 0)]
            [] e.kind = "part" -> [strSent EXCEPT !.parts[c] = @ + 1]
            [] e.kind = "finish" -> [strSent EXCEPT !.ended = TRUE]
     /\ UNCHANGED <<strDialect, strPath, strAnswer, strBuffer, strAcc, strResponse,
                    strShown, strStatus, strStop, strRequest>>

-----------------------------------------------------------------------------
\* The clients: what one event does to the accumulated calls and the response.

\* Room for call number i, counted from zero.
StrPadded(acc, i) ==
  [k \in 1..(IF Len(acc) > i THEN Len(acc) ELSE i + 1) |->
     IF k \in DOMAIN acc THEN acc[k] ELSE StrEmptyCall]

StrSaid(resp, token) == [resp EXCEPT !.content = Append(@, token)]

\* A part is appended to what the call has; what is not text yet becomes text.
StrAppendPart(args, part) ==
  [form |-> "text", parts |-> IF args.form = "text" THEN Append(args.parts, part) ELSE <<part>>]

StrEnded(resp, acc) ==
  [resp EXCEPT !.calls = @ \o [k \in DOMAIN acc |-> [acc[k] EXCEPT !.args = StrParsed(@)]]]

OpenAIEvent(e, s) ==
  LET acc == StrPadded(s.acc, e.index)
      i == e.index + 1
  IN CASE e.kind = "text" -> [s EXCEPT !.resp = StrSaid(@, e.arg)]
       [] e.kind = "open" ->
            [s EXCEPT !.acc = [acc EXCEPT ![i] = StrCall(e.arg, e.arg, StrArgs("text", 0))]]
       [] e.kind = "part" ->
            [s EXCEPT !.acc = [acc EXCEPT ![i].args = StrAppendPart(@, e.arg)]]
       [] e.kind = "finish" -> [acc |-> <<>>, resp |-> StrEnded(s.resp, s.acc)]

\* The partial input is passed on as a delta and not kept.
AnthropicEvent(e, s) ==
  CASE e.kind = "text" -> [s EXCEPT !.resp = StrSaid(@, e.arg)]
    [] e.kind = "open" ->
         [s EXCEPT !.acc = [StrPadded(@, e.index) EXCEPT ![e.index + 1].id = e.arg,
                                                         ![e.index + 1].name = e.arg]]
    [] e.kind = "part" -> s
    [] e.kind = "finish" -> [acc |-> <<>>, resp |-> StrEnded(s.resp, s.acc)]

\* Calls are counted per answer to get an id.
OllamaEvent(e, s) ==
  CASE e.kind = "text" -> [s EXCEPT !.resp = StrSaid(@, e.arg)]
    [] e.kind = "open" ->
         [acc |-> Append(s.acc, StrEmptyCall),
          resp |-> [s.resp EXCEPT !.calls = Append(@,
                      StrCall(Len(s.acc), e.arg,
                              StrParsed(StrArgs("text", strAnswer.parts[e.arg]))))]]
    [] OTHER -> s

StrHandle(e) ==
  LET s == [acc |-> strAcc, resp |-> strResponse]
  IN CASE strDialect = "openai" -> OpenAIEvent(e, s)
       [] strDialect = "anthropic" -> AnthropicEvent(e, s)
       [] strDialect = "ollama" -> OllamaEvent(e, s)

StrComplete == \E i \in DOMAIN strBuffer : strBuffer[i].last

\* SseParser::feed: what arrives is kept; complete events are handled before more is read.
SseFeed(n) ==
  /\ strStatus = "reading" /\ ~StrComplete
  /\ n \in 1..Len(strWire)
  /\ strBuffer' = strBuffer \o SubSeq(strWire, 1, n)
  /\ strWire' = SubSeq(strWire, n + 1, Len(strWire))
  /\ UNCHANGED <<strDialect, strPath, strAnswer, strSent, strAcc, strResponse,
                 strShown, strStatus, strStop, strRequest>>

StrFirstLast == CHOOSE i \in DOMAIN strBuffer :
  strBuffer[i].last /\ \A k \in 1..i - 1 : ~strBuffer[k].last

\* Faulty variant: what follows the event in the buffer is dropped with it.
StrRestDropped == <<>>

\* What the parser keeps when it has taken an event out.
StrRest == SubSeq(strBuffer, StrFirstLast + 1, Len(strBuffer))

\* One complete event.  Its chunk throws when the run has been interrupted.
StrConsume ==
  /\ strStatus = "reading" /\ StrComplete
  /\ IF strStop
     THEN /\ strStatus' = "interrupted"
          /\ UNCHANGED <<strBuffer, strAcc, strResponse, strShown>>
     ELSE LET e == strBuffer[StrFirstLast].event
              s == StrHandle(e)
          IN /\ strBuffer' = StrRest
             /\ strAcc' = s.acc /\ strResponse' = s.resp
             /\ strShown' = IF e.kind = "text" THEN Append(strShown, e.arg) ELSE strShown
             /\ UNCHANGED strStatus
  /\ UNCHANGED <<strDialect, strPath, strAnswer, strSent, strWire, strStop, strRequest>>

\* stream_post returns: the server has closed, or the connection has failed.
StrReturn(ok) ==
  /\ strPath = "stream" /\ strStatus = "reading" /\ ~StrComplete
  /\ ok => strSent.ended /\ strWire = <<>> /\ strBuffer = <<>>
  /\ strStatus' = IF ok THEN "ok" ELSE "failed"
  /\ strRequest' = IF ok THEN StrNextRequest(strResponse) ELSE strRequest
  /\ UNCHANGED <<strDialect, strPath, strAnswer, strSent, strWire, strBuffer, strAcc,
                 strResponse, strShown, strStop>>

\* The paths without a stream: chat(), whose text a callback is then shown at once.
StrChat(ok) ==
  /\ strPath # "stream" /\ strStatus = "reading"
  /\ strStatus' = IF ok THEN "ok" ELSE "failed"
  /\ IF ok
     THEN /\ strResponse' = StrParse(strAnswer)
          /\ strShown' = IF strPath = "simulated" THEN StrText(strAnswer) ELSE <<>>
          /\ strRequest' = StrNextRequest(StrParse(strAnswer))
     ELSE UNCHANGED <<strResponse, strShown, strRequest>>
  /\ UNCHANGED <<strDialect, strPath, strAnswer, strSent, strWire, strBuffer, strAcc, strStop>>

StrInterrupt ==
  /\ strStatus = "reading" /\ ~strStop
  /\ strStop' = TRUE
  /\ UNCHANGED <<strDialect, strPath, strAnswer, strSent, strWire, strBuffer, strAcc,
                 strResponse, strShown, strStatus, strRequest>>

-----------------------------------------------------------------------------
StrInit ==
  /\ strDialect \in StrDialects
  /\ strPath \in {"stream", "simulated", "plain"}
  /\ strAnswer \in [text : 0..StrMaxText,
                    parts : UNION {[1..n -> 0..StrMaxParts] : n \in 0..StrMaxCalls}]
  /\ strSent = [text |-> 0, parts |-> <<>>, ended |-> FALSE]
  /\ strWire = <<>> /\ strBuffer = <<>> /\ strAcc = <<>>
  /\ strResponse = StrReply(<<>>, <<>>) /\ strShown = <<>>
  /\ strStatus = "reading" /\ strStop = FALSE /\ strRequest = <<>>

StrNext ==
  \/ \E e \in StrSendable, whole \in BOOLEAN : StrSend(e, whole)
  \/ \E n \in 1..StrWindow + 1 : SseFeed(n)
  \/ StrConsume
  \/ \E ok \in BOOLEAN : StrReturn(ok)
  \/ \E ok \in BOOLEAN : StrChat(ok)
  \/ StrInterrupt

StrSpec == StrInit /\ [][StrNext]_strVars

-----------------------------------------------------------------------------
StrTypeOK ==
  /\ strDialect \in StrDialects /\ strPath \in {"stream", "simulated", "plain"}
  /\ strSent.text \in 0..strAnswer.text /\ strSent.ended \in BOOLEAN
  /\ Len(strSent.parts) <= Len(strAnswer.parts)
  /\ Len(strWire) <= StrWindow + 1
  /\ strStatus \in {"reading", "ok", "failed", "interrupted"} /\ strStop \in BOOLEAN

\* What the next request says the model said, and how each result names its call.
StrAssistant == CHOOSE i \in DOMAIN strRequest : strRequest[i].role = "assistant"
StrResults == SubSeq(strRequest, StrAssistant + 1, Len(strRequest))
StrNames(call) == IF strDialect = "ollama" THEN call.name ELSE call.id

StrSaidWhole ==
  LET said == strRequest[StrAssistant]
  IN /\ said.text = StrText(strAnswer) /\ strResponse.content = said.text
     /\ Len(said.calls) = Len(strAnswer.parts)
     /\ \A c \in DOMAIN said.calls :
          /\ said.calls[c].name = c
          /\ said.calls[c].args.parts = StrArgs("text", strAnswer.parts[c]).parts
     /\ Len(StrResults) = Len(said.calls)
     /\ \A c \in DOMAIN StrResults : StrResults[c].ref = StrNames(said.calls[c])

(***************************************************************************)
(* However the answer is cut and its calls interleaved, when the step      *)
(* succeeds the next request tells the model exactly what it said, each    *)
(* tool result names the call it answers, and the user was shown the text  *)
(* once (CallProviderStep with the OpenAI and Ollama clients, and chat()   *)
(* of the Anthropic one; its stream is StreamedCallsAreWhole).             *)
(***************************************************************************)
AnswersComeBackWhole ==
  strStatus = "ok" =>
    /\ (strPath = "stream" => strDialect # "anthropic") => StrSaidWhole
    /\ strPath # "plain" => strShown = StrText(strAnswer)

(***************************************************************************)
(* The stream of the Anthropic client accumulates the tool calls, as its   *)
(* comments say: a call it streams has its whole input                     *)
(* (AnthropicProvider::stream_chat, on_sse_event).                         *)
(***************************************************************************)
StreamedCallsAreWhole ==
  strStatus = "ok" /\ strPath = "stream" =>
    \A c \in DOMAIN strResponse.calls :
      LET call == strResponse.calls[c]
      IN call.name # 0 => call.args.parts = StrArgs("text", strAnswer.parts[call.name]).parts

=============================================================================
