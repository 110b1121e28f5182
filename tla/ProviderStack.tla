---------------------------- MODULE ProviderStack ----------------------------
(***************************************************************************)
(* One call of a model through the layers in front of the network:         *)
(* RouterProvider picks a provider, ReliableProvider retries it and turns  *)
(* to its fallbacks, the client posts, HttpClient retries the post.  Each  *)
(* layer sees only the error of the layer below, so what is tried again,   *)
(* and how often, is decided by how errors are translated on the way.      *)
(*                                                                         *)
(* Delays, bodies and headers are left out; a reply is one of the kinds    *)
(* the layers tell apart.                                                  *)
(***************************************************************************)
EXTENDS Naturals, Sequences

CONSTANTS
  StkHttpRetries,  \* RetryPolicy::max_retries of a client
  StkRetries,      \* ReliableProvider::Config::max_retries
  StkFallbacks,    \* number of fallback providers
  StkDialects      \* clients of the primary provider

ASSUME StkAssumption ==
  /\ {StkHttpRetries, StkRetries, StkFallbacks} \subseteq Nat
  /\ StkDialects \subseteq {"openai", "anthropic", "ollama"}

VARIABLES
  stkDialect,  \* client of every provider of the call
  stkMode,     \* "chat", "stream" or "models"
  stkHint,     \* route_hint: "none", "rule", or "null", a rule without a provider
  stkModel,    \* model of the caller, then of the requests: "", "caller", "rule"
  stkWho,      \* provider now called: 0 the primary, 1.. the fallbacks
  stkTry,      \* attempt of try_with_retries
  stkHttpTry,  \* attempt of HttpClient::post
  stkPhase,    \* "route", "post", "returned", "fallback" or "done"
  stkResult,   \* result of the last layer that returned
  stkPrimary,  \* result of the primary, kept while fallbacks are tried
  stkLog       \* requests sent: provider, model and reply

stkVars == <<stkDialect, stkMode, stkHint, stkModel, stkWho, stkTry, stkHttpTry,
             stkPhase, stkResult, stkPrimary, stkLog>>

\* No response, an HTTP status, or a 200 with an answer, an error body (its
\* status_code in the Anthropic dialect) or garbage.
StkReplies == {"none", "404", "429", "500", "answer", "error", "error500", "garbage"}

Ok == [code |-> "ok", status |-> 0]
Failure(code, status) == [code |-> code, status |-> status]
StkNoResult == Failure("pending", 0)

ErrorClass(r) ==
  CASE r.code = "RateLimit" -> "RateLimit"
    [] r.code = "Timeout" -> "Retryable"
    [] r.code = "NetworkError" /\ r.status \in 500..599 -> "Retryable"
    [] OTHER -> "NonRetryable"

ShouldRetry(reply) == reply \in {"429", "500"}

-----------------------------------------------------------------------------
\* What the clients make of a reply that is not retried.

OpenAIChat(reply) ==
  CASE reply = "answer" -> Ok
    [] reply \in {"error", "error500", "garbage"} -> Failure("ParseError", 0)
    [] reply \in {"404", "none"} -> Failure("NetworkError", 0)

AnthropicChat(reply) ==
  CASE reply = "answer" -> Ok
    [] reply = "garbage" -> Failure("ParseError", 0)
    [] reply = "error" -> Failure("NetworkError", 400)
    [] reply = "error500" -> Failure("NetworkError", 500)
    [] reply = "404" -> Failure("NetworkError", 404)
    [] reply = "none" -> Failure("NetworkError", 0)

OllamaChat(reply) ==
  CASE reply = "answer" -> Ok
    [] reply = "garbage" -> Failure("ParseError", 0)
    [] reply \in {"error", "error500", "404", "none"} -> Failure("NetworkError", 0)

\* No model is worth an error: without a list, the list is empty.
OllamaListModels(reply) == Ok

StkChatResult(reply) ==
  CASE stkMode = "models" -> OllamaListModels(reply)
    [] stkDialect = "openai" -> OpenAIChat(reply)
    [] stkDialect = "anthropic" -> AnthropicChat(reply)
    [] stkDialect = "ollama" -> OllamaChat(reply)

-----------------------------------------------------------------------------
\* RouterProvider::chat and stream_chat, with resolve.

StkRuleModels == {"", "rule"}  \* a rule may name no model

Route(ruleModel) ==
  /\ stkPhase = "route"
  /\ IF stkHint = "null"
     THEN /\ stkResult' = Failure("NetworkError", 0) /\ stkPhase' = "done"
          /\ UNCHANGED stkModel
     ELSE /\ stkModel' = IF stkModel # "" \/ stkHint = "none" THEN stkModel ELSE ruleModel
          /\ stkPhase' = "post"
          /\ UNCHANGED stkResult
  /\ UNCHANGED <<stkDialect, stkMode, stkHint, stkWho, stkTry, stkHttpTry, stkPrimary, stkLog>>

StkReturned(r) == stkPhase' = "returned" /\ stkResult' = r /\ stkHttpTry' = 0

\* HttpClient::post: one round of its loop.
HttpPost(reply) ==
  IF ShouldRetry(reply)
  THEN IF stkHttpTry < StkHttpRetries
       THEN stkHttpTry' = stkHttpTry + 1 /\ UNCHANGED <<stkPhase, stkResult>>
       ELSE StkReturned(IF stkMode = "models" THEN OllamaListModels(reply)
                        ELSE Failure("RateLimit", 0))
  ELSE StkReturned(StkChatResult(reply))

HttpGet(reply) == HttpPost(reply)

\* HttpClient::stream_post: one request, whatever it brings.
StreamPost(reply) ==
  StkReturned(CASE reply \in {"answer", "error", "error500", "garbage"} -> Ok
                [] reply = "none" -> Failure("NetworkError", 0)
                [] reply = "404" -> Failure("NetworkError", 404)
                [] reply = "429" -> Failure("NetworkError", 429)
                [] reply = "500" -> Failure("NetworkError", 500))

Request(reply) ==
  /\ stkPhase = "post"
  /\ stkLog' = Append(stkLog, [who |-> stkWho, model |-> stkModel, reply |-> reply])
  /\ CASE stkMode = "chat" -> HttpPost(reply)
       [] stkMode = "models" -> HttpGet(reply)
       [] stkMode = "stream" -> StreamPost(reply)
  /\ UNCHANGED <<stkDialect, stkMode, stkHint, stkModel, stkWho, stkTry, stkPrimary>>

\* Faulty variant: every error is retried.
StkRetriedAlways(r) == r.code # "ok" /\ stkTry < StkRetries

\* ReliableProvider::try_with_retries: the primary has returned.
StkRetried(r) ==
  /\ r.code # "ok" /\ ErrorClass(r) # "NonRetryable" /\ stkTry < StkRetries

TryWithRetries ==
  /\ stkPhase = "returned" /\ stkWho = 0 /\ stkMode = "chat"
  /\ IF StkRetried(stkResult)
     THEN /\ stkTry' = stkTry + 1 /\ stkPhase' = "post"
          /\ UNCHANGED stkPrimary
     ELSE /\ stkPrimary' = stkResult /\ stkPhase' = "fallback"
          /\ UNCHANGED stkTry
  /\ UNCHANGED <<stkDialect, stkMode, stkHint, stkModel, stkWho, stkHttpTry, stkResult, stkLog>>

\* ReliableProvider::chat: the fallbacks in order, each called once.
WorthFallback(r) == r.code # "ok" /\ ErrorClass(r) \in {"NonRetryable", "RateLimit"}

Fallback ==
  /\ \/ stkPhase = "fallback"
     \/ stkPhase = "returned" /\ stkWho > 0
  /\ IF /\ WorthFallback(stkPrimary)
        /\ stkWho > 0 => stkResult.code # "ok"
        /\ stkWho < StkFallbacks
     THEN /\ stkWho' = stkWho + 1 /\ stkPhase' = "post"
          /\ UNCHANGED stkResult
     ELSE /\ stkPhase' = "done"
          /\ stkResult' = IF stkResult.code = "ok" THEN Ok ELSE stkPrimary
          /\ UNCHANGED stkWho
  /\ UNCHANGED <<stkDialect, stkMode, stkHint, stkModel, stkTry, stkHttpTry, stkPrimary, stkLog>>

\* stream_chat and list_models go to the primary and no further.
PassOn ==
  /\ stkPhase = "returned" /\ stkMode # "chat"
  /\ stkPhase' = "done" /\ stkPrimary' = stkResult
  /\ UNCHANGED <<stkDialect, stkMode, stkHint, stkModel, stkWho, stkTry, stkHttpTry,
                 stkResult, stkLog>>

-----------------------------------------------------------------------------
StkInit ==
  /\ stkDialect \in StkDialects
  /\ stkMode \in {"chat", "stream", "models"}
  /\ stkHint \in {"none", "rule", "null"}
  /\ stkMode = "models" => stkDialect = "ollama" /\ stkHint = "none"
  /\ stkModel \in {"", "caller"}
  /\ stkWho = 0 /\ stkTry = 0 /\ stkHttpTry = 0 /\ stkPhase = "route"
  /\ stkResult = StkNoResult /\ stkPrimary = StkNoResult /\ stkLog = <<>>

StkNext ==
  \/ \E ruleModel \in StkRuleModels : Route(ruleModel)
  \/ \E reply \in StkReplies : Request(reply)
  \/ TryWithRetries
  \/ Fallback
  \/ PassOn

StkSpec == StkInit /\ [][StkNext]_stkVars

-----------------------------------------------------------------------------
StkTypeOK ==
  /\ stkWho \in 0..StkFallbacks /\ stkTry \in 0..StkRetries /\ stkHttpTry \in 0..StkHttpRetries
  /\ stkPhase \in {"route", "post", "returned", "fallback", "done"}
  /\ stkModel \in {"", "caller", "rule"}

StkSentTo(who) == {i \in DOMAIN stkLog : stkLog[i].who = who}

(***************************************************************************)
(* The layers together never ask again what was answered or what a client  *)
(* has found permanently wrong; the call ends with the last reply when it  *)
(* is an answer and with the error of the primary otherwise; a fallback    *)
(* runs only when all tried before it have failed; and no provider gets    *)
(* more requests than the two loops allow (ReliableProvider::chat,         *)
(* HttpClient::post).                                                      *)
(***************************************************************************)
RequestsFollowReplies ==
  /\ \A i, j \in DOMAIN stkLog : i < j =>
       /\ stkLog[i].reply # "answer" /\ stkLog[i].who <= stkLog[j].who
       /\ stkLog[i].who = stkLog[j].who =>
            /\ stkLog[i].reply \in {"429", "500", "error500"}
            /\ stkMode # "stream" /\ stkLog[i].model = stkLog[j].model
  /\ stkMode = "chat" /\ stkPhase = "done" /\ stkLog # <<>> =>
       (stkResult.code = "ok" <=> stkLog[Len(stkLog)].reply = "answer")
  /\ stkPhase = "done" /\ stkLog # <<>> /\ stkResult.code # "ok" =>
       stkResult = stkPrimary
  /\ \A i \in StkSentTo(0) : i <= (StkRetries + 1) * (StkHttpRetries + 1)
  /\ \A who \in 1..StkFallbacks :
       \A i, j \in StkSentTo(who) : j - i <= StkHttpRetries

=============================================================================
