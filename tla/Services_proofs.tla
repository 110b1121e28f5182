--------------------------- MODULE Services_proofs --------------------------
(***************************************************************************)
(* Proofs about the components around the agent loop together, which       *)
(* MCServices composes: a behaviour of the composition is one of each, so  *)
(* what is proved of one holds of it there.                                *)
(*   ServicesTypes              the component at work has its type         *)
(*   ServicesKeepTheirPromises  each keeps what it promises                *)
(***************************************************************************)
EXTENDS MCServices, Answers_proofs, Upkeep_proofs, ContextCompressor_proofs, TLAPS

-----------------------------------------------------------------------------
(* A behaviour of the composition is one of each *)

\* The part of the streamed answers.
LEMMA StrTakesPart == ServicesSpec => StrSpec
<1>1. ServicesInit => StrInit
  BY DEF ServicesInit
<1>2. [ServicesNext]_servicesVars => [StrNext]_strVars
  BY DEF ServicesNext, servicesVars, strVars
<1> QED
  BY <1>1, <1>2, PTL DEF ServicesSpec, StrSpec

\* The part of the provider stack.
LEMMA StkTakesPart == ServicesSpec => StkSpec
<1>1. ServicesInit => StkInit
  BY DEF ServicesInit
<1>2. [ServicesNext]_servicesVars => [StkNext]_stkVars
  BY DEF ServicesNext, servicesVars, stkVars
<1> QED
  BY <1>1, <1>2, PTL DEF ServicesSpec, StkSpec

\* The part of the fact memory.
LEMMA FactTakesPart == ServicesSpec => FactSpec
<1>1. ServicesInit => FactInit
  BY DEF ServicesInit
<1>2. [ServicesNext]_servicesVars => [FactNext]_factVars
  BY DEF ServicesNext, servicesVars, factVars
<1> QED
  BY <1>1, <1>2, PTL DEF ServicesSpec, FactSpec

\* The part of the curated memory.
LEMMA CurTakesPart == ServicesSpec => CurSpec
<1>1. ServicesInit => CurInit
  BY DEF ServicesInit
<1>2. [ServicesNext]_servicesVars => [CurNext]_curVars
  BY DEF ServicesNext, servicesVars, curVars
<1> QED
  BY <1>1, <1>2, PTL DEF ServicesSpec, CurSpec

\* The part of the MCP client.
LEMMA McpTakesPart == ServicesSpec => McpSpec
<1>1. ServicesInit => McpInit
  BY DEF ServicesInit
<1>2. [ServicesNext]_servicesVars => [McpNext]_mcpVars
  BY DEF ServicesNext, servicesVars, mcpVars
<1> QED
  BY <1>1, <1>2, PTL DEF ServicesSpec, McpSpec

\* The part of the budget.
LEMMA BudTakesPart == ServicesSpec => BudSpec
<1>1. ServicesInit => BudInit
  BY DEF ServicesInit
<1>2. [ServicesNext]_servicesVars => [BudNext]_budVars
  BY DEF ServicesNext, servicesVars, budVars
<1> QED
  BY <1>1, <1>2, PTL DEF ServicesSpec, BudSpec

\* The part of the skills.
LEMMA SkTakesPart == ServicesSpec => SkSpec
<1>1. ServicesInit => SkInit
  BY DEF ServicesInit
<1>2. [ServicesNext]_servicesVars => [SkNext]_skVars
  BY DEF ServicesNext, servicesVars, skVars
<1> QED
  BY <1>1, <1>2, PTL DEF ServicesSpec, SkSpec

\* The part of the plugins.
LEMMA PlgTakesPart == ServicesSpec => PlgSpec
<1>1. ServicesInit => PlgInit
  BY DEF ServicesInit
<1>2. [ServicesNext]_servicesVars => [PlgNext]_plgVars
  BY DEF ServicesNext, servicesVars, plgVars
<1> QED
  BY <1>1, <1>2, PTL DEF ServicesSpec, PlgSpec

\* The part of the transcript.
LEMMA ChatTakesPart == ServicesSpec => ChatSpec
<1>1. ServicesInit => ChatInit
  BY DEF ServicesInit
<1>2. [ServicesNext]_servicesVars => [ChatNext]_chatVars
  BY DEF ServicesNext, servicesVars, chatVars
<1> QED
  BY <1>1, <1>2, PTL DEF ServicesSpec, ChatSpec

\* The part of the log.
LEMMA LogTakesPart == ServicesSpec => LogSpec
<1>1. ServicesInit => LogInit
  BY DEF ServicesInit
<1>2. [ServicesNext]_servicesVars => [LogNext]_logVars
  BY DEF ServicesNext, servicesVars, logVars
<1> QED
  BY <1>1, <1>2, PTL DEF ServicesSpec, LogSpec

\* The part of the trace.
LEMMA TrcTakesPart == ServicesSpec => TrcSpec
<1>1. ServicesInit => TrcInit
  BY DEF ServicesInit
<1>2. [ServicesNext]_servicesVars => [TrcNext]_trcVars
  BY DEF ServicesNext, servicesVars, trcVars
<1> QED
  BY <1>1, <1>2, PTL DEF ServicesSpec, TrcSpec

\* The part of the configuration.
LEMMA CfgTakesPart == ServicesSpec => CfgSpec
<1>1. ServicesInit => CfgInit
  BY DEF ServicesInit
<1>2. [ServicesNext]_servicesVars => [CfgNext]_cfgVars
  BY DEF ServicesNext, servicesVars, cfgVars
<1> QED
  BY <1>1, <1>2, PTL DEF ServicesSpec, CfgSpec

\* The part of the compressor.
LEMMA CompressorTakesPart == ServicesSpec => Spec
<1>1. ServicesInit => Init
  BY DEF ServicesInit
<1>2. [ServicesNext]_servicesVars => [Next]_vars
  BY DEF ServicesNext, servicesVars, vars
<1> QED
  BY <1>1, <1>2, PTL DEF ServicesSpec, Spec

(***************************************************************************)
(* The component at work has its type, whichever it is and whatever the    *)
(* others were left in (the parts App.cpp and AppBuilder.cpp put around    *)
(* the loop).                                                              *)
(***************************************************************************)
THEOREM ServicesTypes == ServicesSpec => []ServicesTypeOK
<1>1. ServicesSpec => /\ []StrTypeOK /\ []StkTypeOK /\ []FactTypeOK /\ []CurTypeOK
                      /\ []McpTypeOK /\ []BudTypeOK /\ []SkTypeOK /\ []PlgTypeOK
                      /\ []ChatTypeOK /\ []LogTypeOK /\ []TrcTypeOK /\ []CfgTypeOK /\ []TypeOK
  BY StrTakesPart, StkTakesPart, FactTakesPart, CurTakesPart, McpTakesPart, BudTakesPart,
     SkTakesPart, PlgTakesPart, ChatTakesPart, LogTakesPart, TrcTakesPart, CfgTakesPart,
     CompressorTakesPart,
     StrTypesHold, StkTypesHold, FactTypesHold, CurTypesHold, McpTypesHold, BudTypesHold,
     SkTypesHold, PlgTypesHold, ChatTypesHold, LogTypesHold, TrcTypesHold, CfgTypesHold,
     TypeCorrect
<1>2. /\ StrTypeOK /\ StkTypeOK /\ FactTypeOK /\ CurTypeOK
      /\ McpTypeOK /\ BudTypeOK /\ SkTypeOK /\ PlgTypeOK
      /\ ChatTypeOK /\ LogTypeOK /\ TrcTypeOK /\ CfgTypeOK /\ TypeOK
      => ServicesTypeOK
  BY DEF ServicesTypeOK
<1> QED
  BY <1>1, <1>2, PTL

(***************************************************************************)
(* What the components promise, each for itself, the composition keeps     *)
(* all at once; the curated memory's file while the disk does not fill up. *)
(***************************************************************************)
THEOREM ServicesKeepTheirPromises ==
  ASSUME ~CurShortWrites
  PROVE  ServicesSpec =>
           /\ []AnswersComeBackWhole /\ []RequestsFollowReplies /\ []FactQueriesAreExact
           /\ []FileKeepsWhatWasSaved /\ []McpAnswersAreOwn /\ []UsageIsAccounted
           /\ []SkillCacheIsExact /\ []PluginsAreWhole /\ []ChatShowsWhatCame
           /\ []LogKeepsTheNewest /\ []TraceKeepsTheNewest /\ []ConfigIsKept
           /\ []NothingForgotten /\ []CutIsAllowed /\ []RecentMessagesVerbatim /\ []OrderKept
<1>1. CurSpec => []FileKeepsWhatWasSaved
  BY FileKept
<1> QED
  BY <1>1, StrTakesPart, StkTakesPart, FactTakesPart, CurTakesPart, McpTakesPart, BudTakesPart,
     SkTakesPart, PlgTakesPart, ChatTakesPart, LogTakesPart, TrcTakesPart, CfgTakesPart,
     CompressorTakesPart,
     AnswersWhole, RequestsFollow, FactsExact, McpAnswersOwn, UsageAccounted, SkillCacheExact,
     PluginsWhole, ChatShows, LogKeepsNewest, TraceKept, ConfigKept, NothingIsForgotten,
     CutsAreAllowed, RecentKept, OrderIsKept

=============================================================================
