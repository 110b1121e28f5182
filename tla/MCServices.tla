----------------------------- MODULE MCServices -----------------------------
(***************************************************************************)
(* Model-checking module of the components around the agent loop that      *)
(* share no state: one behaviour is one of them at work, chosen by focus,  *)
(* while the others stay in an initial state, so their states add up and   *)
(* do not multiply.  The context of ContextCompressor is short, so its     *)
(* budgets are the small-context ones: 85 of 100 tokens are the threshold. *)
(***************************************************************************)
EXTENDS ProviderStream, ProviderStack, FactMemory, CuratedMemory, Mcp, Budget, Skills, Plugins,
        ChatArea, LogFiles, TraceFile, Configuration, ContextCompressor

VARIABLE focus

\* Words and categories of the facts: two of them share an entity or a word.
MCFactWords == [c \in FactContents |->
  CASE c = "c1" -> {"Alice", "uses", "vim"}
    [] c = "c2" -> {"Bob", "uses", "vim"}
    [] c = "c3" -> {"Alice", "knows", "Bob"}]
MCFactCategory == [c \in FactContents |-> IF c = "c1" THEN "user_pref" ELSE "general"]

MCCurSize == [e \in CurEntries |-> IF e = "long" THEN 3 ELSE 1]

\* Two directories of one name under two roots, and a third.
MCSkPlaces == <<[root |-> "r1", dir |-> "a"], [root |-> "r2", dir |-> "a"],
                [root |-> "r2", dir |-> "b"]>>

MCPlgMarket == [x \in PlgTargets |-> IF x = "p1" THEN "m" ELSE ""]

MCChatTexts == {<<Glyph, Glyph>>}
MCChatChunks == {<<Glyph>>, <<Glyph, Break>>}

\* A file with limits and neither prices nor a warning, and one that cannot be loaded.
MCCfgEdits ==
  {[CfgEmpty EXCEPT !.model = {"m1"}, !.servers = {{"s"}},
      !.budget = {[limit |-> "own", warn_cost |-> "off", pricing |-> {}]}],
   [CfgEmpty EXCEPT !.model = {"m1"},
      !.onboarding = {[build |-> TRUE, offered |-> FALSE, whole |-> FALSE]}]}

On(component) == focus = component

ServicesInit ==
  /\ focus \in {"ProviderStream", "ProviderStack", "FactMemory", "CuratedMemory", "Mcp", "Budget",
                "Skills", "Plugins", "ChatArea", "LogFiles", "TraceFile", "Configuration",
                "ContextCompressor"}
  /\ StrInit /\ (~On("ProviderStream") =>
       strDialect = "openai" /\ strPath = "plain" /\ strAnswer = [text |-> 0, parts |-> <<>>])
  /\ StkInit /\ (~On("ProviderStack") =>
       stkDialect = "openai" /\ stkMode = "chat" /\ stkHint = "none" /\ stkModel = "")
  /\ FactInit /\ CurInit
  /\ McpInit /\ (~On("Mcp") => mcpKind = "all")
  /\ BudInit /\ (~On("Budget") => budStore)
  /\ SkInit /\ (~On("Skills") => DOMAIN skFiles = {})
  /\ PlgInit /\ ChatInit /\ LogInit
  /\ TrcInit /\ (~On("TraceFile") => trcStorage = "rolling")
  /\ Init /\ (~On("ContextCompressor") => ~abort_on_failure)
  /\ CfgInit /\ (~On("Configuration") => cfgFile = CfgAbsent)

ServicesNext ==
  \/ /\ On("ProviderStream") /\ StrNext
     /\ UNCHANGED <<focus, stkVars, factVars, curVars, mcpVars, budVars, skVars, plgVars,
                    chatVars, logVars, trcVars, cfgVars, vars>>
  \/ /\ On("ProviderStack") /\ StkNext
     /\ UNCHANGED <<focus, strVars, factVars, curVars, mcpVars, budVars, skVars, plgVars,
                    chatVars, logVars, trcVars, cfgVars, vars>>
  \/ /\ On("FactMemory") /\ FactNext
     /\ UNCHANGED <<focus, strVars, stkVars, curVars, mcpVars, budVars, skVars, plgVars,
                    chatVars, logVars, trcVars, cfgVars, vars>>
  \/ /\ On("CuratedMemory") /\ CurNext
     /\ UNCHANGED <<focus, strVars, stkVars, factVars, mcpVars, budVars, skVars, plgVars,
                    chatVars, logVars, trcVars, cfgVars, vars>>
  \/ /\ On("Mcp") /\ McpNext
     /\ UNCHANGED <<focus, strVars, stkVars, factVars, curVars, budVars, skVars, plgVars,
                    chatVars, logVars, trcVars, cfgVars, vars>>
  \/ /\ On("Budget") /\ BudNext
     /\ UNCHANGED <<focus, strVars, stkVars, factVars, curVars, mcpVars, skVars, plgVars,
                    chatVars, logVars, trcVars, cfgVars, vars>>
  \/ /\ On("Skills") /\ SkNext
     /\ UNCHANGED <<focus, strVars, stkVars, factVars, curVars, mcpVars, budVars, plgVars,
                    chatVars, logVars, trcVars, cfgVars, vars>>
  \/ /\ On("Plugins") /\ PlgNext
     /\ UNCHANGED <<focus, strVars, stkVars, factVars, curVars, mcpVars, budVars, skVars,
                    chatVars, logVars, trcVars, cfgVars, vars>>
  \/ /\ On("ChatArea") /\ ChatNext
     /\ UNCHANGED <<focus, strVars, stkVars, factVars, curVars, mcpVars, budVars, skVars,
                    plgVars, logVars, trcVars, cfgVars, vars>>
  \/ /\ On("LogFiles") /\ LogNext
     /\ UNCHANGED <<focus, strVars, stkVars, factVars, curVars, mcpVars, budVars, skVars,
                    plgVars, chatVars, trcVars, cfgVars, vars>>
  \/ /\ On("TraceFile") /\ TrcNext
     /\ UNCHANGED <<focus, strVars, stkVars, factVars, curVars, mcpVars, budVars, skVars,
                    plgVars, chatVars, logVars, cfgVars, vars>>
  \/ /\ On("Configuration") /\ CfgNext
     /\ UNCHANGED <<focus, strVars, stkVars, factVars, curVars, mcpVars, budVars, skVars,
                    plgVars, chatVars, logVars, trcVars, vars>>
  \/ /\ On("ContextCompressor") /\ Next
     /\ UNCHANGED <<focus, strVars, stkVars, factVars, curVars, mcpVars, budVars, skVars,
                    plgVars, chatVars, logVars, trcVars, cfgVars>>

servicesVars == <<focus, strVars, stkVars, factVars, curVars, mcpVars, budVars, skVars,
                  plgVars, chatVars, logVars, trcVars, cfgVars, vars>>

ServicesSpec == ServicesInit /\ [][ServicesNext]_servicesVars

\* The state of the component at work has its type.
ServicesTypeOK ==
  /\ On("ProviderStream") => StrTypeOK
  /\ On("ProviderStack") => StkTypeOK
  /\ On("FactMemory") => FactTypeOK
  /\ On("CuratedMemory") => CurTypeOK
  /\ On("Mcp") => McpTypeOK
  /\ On("Budget") => BudTypeOK
  /\ On("Skills") => SkTypeOK
  /\ On("Plugins") => PlgTypeOK
  /\ On("ChatArea") => ChatTypeOK
  /\ On("LogFiles") => LogTypeOK
  /\ On("TraceFile") => TrcTypeOK
  /\ On("Configuration") => CfgTypeOK
  /\ On("ContextCompressor") => TypeOK

=============================================================================
