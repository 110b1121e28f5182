---------------------------- MODULE Configuration ----------------------------
(***************************************************************************)
(* The configuration file (src/src/config): a process reads it once, lets  *)
(* the environment override it, and works on the copy; the only save is    *)
(* the latch of the profile offer (src/src/app/onboarding.cpp, decided in  *)
(* TuiRunner.cpp), which writes the whole copy over the file.  Others      *)
(* share the file: the user's editor, and further processes.  The write is *)
(* made in place, so it can fail, or the process end, half way.            *)
(*                                                                         *)
(* A file is a set of tables.  Tables and keys that are converted by the   *)
(* same rule are represented by one: onboarding (converted by macro, which *)
(* wants every key of a table that is there), agent.model (optional, not   *)
(* written when empty, overridden by the environment as api_key is),       *)
(* budget (written under a condition) and mcp (written when not empty).    *)
(***************************************************************************)
EXTENDS Integers, FiniteSets

CONSTANTS
  CfgProcesses,
  CfgEdits,    \* files the user may write
  CfgModels,   \* values of EMBEDDED_AGENT_MODEL, "" when it is not set
  CfgMaxStarts, CfgMaxEdits, CfgMaxOther \* bounds: starts, edits; conversations kept or deleted

ASSUME CfgAssumption == {CfgMaxStarts, CfgMaxEdits, CfgMaxOther} \subseteq Nat

VARIABLES
  cfgFile,    \* config.toml
  cfgProc,    \* [pc, config] of each process
  cfgStored,  \* whether the conversation store has a conversation
  cfgProfile, \* whether USER.md has an entry
  cfgStarts, cfgEdited, cfgOther,
  cfgWritten, \* the file as the user last wrote it, a history
  cfgEnv,     \* models the environment gave to a process that saved
  cfgOffers,  \* offers made
  cfgSpoilt   \* whether the latch was kept from the file: a save failed or was cut off,
              \* the user edited the file, or another process read it, before the save

cfgVars == <<cfgFile, cfgProc, cfgStored, cfgProfile, cfgStarts, cfgEdited, cfgOther,
             cfgWritten, cfgEnv, cfgOffers, cfgSpoilt>>
cfgBounds == <<cfgStarts, cfgEdited, cfgOther>>

\* AppConfig with the defaults of its structs.  A warn_cost_usd of 0 is "off".
CfgDefaults ==
  [build |-> TRUE, offered |-> FALSE, model |-> "",
   budget |-> [limit |-> "none", warn_cost |-> "default", pricing |-> {}], servers |-> {}]

\* A file: whether it is there and is TOML, and each table or key, as the set of its value,
\* empty when it is not there; the table [onboarding] may lack a key.
CfgEmpty == [state |-> "toml", onboarding |-> {}, model |-> {}, budget |-> {}, servers |-> {}]
CfgAbsent == [CfgEmpty EXCEPT !.state = "absent"]
CfgTorn == [CfgEmpty EXCEPT !.state = "torn"]
CfgTables == DOMAIN CfgEmpty \ {"state"}

ASSUME CfgEditsAreFiles ==
  \A file \in CfgEdits : DOMAIN file = DOMAIN CfgEmpty /\ file.state \in {"toml", "absent", "torn"}

-----------------------------------------------------------------------------
\* TomlConversion.h

CfgLoads(file) == file.state # "torn" /\ \A table \in file.onboarding : table.whole

\* An optional key has its default when it is not there, and is not written when empty.
CfgOr(table, default) == IF table = {} THEN default ELSE CHOOSE v \in table : TRUE
CfgUnless(value, empty) == {value} \ {empty}

CfgOnboardingFrom(file) ==
  CfgOr(file.onboarding, [build |-> CfgDefaults.build, offered |-> CfgDefaults.offered])
CfgAgentFrom(file)   == CfgOr(file.model, CfgDefaults.model)
CfgBudgetFrom(file)  == CfgOr(file.budget, CfgDefaults.budget)
CfgServersFrom(file) == CfgOr(file.servers, CfgDefaults.servers)

CfgFrom(file) ==
  [build   |-> CfgOnboardingFrom(file).build,
   offered |-> CfgOnboardingFrom(file).offered,
   model   |-> CfgAgentFrom(file),
   budget  |-> CfgBudgetFrom(file),
   servers |-> CfgServersFrom(file)]

CfgOnboardingInto(config) ==
  {[build |-> config.build, offered |-> config.offered, whole |-> TRUE]}
CfgAgentInto(config) == CfgUnless(config.model, "")

\* Limits alone do not make a budget worth writing.
CfgTrivial(budget) == budget.pricing = {} /\ budget.warn_cost = "off"
CfgBudgetInto(config) == {b \in {config.budget} : ~CfgTrivial(b)}

\* Faulty variant: save() does not know of the servers, which load() reads.
CfgServersIntoNothing(config) == {}

CfgServersInto(config) == CfgUnless(config.servers, {})

CfgInto(config) ==
  [state      |-> "toml",
   onboarding |-> CfgOnboardingInto(config),
   model      |-> CfgAgentInto(config),
   budget     |-> CfgBudgetInto(config),
   servers    |-> CfgServersInto(config)]

-----------------------------------------------------------------------------
\* A process

CfgDown == [pc |-> "down", config |-> CfgDefaults, env |-> ""]
CfgGo(p, pc) == cfgProc' = [cfgProc EXCEPT ![p].pc = pc]
CfgSaving == \E p \in CfgProcesses : cfgProc[p].pc \in {"loaded", "offered", "saving"}

\* load(), and main(), which ends when it fails
CfgLoad(p, model) ==
  /\ cfgProc[p].pc = "down" /\ cfgStarts < CfgMaxStarts
  /\ cfgStarts' = cfgStarts + 1
  /\ cfgProc' = IF ~CfgLoads(cfgFile) THEN cfgProc
                ELSE [cfgProc EXCEPT ![p] =
                        [pc |-> "loaded", env |-> model,
                         config |-> [CfgFrom(cfgFile) EXCEPT !.model = IF model = "" THEN @ ELSE model]]]
  /\ cfgSpoilt' = (cfgSpoilt \/ CfgSaving)
  /\ UNCHANGED <<cfgFile, cfgStored, cfgProfile, cfgEdited, cfgOther, cfgWritten, cfgEnv, cfgOffers>>

\* should_offer_profile, and the conditions of TuiRunner; the store may fail to list.
CfgOffered(p, listed) ==
  /\ cfgProc[p].config.build /\ ~cfgProc[p].config.offered
  /\ ~(listed /\ cfgStored) /\ ~cfgProfile

CfgRun(p, listed) ==
  /\ cfgProc[p].pc = "loaded"
  /\ CfgGo(p, IF CfgOffered(p, listed) THEN "offered" ELSE "running")
  /\ cfgOffers' = IF CfgOffered(p, listed) THEN cfgOffers + 1 ELSE cfgOffers
  /\ UNCHANGED <<cfgFile, cfgStored, cfgProfile, cfgBounds, cfgWritten, cfgEnv, cfgSpoilt>>

\* mark_profile_offered and save(): the latch is set in the copy, the file opened, which
\* empties it, and written.
MarkProfileOffered(p) ==
  /\ cfgProc[p].pc = "offered"
  /\ cfgProc' = [cfgProc EXCEPT ![p].config.offered = TRUE, ![p].pc = "saving"]
  /\ cfgFile' = CfgEmpty
  /\ cfgEnv' = cfgEnv \cup {cfgProc[p].env}
  /\ UNCHANGED <<cfgStored, cfgProfile, cfgBounds, cfgWritten, cfgOffers, cfgSpoilt>>

CfgWrite(p) ==
  /\ cfgProc[p].pc = "saving"
  /\ cfgFile' = CfgInto(cfgProc[p].config)
  /\ CfgGo(p, "running")
  /\ UNCHANGED <<cfgStored, cfgProfile, cfgBounds, cfgWritten, cfgEnv, cfgOffers, cfgSpoilt>>

\* What is left of a write that does not come to its end.
CfgCutOff(p) ==
  {CfgTorn} \cup {[x \in DOMAIN CfgEmpty |->
                    IF x \in kept THEN CfgInto(cfgProc[p].config)[x] ELSE CfgEmpty[x]]
                 : kept \in SUBSET CfgTables}

\* The file cannot be opened, or the disk is full: a warning.
CfgSaveFails(p) ==
  /\ \/ /\ cfgProc[p].pc = "offered"
        /\ cfgProc' = [cfgProc EXCEPT ![p].config.offered = TRUE, ![p].pc = "running"]
        /\ UNCHANGED cfgFile
     \/ /\ cfgProc[p].pc = "saving"
        /\ cfgFile' \in CfgCutOff(p)
        /\ CfgGo(p, "running")
  /\ cfgSpoilt' = TRUE
  /\ UNCHANGED <<cfgStored, cfgProfile, cfgBounds, cfgWritten, cfgEnv, cfgOffers>>

\* The process ends, or is killed.
CfgEnd(p) ==
  /\ cfgProc[p].pc # "down"
  /\ cfgProc' = [cfgProc EXCEPT ![p] = CfgDown]
  /\ cfgFile' \in IF cfgProc[p].pc = "saving" THEN CfgCutOff(p) ELSE {cfgFile}
  /\ cfgSpoilt' = (cfgSpoilt \/ cfgProc[p].pc \in {"offered", "saving"})
  /\ UNCHANGED <<cfgStored, cfgProfile, cfgBounds, cfgWritten, cfgEnv, cfgOffers>>

-----------------------------------------------------------------------------
\* The user, and the rest of the program: a conversation is kept or deleted, the profile
\* gets an entry or loses it.

CfgEdit(file) ==
  /\ cfgEdited < CfgMaxEdits
  /\ cfgEdited' = cfgEdited + 1
  /\ cfgFile' = file /\ cfgWritten' = file
  /\ cfgEnv' = {} /\ cfgOffers' = 0
  /\ cfgSpoilt' = CfgSaving
  /\ UNCHANGED <<cfgProc, cfgStored, cfgProfile, cfgStarts, cfgOther>>

CfgOther ==
  /\ cfgOther < CfgMaxOther
  /\ cfgOther' = cfgOther + 1
  /\ \/ cfgStored' = ~cfgStored /\ UNCHANGED cfgProfile
     \/ cfgProfile' = ~cfgProfile /\ UNCHANGED cfgStored
  /\ UNCHANGED <<cfgFile, cfgProc, cfgStarts, cfgEdited, cfgWritten, cfgEnv, cfgOffers, cfgSpoilt>>

CfgInit ==
  /\ cfgFile \in {CfgAbsent} \cup CfgEdits /\ cfgWritten = cfgFile
  /\ cfgProc = [p \in CfgProcesses |-> CfgDown]
  /\ cfgStored = FALSE /\ cfgProfile = FALSE
  /\ cfgStarts = 0 /\ cfgEdited = 0 /\ cfgOther = 0
  /\ cfgEnv = {} /\ cfgOffers = 0 /\ cfgSpoilt = FALSE

CfgNext ==
  \/ \E p \in CfgProcesses :
       \/ \E model \in CfgModels : CfgLoad(p, model)
       \/ \E listed \in BOOLEAN : CfgRun(p, listed)
       \/ MarkProfileOffered(p) \/ CfgWrite(p) \/ CfgSaveFails(p) \/ CfgEnd(p)
  \/ \E file \in CfgEdits : CfgEdit(file)
  \/ CfgOther

CfgSpec == CfgInit /\ [][CfgNext]_cfgVars

-----------------------------------------------------------------------------
CfgTypeOK ==
  /\ DOMAIN cfgFile = DOMAIN CfgEmpty /\ cfgFile.state \in {"toml", "absent", "torn"}
  /\ \A p \in CfgProcesses :
       /\ cfgProc[p].pc \in {"down", "loaded", "offered", "saving", "running"}
       /\ DOMAIN cfgProc[p].config = DOMAIN CfgDefaults
  /\ {cfgStored, cfgProfile, cfgSpoilt} \subseteq BOOLEAN
  /\ {cfgStarts, cfgEdited, cfgOther, cfgOffers} \subseteq Nat

\* The profile is offered once, also when conversations and profile are deleted again, and
\* the save that remembers it leaves the rest of the file as the user wrote it: nobody
\* notices it but for a model the environment gave (the API key of the environment is
\* written into the file the same way) and a budget without prices and warning, whose
\* limits are dropped and whose warning comes back.
ConfigIsKept ==
  ~cfgSpoilt /\ ~CfgSaving /\ CfgLoads(cfgWritten) =>
    /\ CfgLoads(cfgFile)
    /\ cfgOffers <= 1
    /\ LET was == CfgFrom(cfgWritten)
           is == CfgFrom(cfgFile)
       IN /\ is.build = was.build /\ is.servers = was.servers
          /\ (is.offered <=> was.offered \/ cfgOffers > 0)
          /\ is.model \in {was.model} \cup cfgEnv
          /\ is.budget # was.budget =>
               CfgTrivial(was.budget) /\ cfgOffers > 0 /\ is.budget = CfgDefaults.budget

=============================================================================
