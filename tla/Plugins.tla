------------------------------- MODULE Plugins -------------------------------
(***************************************************************************)
(* Plugins and marketplaces: directories that git clones                   *)
(* (PluginManager of src/src/skill/Skill.cpp), one source after another,   *)
(* for the tools of the agent thread (src/src/tool/SkillTools.cpp) and the *)
(* plugin thread of the terminal UI (src/src/tui/TuiApp.cpp).  Nothing     *)
(* keeps two of them, or two processes, from working on one directory, and *)
(* a process may die within a clone.                                       *)
(*                                                                         *)
(* git and the network are external.  A target stands for a plugin or a    *)
(* marketplace with the name, URL and directory that are derived from it;  *)
(* names and URLs that are refused as malformed are left out.              *)
(***************************************************************************)
EXTENDS Integers, FiniteSets

CONSTANTS
  PlgTargets, \* plugins and marketplaces
  PlgMarket,  \* the marketplace a target is looked up in, or "" when its URL is given
  PlgSources, \* number of sources tried: the mirrors and the URL itself
  PlgThreads, \* threads that install and remove
  PlgMaxOps   \* bound: calls and crashes

ASSUME PlgAssumption == PlgSources \in Nat \ {0} /\ PlgMaxOps \in Nat /\ "" \notin PlgTargets

VARIABLES
  plgDirs,      \* target -> "partial", "whole", or "bare": without skills/ or marketplace.json
  plgCall,      \* call of each thread: [op, target, pc, sources]
  plgInstalled, \* targets reported as installed and not removed since
  plgContended, \* targets two calls have worked on together, or a crash has left
  plgOps

plgVars == <<plgDirs, plgCall, plgInstalled, plgContended, plgOps>>

PlgIdle == [op |-> "none", target |-> "", pc |-> "idle", sources |-> 0]
PlgGo(t, call) == plgCall' = [plgCall EXCEPT ![t] = call]
PlgDone(t) == PlgGo(t, PlgIdle)
PlgAt(t, pc) == plgCall[t].pc = pc
PlgTarget(t) == plgCall[t].target
PlgThere(x) == x \in DOMAIN plgDirs
PlgPut(x, state) ==
  plgDirs' = [y \in DOMAIN plgDirs \cup {x} |-> IF y = x THEN state ELSE plgDirs[y]]
PlgRemoveAll(x) == plgDirs' = [y \in DOMAIN plgDirs \ {x} |-> plgDirs[y]]

-----------------------------------------------------------------------------
\* Calls: plugin_install, plugin_marketplace, and the /plugin commands.

PlgBegin(t, op, x) ==
  /\ plgCall[t] = PlgIdle /\ plgOps < PlgMaxOps
  /\ plgOps' = plgOps + 1
  /\ PlgGo(t, [op |-> op, target |-> x, pc |-> op, sources |-> PlgSources])
  /\ plgContended' = IF \E o \in PlgThreads : plgCall[o].target = x
                     THEN plgContended \cup {x} ELSE plgContended
  /\ UNCHANGED <<plgDirs, plgInstalled>>

PluginInstallTool(t, x) == PlgBegin(t, "install", x)
PluginMarketplaceTool(t, x) == \E op \in {"install", "remove"} : PlgBegin(t, op, x)
\* Removals are made by the UI thread at once, installations by the plugin thread.
PluginCommand(t, x) == \E op \in {"install", "remove"} : PlgBegin(t, op, x)

\* resolve_url: a marketplace that is not registered is an error.
ResolveUrl(x) == PlgMarket[x] = "" \/ PlgThere(PlgMarket[x])

\* install and add_marketplace, up to the clone.
PlgInstall(t) ==
  /\ PlgAt(t, "install")
  /\ IF ResolveUrl(PlgTarget(t)) /\ ~PlgThere(PlgTarget(t))
     THEN PlgGo(t, [plgCall[t] EXCEPT !.pc = "probe"])
     ELSE PlgDone(t)
  /\ UNCHANGED <<plgDirs, plgInstalled, plgContended, plgOps>>

\* clone_with_fallback: the next source, or the error that all have failed.
PlgNextSource(t) ==
  IF plgCall[t].sources > 1
  THEN PlgGo(t, [op |-> "install", target |-> PlgTarget(t), pc |-> "probe",
                 sources |-> plgCall[t].sources - 1])
  ELSE PlgDone(t)

ProbeReachable(t, reachable) ==
  /\ PlgAt(t, "probe")
  /\ IF reachable THEN PlgGo(t, [plgCall[t] EXCEPT !.pc = "clone"]) ELSE PlgNextSource(t)
  /\ UNCHANGED <<plgDirs, plgInstalled, plgContended, plgOps>>

\* git makes the directory, and refuses one that is there already.
PlgCloneStarts(t) ==
  /\ PlgAt(t, "clone")
  /\ IF PlgThere(PlgTarget(t))
     THEN PlgGo(t, [plgCall[t] EXCEPT !.pc = "failed"]) /\ UNCHANGED plgDirs
     ELSE PlgGo(t, [plgCall[t] EXCEPT !.pc = "cloning"]) /\ PlgPut(PlgTarget(t), "partial")
  /\ UNCHANGED <<plgInstalled, plgContended, plgOps>>

PlgCloneEnds(t, outcome) ==
  /\ PlgAt(t, "cloning")
  /\ PlgPut(PlgTarget(t), outcome)
  /\ PlgGo(t, [plgCall[t] EXCEPT !.pc = IF outcome = "partial" THEN "failed" ELSE "verify"])
  /\ UNCHANGED <<plgInstalled, plgContended, plgOps>>

\* Faulty variant: nothing takes away what a failed clone has written.
PlgCleanupForgotten(t) ==
  /\ PlgAt(t, "failed")
  /\ PlgNextSource(t)
  /\ UNCHANGED <<plgDirs, plgInstalled, plgContended, plgOps>>

\* A source that fails takes the directory away, whoever has made it.
PlgCleanup(t) ==
  /\ PlgAt(t, "failed")
  /\ PlgRemoveAll(PlgTarget(t))
  /\ PlgNextSource(t)
  /\ UNCHANGED <<plgInstalled, plgContended, plgOps>>

\* skills/ or marketplace.json must be there.
PlgVerify(t) ==
  LET x == PlgTarget(t)
  IN /\ PlgAt(t, "verify")
     /\ IF PlgThere(x) /\ plgDirs[x] = "whole"
        THEN plgInstalled' = plgInstalled \cup {x} /\ UNCHANGED plgDirs
        ELSE PlgRemoveAll(x) /\ UNCHANGED plgInstalled
     /\ PlgDone(t)
     /\ UNCHANGED <<plgContended, plgOps>>

PlgRemove(t) ==
  /\ PlgAt(t, "remove")
  /\ PlgRemoveAll(PlgTarget(t))
  /\ plgInstalled' = plgInstalled \ {PlgTarget(t)}
  /\ PlgDone(t)
  /\ UNCHANGED <<plgContended, plgOps>>

\* The process dies; what it was cloning stays as it is.
PlgCrash ==
  /\ plgOps < PlgMaxOps /\ plgOps' = plgOps + 1
  /\ plgCall' = [t \in PlgThreads |-> PlgIdle]
  /\ plgContended' = plgContended \cup {PlgTarget(t) : t \in {o \in PlgThreads :
                                          plgCall[o].pc \in {"cloning", "failed", "verify"}}}
  /\ UNCHANGED <<plgDirs, plgInstalled>>

\* list and list_marketplaces; skill_roots takes those with skills.
PluginList == DOMAIN plgDirs
SkillRoots == {x \in DOMAIN plgDirs : plgDirs[x] = "whole"}

PlgInit ==
  /\ plgDirs = [x \in {} |-> ""] /\ plgCall = [t \in PlgThreads |-> PlgIdle]
  /\ plgInstalled = {} /\ plgContended = {} /\ plgOps = 0

PlgNext ==
  \/ \E t \in PlgThreads :
       \/ \E x \in PlgTargets :
            PluginInstallTool(t, x) \/ PluginMarketplaceTool(t, x) \/ PluginCommand(t, x)
       \/ PlgInstall(t) \/ PlgCloneStarts(t) \/ PlgCleanup(t) \/ PlgVerify(t) \/ PlgRemove(t)
       \/ \E reachable \in BOOLEAN : ProbeReachable(t, reachable)
       \/ \E outcome \in {"partial", "whole", "bare"} : PlgCloneEnds(t, outcome)
  \/ PlgCrash

PlgSpec == PlgInit /\ [][PlgNext]_plgVars

-----------------------------------------------------------------------------
PlgTypeOK ==
  /\ DOMAIN plgDirs \cup plgInstalled \cup plgContended \subseteq PlgTargets
  /\ \A x \in DOMAIN plgDirs : plgDirs[x] \in {"partial", "whole", "bare"}
  /\ plgOps \in 0..PlgMaxOps

(***************************************************************************)
(* What has been reported as installed is there in full until it is        *)
(* removed, whatever happens to other targets, sources that fail half way  *)
(* and calls that fail; and what no call works on any more is either there *)
(* in full or not at all, so that a failed install can be tried again.     *)
(* This holds for a target one call works on at a time and no crash cuts   *)
(* short (PluginManager::install, add_marketplace, clone_with_fallback).   *)
(***************************************************************************)
PluginsAreWhole ==
  \A x \in PlgTargets \ plgContended :
    /\ x \in plgInstalled => x \in SkillRoots
    /\ (\A t \in PlgThreads : PlgTarget(t) # x) => PlgThere(x) = (x \in plgInstalled)

=============================================================================
