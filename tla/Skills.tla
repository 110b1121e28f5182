------------------------------- MODULE Skills -------------------------------
(***************************************************************************)
(* The skill manager (src/src/skill/Skill.cpp): skills are SKILL.md files  *)
(* under an ordered list of roots, found by a scan whose result is cached  *)
(* under a key made of their paths, times and sizes.  The tools of the     *)
(* agent thread (src/src/tool/SkillTools.cpp) and the terminal UI's dialog *)
(* and commands call it without a lock, and files change from outside.     *)
(*                                                                         *)
(* A place is a root and a directory below it; places are numbered in the  *)
(* order of the scan.  Every write of a file has a stamp of its own, for   *)
(* its time, size and text.  Left out: descriptions, tags, categories, the *)
(* plugin prefix of an alias, and the expansion of variables and inline    *)
(* commands in a skill that is viewed.                                     *)
(***************************************************************************)
EXTENDS Integers, Sequences, FiniteSets, SequencesExt

CONSTANTS
  SkPlaces,   \* places in the order of the scan, a sequence of [root, dir]
  SkPrimary,  \* primary_dir(), the root create() writes to
  SkNames,    \* names of skills and of directories
  SkBanned,   \* [skills] disabled of the configuration: names or directories
  SkThreads,  \* threads that call the manager
  SkMaxOps    \* bound: calls and outside changes

ASSUME SkAssumption == SkMaxOps \in Nat /\ Len(SkPlaces) \in Nat /\ SkBanned \subseteq SkNames
ASSUME SkDirsAreNames == \A i \in 1..Len(SkPlaces) : SkPlaces[i].dir \in SkNames

VARIABLES
  skFiles,    \* place -> [name, fits, stamp]: front matter, platform, write; of the files there
  skDisabled, \* disabled_
  skCache,    \* [valid, key, list]: cache_valid_, cache_key_, cache_; and seen, a history:
              \* the places with a file at the scan
  skCall,     \* call of each thread: [op, name, pc, key, list, seen]
  skOps,      \* calls and outside changes so far; also the last stamp
  skOverlap   \* two calls have been under way together

skVars == <<skFiles, skDisabled, skCache, skCall, skOps, skOverlap>>

SkIdle == [op |-> "none", name |-> "", pc |-> "idle", key |-> <<>>, list |-> <<>>, seen |-> {}]
SkGo(t, call) == skCall' = [skCall EXCEPT ![t] = call]
SkDone(t) == SkGo(t, SkIdle)
SkAt(t, pc) == skCall[t].pc = pc

-----------------------------------------------------------------------------
\* What a scan of the files gives.

\* collect_skill_files: the places with a file, in the order of their numbers.
CollectSkillFiles == DOMAIN skFiles
BuildCacheKey == [i \in CollectSkillFiles |-> skFiles[i].stamp]

ParseFrontmatter(i) == skFiles[i]
SkBans(i) == {ParseFrontmatter(i).name, SkPlaces[i].dir} \cap skDisabled

\* scan_impl: an earlier file hides a later one of its name or directory; a file that is
\* hidden for its directory still hides its name.
ScanImpl(filtered) ==
  LET step(acc, i) ==
        LET name == ParseFrontmatter(i).name
            dir == SkPlaces[i].dir
        IN IF i \notin CollectSkillFiles \/ ~ParseFrontmatter(i).fits THEN acc
           ELSE IF (filtered /\ SkBans(i) # {}) \/ name \in acc.names THEN acc
           ELSE [names |-> acc.names \cup {name}, dirs |-> acc.dirs \cup {dir},
                 list |-> IF dir \in acc.dirs THEN acc.list ELSE Append(acc.list, i)]
      start == [names |-> {}, dirs |-> {}, list |-> <<>>]
  IN FoldLeft(step, start, [i \in 1..Len(SkPlaces) |-> i]).list

\* A skill in a listing: its place, and its name when it was scanned.
SkListed(filtered) ==
  [n \in 1..Len(ScanImpl(filtered)) |->
     [place |-> ScanImpl(filtered)[n], name |-> skFiles[ScanImpl(filtered)[n]].name]]

SkMatches(info, name) == name \in {info.name, SkPlaces[info.place].dir}
SkFind(list, name) == SelectInSeq(list, LAMBDA info : SkMatches(info, name))

-----------------------------------------------------------------------------
\* A call begins; list, view, update, remove and disable start with scan_cached.

SkBegin(t, op, name, pc) ==
  /\ skCall[t] = SkIdle /\ skOps < SkMaxOps
  /\ skOps' = skOps + 1
  /\ SkGo(t, [SkIdle EXCEPT !.op = op, !.name = name, !.pc = pc])
  /\ skOverlap' = (skOverlap \/ \E o \in SkThreads : skCall[o] # SkIdle)
  /\ UNCHANGED <<skFiles, skDisabled, skCache>>

SkillsListTool(t) == SkBegin(t, "list", "", "key")
SkillViewTool(t, name) == SkBegin(t, "view", name, "key")
SkillManageTool(t, name) ==
  \/ \E op \in {"update", "remove", "disable"} : SkBegin(t, op, name, "key")
  \/ \E op \in {"create", "enable"} : SkBegin(t, op, name, op)

\* The UI: the commands list and view skills, the dialog switches them on and off.
SkillsCommand(t, name) == SkillsListTool(t) \/ SkillViewTool(t, name)
SkillsDialog(t, name) ==
  \/ SkBegin(t, "disable", name, "key")
  \/ SkBegin(t, "enable", name, "enable")

SkKey(t) ==
  /\ SkAt(t, "key")
  /\ SkGo(t, IF skCache.valid /\ skCache.key = BuildCacheKey
             THEN [skCall[t] EXCEPT !.pc = "found", !.list = skCache.list]
             ELSE [skCall[t] EXCEPT !.pc = "scan", !.key = BuildCacheKey])
  /\ UNCHANGED <<skFiles, skDisabled, skCache, skOps, skOverlap>>

SkScan(t) ==
  /\ SkAt(t, "scan")
  /\ SkGo(t, [skCall[t] EXCEPT !.pc = "keep", !.list = SkListed(TRUE),
                                  !.seen = CollectSkillFiles])
  /\ UNCHANGED <<skFiles, skDisabled, skCache, skOps, skOverlap>>

SkKeep(t) ==
  /\ SkAt(t, "keep")
  /\ skCache' = [valid |-> TRUE, key |-> skCall[t].key, list |-> skCall[t].list,
                 seen |-> skCall[t].seen]
  /\ SkGo(t, [skCall[t] EXCEPT !.pc = "found"])
  /\ UNCHANGED <<skFiles, skDisabled, skOps, skOverlap>>

SkNoCache == [valid |-> FALSE, key |-> <<>>, list |-> <<>>, seen |-> {}]
InvalidateCache == skCache' = SkNoCache

\* The skill a call has found; 0 when there is none.
SkFoundAt(t) == SkFind(skCall[t].list, skCall[t].name)
SkFound(t) == skCall[t].list[SkFoundAt(t)]

\* list and view return, and a call that does not find its skill.
SkReturn(t) ==
  /\ SkAt(t, "found") /\ (skCall[t].op \in {"list", "view"} \/ SkFoundAt(t) = 0)
  /\ SkDone(t)
  /\ UNCHANGED <<skFiles, skDisabled, skCache, skOps, skOverlap>>

SkWrite(i, name, fits) ==
  skFiles' = [p \in DOMAIN skFiles \cup {i} |->
                IF p = i THEN [name |-> name, fits |-> fits, stamp |-> skOps] ELSE skFiles[p]]

\* update: the front matter stays unless the text brings its own.
SkUpdate(t, name) ==
  /\ SkAt(t, "found") /\ skCall[t].op = "update" /\ SkFoundAt(t) # 0
  /\ LET i == SkFound(t).place
     IN \/ SkWrite(i, name, TRUE)
        \/ i \in DOMAIN skFiles /\ SkWrite(i, skFiles[i].name, skFiles[i].fits)
  /\ InvalidateCache /\ SkDone(t)
  /\ UNCHANGED <<skDisabled, skOps, skOverlap>>

SkRemove(t) ==
  /\ SkAt(t, "found") /\ skCall[t].op = "remove" /\ SkFoundAt(t) # 0
  /\ skFiles' = [p \in DOMAIN skFiles \ {SkFound(t).place} |-> skFiles[p]]
  /\ InvalidateCache /\ SkDone(t)
  /\ UNCHANGED <<skDisabled, skOps, skOverlap>>

\* Faulty variant: the cache is left as it is.
SkDisableOnly(t) ==
  /\ SkAt(t, "found") /\ skCall[t].op = "disable" /\ SkFoundAt(t) # 0
  /\ skDisabled' = skDisabled \cup {SkFound(t).name}
  /\ SkDone(t)
  /\ UNCHANGED <<skFiles, skCache, skOps, skOverlap>>

SkDisable(t) ==
  /\ SkAt(t, "found") /\ skCall[t].op = "disable" /\ SkFoundAt(t) # 0
  /\ skDisabled' = skDisabled \cup {SkFound(t).name}
  /\ InvalidateCache /\ SkDone(t)
  /\ UNCHANGED <<skFiles, skOps, skOverlap>>

\* enable takes the name off the list, not the directory.
SkEnable(t) ==
  /\ SkAt(t, "enable")
  /\ LET n == SkFind(SkListed(FALSE), skCall[t].name)
     IN IF n = 0 THEN UNCHANGED <<skDisabled, skCache>>
        ELSE skDisabled' = skDisabled \ {SkListed(FALSE)[n].name} /\ InvalidateCache
  /\ SkDone(t)
  /\ UNCHANGED <<skFiles, skOps, skOverlap>>

\* create writes below the primary root, whether or not another root hides the result.
SkCreate(t) ==
  LET target == [root |-> SkPrimary, dir |-> skCall[t].name]
      i == SelectInSeq(SkPlaces, LAMBDA p : p = target)
  IN /\ SkAt(t, "create") /\ i # 0
     /\ IF i \in DOMAIN skFiles THEN UNCHANGED <<skFiles, skCache>>
        ELSE SkWrite(i, skCall[t].name, TRUE) /\ InvalidateCache
     /\ SkDone(t)
     /\ UNCHANGED <<skDisabled, skOps, skOverlap>>

\* Files change from outside: an editor, the shell tool, a plugin that is removed.
SkEdit(i, name, fits) ==
  /\ skOps < SkMaxOps /\ skOps' = skOps + 1
  /\ skFiles' = [p \in DOMAIN skFiles \cup {i} |->
                   IF p = i THEN [name |-> name, fits |-> fits, stamp |-> skOps'] ELSE skFiles[p]]
  /\ UNCHANGED <<skDisabled, skCache, skCall, skOverlap>>

SkErase(i) ==
  /\ skOps < SkMaxOps /\ skOps' = skOps + 1 /\ i \in DOMAIN skFiles
  /\ skFiles' = [p \in DOMAIN skFiles \ {i} |-> skFiles[p]]
  /\ UNCHANGED <<skDisabled, skCache, skCall, skOverlap>>

SkInit ==
  /\ \E S \in SUBSET (1..Len(SkPlaces)) :
       skFiles = [i \in S |-> [name |-> SkPlaces[i].dir, fits |-> TRUE, stamp |-> 0]]
  /\ skDisabled = SkBanned /\ skCache = SkNoCache
  /\ skCall = [t \in SkThreads |-> SkIdle] /\ skOps = 0 /\ skOverlap = FALSE

SkNext ==
  \/ \E t \in SkThreads :
       \/ SkillsListTool(t)
       \/ \E name \in SkNames :
            \/ SkillViewTool(t, name) \/ SkillManageTool(t, name)
            \/ SkillsCommand(t, name) \/ SkillsDialog(t, name)
       \/ SkKey(t) \/ SkScan(t) \/ SkKeep(t) \/ SkReturn(t)
       \/ SkRemove(t) \/ SkDisable(t) \/ SkEnable(t) \/ SkCreate(t)
       \/ \E name \in SkNames : SkUpdate(t, name)
  \/ \E i \in 1..Len(SkPlaces) :
       SkErase(i) \/ \E name \in SkNames, fits \in BOOLEAN : SkEdit(i, name, fits)

SkSpec == SkInit /\ [][SkNext]_skVars

-----------------------------------------------------------------------------
SkTypeOK ==
  /\ DOMAIN skFiles \subseteq 1..Len(SkPlaces) /\ skDisabled \subseteq SkNames
  /\ skCache.valid \in BOOLEAN /\ skOps \in 0..SkMaxOps

(***************************************************************************)
(* As long as calls do not overlap, a cache whose key is that of the files *)
(* holds what a scan would find now: neither a file that changes between   *)
(* the key and the scan nor a skill switched on or off leaves a stale list *)
(* behind, and a listing has each name and each directory once and nothing *)
(* disabled.  The exception is a file that comes after the key, is there   *)
(* at the scan and goes again: listed or not, it may have hidden another   *)
(* (SkillManager::scan_cached, scan_impl, invalidate_cache).               *)
(***************************************************************************)
SkillCacheIsExact ==
  /\ ~skOverlap /\ skCache.valid /\ skCache.key = BuildCacheKey
  /\ skCache.seen \subseteq CollectSkillFiles
  =>
    /\ skCache.list = SkListed(TRUE)
    /\ \A m, n \in DOMAIN skCache.list : m # n =>
         /\ skCache.list[m].name # skCache.list[n].name
         /\ SkPlaces[skCache.list[m].place].dir # SkPlaces[skCache.list[n].place].dir
    /\ \A m \in DOMAIN skCache.list : SkBans(skCache.list[m].place) = {}

=============================================================================
