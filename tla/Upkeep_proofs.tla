---------------------------- MODULE Upkeep_proofs ---------------------------
(***************************************************************************)
(* Proofs about what keeps the lists and files of a session in shape, for  *)
(* any files, texts and sizes, whatever fails and whoever dies:            *)
(*   SkillCacheExact  a cached listing of the skills is what is there      *)
(*   ChatShows        what came is shown once, in order and as Wrap would  *)
(*   LogKeepsNewest   what is left of the log is its newest part           *)
(*   PluginsWhole     a plugin is there in full or not at all              *)
(*   FileKept         the curated memory's file keeps what was saved,      *)
(*                    while the disk does not fill up                      *)
(*   ConfigKept       a save leaves the configuration as the user wrote it *)
(*   TraceKept        what is left of the trace is its newest part         *)
(* and, of each of these components, that its state has its type.          *)
(***************************************************************************)
EXTENDS Skills, ChatArea, LogFiles, Plugins, CuratedMemory, Configuration, TraceFile, Integers,
        NaturalSets, FiniteSetTheorems, SequenceTheorems, TLAPS

-----------------------------------------------------------------------------
(* Joined sequences *)

\* it[k] is the first k of some sequences joined.
Flattens(seqs, S, it) ==
  /\ it[0] = <<>>
  /\ \A k \in 0..Len(seqs) : it[k] \in Seq(S)
  /\ \A k \in 1..Len(seqs) : it[k] = it[k - 1] \o seqs[k]

\* Joined one after the other, which FlattenSeq does from either end.
LEMMA FlattenIs ==
  ASSUME NEW S, NEW seqs \in Seq(Seq(S))
  PROVE  \E it : Flattens(seqs, S, it) /\ FlattenSeq(seqs) = it[Len(seqs)]
<1> DEFINE n == Len(seqs)
           V == Seq(S)
           step == [p \in (1..n) \X V |-> p[2] \o seqs[p[1]]]
<1>1. n \in Nat /\ <<>> \in V /\ \A i \in 1..n : seqs[i] \in V
  <2>1. \A i \in 1..n : seqs[i] \in V
    OBVIOUS
  <2>2. <<>> \in V
    OBVIOUS
  <2> QED BY <2>1, <2>2
<1>2. \A i \in 1..n, acc \in V : acc \o seqs[i] \in V
  BY <1>1, ConcatProperties
<1> HIDE DEF V
<1>3. /\ step \in [(1..n) \X V -> V]
      /\ \A i \in 1..n, acc \in V : step[<<i, acc>>] = acc \o seqs[i]
  BY <1>2
<1> HIDE DEF n, step
<1>4. PICK f : FoldsUpTo(f, n, V, <<>>, step)
  <2>1. PICK e : e = <<>>
    OBVIOUS
  <2>2. CanFold(n, V, e, step)
    BY <1>1, <1>3, <2>1 DEF CanFold
  <2>3. \E f : FoldsUpTo(f, n, V, e, step)
    BY <2>2, RecursionOnIntervals
  <2> QED BY <2>1, <2>3
<1> DEFINE it == [k \in 0..n |-> f[1..k]]
<1>5. \A k \in 0..n : it[k] = f[1..k]
  OBVIOUS
<1> HIDE DEF it
<1>6. 0 \in 0..n /\ n \in 0..n /\ 1..0 = {} /\ \A k \in 1..n : k \in 0..n /\ k - 1 \in 0..n
  BY <1>1
<1>7. \A k \in 0..n : it[k] \in V
  BY <1>4, <1>5 DEF FoldsUpTo
<1>8. it[0] = <<>>
  BY <1>4, <1>5, <1>6 DEF FoldsUpTo
<1>9. ASSUME NEW k \in 1..n PROVE it[k] = it[k - 1] \o seqs[k]
  <2>1. f[1..k] = step[<<k, f[1..k - 1]>>] /\ f[1..k - 1] \in V
    BY <1>4, <1>6 DEF FoldsUpTo
  <2>2. it[k] = f[1..k] /\ it[k - 1] = f[1..k - 1]
    BY <1>5, <1>6
  <2> QED BY <1>3, <2>1, <2>2
<1>10. Flattens(seqs, S, it)
  BY <1>7, <1>8, <1>9 DEF Flattens, n, V
<1>11. FlattenSeq(seqs) = it[n]
  <2>1. CASE n = 0
    <3>1. seqs = <<>> /\ FlattenSeq(seqs) = seqs
      BY <2>1 DEF n, FlattenSeq
    <3> QED BY <1>8, <2>1, <3>1
  <2>2. CASE n # 0
    <3> DEFINE Rec(g) == g = [i \in 1..n |-> IF i = 1 THEN seqs[i] ELSE g[i - 1] \o seqs[i]]
               flatten == CHOOSE g : Rec(g)
               g == [i \in 1..n |-> it[i]]
    <3>1. FlattenSeq(seqs) = flatten[n]
      BY <2>2 DEF FlattenSeq, n
    <3>2. Rec(g)
      <4>1. ASSUME NEW i \in 1..n
            PROVE  g[i] = IF i = 1 THEN seqs[i] ELSE g[i - 1] \o seqs[i]
        <5>1. it[i] = it[i - 1] \o seqs[i] /\ g[i] = it[i]
          BY <1>9
        <5>2. CASE i = 1
          <6>1. i - 1 = 0 /\ seqs[i] \in Seq(S)
            BY <1>1, <5>2 DEF V
          <6>2. <<>> \o seqs[i] = seqs[i]
            BY <6>1, ConcatEmptySeq
          <6> QED BY <1>8, <5>1, <5>2, <6>1, <6>2
        <5>3. CASE i # 1
          <6>1. i - 1 \in 1..n
            BY <1>1, <5>3
          <6>2. g[i - 1] = it[i - 1]
            BY <6>1
          <6> QED BY <5>1, <5>3, <6>2
        <5> QED BY <5>2, <5>3
      <4>2. g = [i \in 1..n |-> g[i]]
        OBVIOUS
      <4> HIDE DEF g
      <4> QED BY <4>1, <4>2
    <3>3. Rec(flatten)
      <4> HIDE DEF Rec
      <4> QED BY <3>2
    <3> HIDE DEF flatten
    <3> DEFINE P == {k \in 0..n : k # 0 => flatten[k] = g[k]}
    <3>4. 0 \in P
      BY <1>6
    <3>5. ASSUME NEW k \in 0..n - 1, k \in P PROVE k + 1 \in P
      <4>1. k + 1 \in 1..n /\ k + 1 \in 0..n /\ k + 1 - 1 = k /\ (k + 1 = 1 <=> k = 0)
        BY <1>1
      <4>2. PICK j : j = k + 1
        OBVIOUS
      <4>3. j \in 1..n /\ (j = 1 <=> k = 0) /\ j - 1 = k
        BY <4>1, <4>2
      <4>4. flatten[j] = IF j = 1 THEN seqs[j] ELSE flatten[j - 1] \o seqs[j]
        BY <3>3, <4>3
      <4> HIDE DEF g
      <4>5. g[j] = IF j = 1 THEN seqs[j] ELSE g[j - 1] \o seqs[j]
        BY <3>2, <4>3
      <4> HIDE DEF Rec
      <4>6. flatten[j] = g[j]
        BY <3>5, <4>3, <4>4, <4>5
      <4> QED BY <4>1, <4>2, <4>6
    <3>6. n \in P
      <4> HIDE DEF P
      <4>1. \A k \in 0..n : k \in P
        BY <1>1, <3>4, <3>5, NaturalsUpTo
      <4> QED BY <1>6, <4>1
    <3>7. g[n] = it[n]
      BY <1>1, <2>2
    <3> QED BY <2>2, <3>1, <3>6, <3>7
  <2> QED BY <2>1, <2>2
<1> QED
  BY <1>10, <1>11 DEF n

-----------------------------------------------------------------------------
(* Skills: the cache and the files *)

\* The listing of a set of files: what SkListed(TRUE) is of the files now.
SkHides(files, disabled, i) == {files[i].name, SkPlaces[i].dir} \cap disabled # {}
SkScanStep(files, disabled, acc, i) ==
  IF i \notin DOMAIN files \/ ~files[i].fits THEN acc
  ELSE IF SkHides(files, disabled, i) \/ files[i].name \in acc.names THEN acc
  ELSE [names |-> acc.names \cup {files[i].name}, dirs |-> acc.dirs \cup {SkPlaces[i].dir},
        list |-> IF SkPlaces[i].dir \in acc.dirs THEN acc.list ELSE Append(acc.list, i)]
SkScanStart == [names |-> {}, dirs |-> {}, list |-> <<>>]
SkScanOf(files, disabled) ==
  FoldLeft(LAMBDA acc, i : SkScanStep(files, disabled, acc, i), SkScanStart,
           [i \in 1..Len(SkPlaces) |-> i]).list
SkListOf(files, disabled) ==
  [n \in 1..Len(SkScanOf(files, disabled)) |->
     [place |-> SkScanOf(files, disabled)[n], name |-> files[SkScanOf(files, disabled)[n]].name]]

\* SkListed(TRUE) is the listing of the files there are.
LEMMA SkListedIsOfTheFiles == SkListed(TRUE) = SkListOf(skFiles, skDisabled)
<1>1. ScanImpl(TRUE) = SkScanOf(skFiles, skDisabled)
  BY DEF ScanImpl, SkScanOf, SkScanStep, SkScanStart, SkHides, SkBans, ParseFrontmatter,
         CollectSkillFiles, FoldLeft, MapThenFoldSet
<1> QED
  BY <1>1 DEF SkListed, SkListOf

\* What is listed is there and not disabled, and its names and directories are taken.
SkScanned(files, disabled, acc) ==
  /\ \A m \in DOMAIN acc.list :
       /\ acc.list[m] \in DOMAIN files /\ ~SkHides(files, disabled, acc.list[m])
       /\ files[acc.list[m]].name \in acc.names /\ SkPlaces[acc.list[m]].dir \in acc.dirs
  /\ \A m, n \in DOMAIN acc.list : m # n =>
       /\ files[acc.list[m]].name # files[acc.list[n]].name
       /\ SkPlaces[acc.list[m]].dir # SkPlaces[acc.list[n]].dir
SkAccs(files, disabled) ==
  {acc \in [names : SUBSET {files[i].name : i \in DOMAIN files},
            dirs : SUBSET {SkPlaces[i].dir : i \in 1..Len(SkPlaces)},
            list : Seq(1..Len(SkPlaces))] : SkScanned(files, disabled, acc)}

\* One more place: a file there that is not hidden is added.
LEMMA SkScanStepKeeps ==
  ASSUME NEW files, NEW disabled, NEW acc \in SkAccs(files, disabled),
         NEW i \in 1..Len(SkPlaces)
  PROVE  SkScanStep(files, disabled, acc, i) \in SkAccs(files, disabled)
<1>1. CASE i \notin DOMAIN files \/ ~files[i].fits \/ SkHides(files, disabled, i)
             \/ files[i].name \in acc.names
  BY <1>1 DEF SkScanStep
<1>2. CASE /\ i \in DOMAIN files /\ files[i].fits /\ ~SkHides(files, disabled, i)
           /\ files[i].name \notin acc.names
  <2> DEFINE name == files[i].name
             dir == SkPlaces[i].dir
             list == IF dir \in acc.dirs THEN acc.list ELSE Append(acc.list, i)
             next == [names |-> acc.names \cup {name}, dirs |-> acc.dirs \cup {dir},
                      list |-> list]
  <2>1. SkScanStep(files, disabled, acc, i) = next
    BY <1>2 DEF SkScanStep
  <2>2. /\ acc.names \in SUBSET {files[j].name : j \in DOMAIN files}
        /\ acc.dirs \in SUBSET {SkPlaces[j].dir : j \in 1..Len(SkPlaces)}
        /\ acc.list \in Seq(1..Len(SkPlaces)) /\ SkScanned(files, disabled, acc)
    BY DEF SkAccs
  <2>3. list \in Seq(1..Len(SkPlaces))
    <3>1. Append(acc.list, i) \in Seq(1..Len(SkPlaces))
      BY <2>2, Zenon, AppendProperties
    <3> QED BY <2>2, <3>1
  <2>4. next \in [names : SUBSET {files[j].name : j \in DOMAIN files},
                  dirs : SUBSET {SkPlaces[j].dir : j \in 1..Len(SkPlaces)},
                  list : Seq(1..Len(SkPlaces))]
    <3>1. acc.names \cup {name} \in SUBSET {files[j].name : j \in DOMAIN files}
      BY <1>2, <2>2
    <3>2. acc.dirs \cup {dir} \in SUBSET {SkPlaces[j].dir : j \in 1..Len(SkPlaces)}
      BY <2>2
    <3> HIDE DEF name, dir, list
    <3> QED BY <2>3, <3>1, <3>2
  <2>5. SkScanned(files, disabled, next)
    <3>1. CASE dir \in acc.dirs
      <4>1. list = acc.list
        BY <3>1
      <4> HIDE DEF list
      <4> QED BY <2>2, <4>1 DEF SkScanned
    <3>2. CASE dir \notin acc.dirs
      <4>1. /\ DOMAIN acc.list = 1..Len(acc.list) /\ Len(acc.list) \in Nat
            /\ DOMAIN list = 1..Len(acc.list) + 1 /\ list[Len(acc.list) + 1] = i
            /\ \A m \in DOMAIN acc.list : list[m] = acc.list[m]
        BY <2>2, <3>2
      <4> HIDE DEF list
      <4>2. \A m \in DOMAIN list : m \in DOMAIN acc.list \/ m = Len(acc.list) + 1
        BY <4>1
      <4>6. \A m \in DOMAIN acc.list :
              /\ acc.list[m] \in DOMAIN files /\ ~SkHides(files, disabled, acc.list[m])
              /\ files[acc.list[m]].name \in acc.names
              /\ SkPlaces[acc.list[m]].dir \in acc.dirs
        BY <2>2 DEF SkScanned
      <4>3. next.list = list /\ next.names = acc.names \cup {name}
            /\ next.dirs = acc.dirs \cup {dir}
        OBVIOUS
      <4> HIDE DEF next
      <4>4. \A m \in DOMAIN list :
              /\ list[m] \in DOMAIN files /\ ~SkHides(files, disabled, list[m])
              /\ files[list[m]].name \in next.names /\ SkPlaces[list[m]].dir \in next.dirs
        <5>1. ASSUME NEW m \in DOMAIN acc.list
              PROVE  /\ list[m] \in DOMAIN files /\ ~SkHides(files, disabled, list[m])
                     /\ files[list[m]].name \in next.names
                     /\ SkPlaces[list[m]].dir \in next.dirs
          BY <4>1, <4>3, <4>6, <5>1
        <5>2. SkPlaces[i].dir \in next.dirs /\ files[i].name \in next.names
          BY <4>3
        <5> QED BY <1>2, <4>1, <4>2, <5>1, <5>2
      <4>5. \A m, n \in DOMAIN list : m # n =>
              /\ files[list[m]].name # files[list[n]].name
              /\ SkPlaces[list[m]].dir # SkPlaces[list[n]].dir
        <5>1. ASSUME NEW m \in DOMAIN acc.list
              PROVE  /\ files[list[m]].name # files[i].name
                     /\ SkPlaces[list[m]].dir # SkPlaces[i].dir
          BY <1>2, <3>2, <4>1, <4>6, <5>1
        <5>2. ASSUME NEW m \in DOMAIN acc.list, NEW k \in DOMAIN acc.list, m # k
              PROVE  /\ files[list[m]].name # files[list[k]].name
                     /\ SkPlaces[list[m]].dir # SkPlaces[list[k]].dir
          <6>1. /\ files[acc.list[m]].name # files[acc.list[k]].name
                /\ SkPlaces[acc.list[m]].dir # SkPlaces[acc.list[k]].dir
            BY <2>2, <5>2, Zenon DEF SkScanned
          <6>2. list[m] = acc.list[m] /\ list[k] = acc.list[k]
            BY <4>1
          <6> QED BY <6>1, <6>2, Zenon
        <5>3. ASSUME NEW m \in DOMAIN list, NEW k \in DOMAIN list, m # k
              PROVE  /\ files[list[m]].name # files[list[k]].name
                     /\ SkPlaces[list[m]].dir # SkPlaces[list[k]].dir
          <6>1. CASE m \in DOMAIN acc.list /\ k \in DOMAIN acc.list
            BY <5>2, <5>3, <6>1
          <6>2. CASE m \notin DOMAIN acc.list
            BY <4>1, <4>2, <5>1, <5>3, <6>2
          <6>3. CASE k \notin DOMAIN acc.list
            BY <4>1, <4>2, <5>1, <5>3, <6>3
          <6> QED BY <6>1, <6>2, <6>3
        <5> QED BY <5>3
      <4> QED BY <4>3, <4>4, <4>5 DEF SkScanned
    <3> QED BY <3>1, <3>2
  <2> HIDE DEF next
  <2> QED BY <2>1, <2>4, <2>5 DEF SkAccs
<1> QED
  BY <1>1, <1>2

\* The scan of ScanImpl is sound, and of any files alike on what it has seen it is the same.
LEMMA SkScanOfTheFiles ==
  ASSUME NEW files, NEW disabled
  PROVE  \E acc \in SkAccs(files, disabled) : SkScanOf(files, disabled) = acc.list
<1> DEFINE n == Len(SkPlaces)
           V == SkAccs(files, disabled)
           step == [p \in (1..n) \X V |-> SkScanStep(files, disabled, p[2], p[1])]
<1>1. n \in Nat /\ SkScanStart \in V
  <2>1. SkScanned(files, disabled, SkScanStart)
    BY DEF SkScanned, SkScanStart
  <2>2. <<>> \in Seq(1..n)
    OBVIOUS
  <2>3. SkScanStart \in [names : SUBSET {files[i].name : i \in DOMAIN files},
                         dirs : SUBSET {SkPlaces[i].dir : i \in 1..Len(SkPlaces)},
                         list : Seq(1..Len(SkPlaces))]
    BY <2>2 DEF SkScanStart
  <2> QED BY SkAssumption, <2>1, <2>3 DEF SkAccs
<1>2. /\ step \in [(1..n) \X V -> V]
      /\ \A i \in 1..n, acc \in V : step[<<i, acc>>] = SkScanStep(files, disabled, acc, i)
  BY SkScanStepKeeps
<1> HIDE DEF V, step, n
<1>3. PICK f : FoldsUpTo(f, n, V, SkScanStart, step)
  BY <1>1, <1>2, RecursionOnIntervals DEF CanFold
<1> DEFINE seq == [i \in 1..n |-> i]
           Rec(it) == it = [s \in SUBSET (1..n) |->
                        IF s = {} THEN SkScanStart
                        ELSE LET x == Max(s)
                             IN SkScanStep(files, disabled, it[s \ {x}], seq[x])]
           iter == CHOOSE it : Rec(it)
<1>4. SkScanOf(files, disabled) = iter[1..n].list
  <2>1. DOMAIN seq = 1..n
    OBVIOUS
  <2> QED BY <2>1 DEF SkScanOf, FoldLeft, MapThenFoldSet, n
<1>5. Rec(f)
  <2>1. ASSUME NEW s \in SUBSET (1..n), s # {}
        PROVE  f[s] = SkScanStep(files, disabled, f[s \ {Max(s)}], seq[Max(s)])
    <3>1. Max(s) \in 1..n /\ seq[Max(s)] = Max(s)
      BY <1>3, <2>1 DEF FoldsUpTo
    <3> QED BY <1>2, <1>3, <2>1, <3>1 DEF FoldsUpTo
  <2> HIDE DEF seq
  <2>2. f = [s \in SUBSET (1..n) |-> f[s]] /\ f[{}] = SkScanStart
    BY <1>3 DEF FoldsUpTo
  <2> QED BY <2>1, <2>2
<1>6. Rec(iter)
  <2> HIDE DEF Rec
  <2> QED BY <1>5
<1> HIDE DEF iter, seq
<1>7. iter[1..n] = f[1..n]
  <2>1. iter[{}] = f[{}]
    BY <1>5, <1>6
  <2>2. ASSUME NEW s \in SUBSET (1..n), s # {}, iter[s \ {Max(s)}] = f[s \ {Max(s)}]
        PROVE  iter[s] = f[s]
    BY <1>5, <1>6, <2>2
  <2>3. Alike(n, iter, f)
    <3> HIDE DEF Rec
    <3> QED BY <1>1, <2>1, <2>2 DEF Alike
  <2> QED BY <2>3, FoldsAgree
<1>8. f[1..n] \in V
  BY <1>1, <1>3 DEF FoldsUpTo
<1> QED
  BY <1>4, <1>7, <1>8 DEF V

\* No name and no directory twice, and nothing disabled.
LEMMA SkListingIsSound ==
  ASSUME NEW files, NEW disabled
  PROVE  LET list == SkListOf(files, disabled)
         IN /\ \A m, n \in DOMAIN list : m # n =>
                 /\ list[m].name # list[n].name
                 /\ SkPlaces[list[m].place].dir # SkPlaces[list[n].place].dir
            /\ \A m \in DOMAIN list : ~SkHides(files, disabled, list[m].place)
<1>1. PICK acc \in SkAccs(files, disabled) : SkScanOf(files, disabled) = acc.list
  BY SkScanOfTheFiles
<1> DEFINE list == SkListOf(files, disabled)
<1>2. SkScanned(files, disabled, acc) /\ DOMAIN acc.list = 1..Len(acc.list)
  BY DEF SkAccs
<1>3. /\ DOMAIN list = DOMAIN acc.list
      /\ \A m \in DOMAIN list :
           list[m].place = acc.list[m] /\ list[m].name = files[acc.list[m]].name
  BY <1>1, <1>2 DEF SkListOf
<1> HIDE DEF list
<1>4. \A m, n \in DOMAIN list : m # n =>
        /\ list[m].name # list[n].name
        /\ SkPlaces[list[m].place].dir # SkPlaces[list[n].place].dir
  BY <1>2, <1>3 DEF SkScanned
<1>5. \A m \in DOMAIN list : ~SkHides(files, disabled, list[m].place)
  BY <1>2, <1>3 DEF SkScanned
<1> QED
  BY <1>4, <1>5 DEF list

-----------------------------------------------------------------------------
\* A scan and the key read before it.  Of the places in the key and not in the scan, the file
\* went away, and has another stamp when it comes back; while those of the scan are as they
\* were at the key, the listing is of them.
SkSnapshot(s, files, disabled, ops) ==
  /\ \A i \in DOMAIN s.key : s.key[i] \in 0..ops
  /\ \A i \in DOMAIN s.key \ s.seen : i \in DOMAIN files => files[i].stamp # s.key[i]
  /\ (\A i \in s.seen : i \in DOMAIN s.key \cap DOMAIN files /\ files[i].stamp = s.key[i])
     => s.list = SkListOf([i \in s.seen |-> files[i]], disabled)

SkStamped ==
  /\ skFiles = [i \in DOMAIN skFiles |-> skFiles[i]]
  /\ \A i \in DOMAIN skFiles : skFiles[i].stamp \in 0..skOps
SkCallOK(t) ==
  /\ \A o \in SkThreads \ {t} : skCall[t] = SkIdle \/ skCall[o] = SkIdle
  /\ skCall[t].pc = "scan" => \A i \in DOMAIN skCall[t].key : skCall[t].key[i] \in 0..skOps
  /\ skCall[t].pc = "keep" => SkSnapshot(skCall[t], skFiles, skDisabled, skOps)
SkCacheOK == skCache.valid => SkSnapshot(skCache, skFiles, skDisabled, skOps)

SkInv ==
  /\ skOps \in Nat /\ SkStamped
  /\ DOMAIN skCall = SkThreads /\ \A t \in SkThreads : DOMAIN skCall[t] = DOMAIN SkIdle
  /\ ~skOverlap => SkCacheOK /\ \A t \in SkThreads : SkCallOK(t)

\* What is served is the listing of files that are as they were when it was made.
LEMMA SkInvImpliesExact == SkInv => SkillCacheIsExact
<1> SUFFICES ASSUME SkInv, ~skOverlap, skCache.valid, skCache.key = BuildCacheKey,
                    skCache.seen \subseteq CollectSkillFiles
             PROVE  /\ skCache.list = SkListed(TRUE)
                    /\ \A m, n \in DOMAIN skCache.list : m # n =>
                         /\ skCache.list[m].name # skCache.list[n].name
                         /\ SkPlaces[skCache.list[m].place].dir
                              # SkPlaces[skCache.list[n].place].dir
                    /\ \A m \in DOMAIN skCache.list : SkBans(skCache.list[m].place) = {}
  BY Zenon DEF SkillCacheIsExact
<1>1. SkSnapshot(skCache, skFiles, skDisabled, skOps)
  BY DEF SkInv, SkCacheOK
<1>2. DOMAIN skCache.key = DOMAIN skFiles
      /\ \A i \in DOMAIN skFiles : skCache.key[i] = skFiles[i].stamp
  BY DEF BuildCacheKey, CollectSkillFiles
<1>3. skCache.seen = DOMAIN skFiles
  BY <1>1, <1>2 DEF SkSnapshot, CollectSkillFiles
<1>4. skCache.list = SkListOf(skFiles, skDisabled)
  <2>1. skCache.list = SkListOf([i \in DOMAIN skFiles |-> skFiles[i]], skDisabled)
    BY <1>1, <1>2, <1>3 DEF SkSnapshot
  <2>2. [i \in DOMAIN skFiles |-> skFiles[i]] = skFiles
    BY DEF SkInv, SkStamped
  <2> QED BY <2>1, <2>2, Zenon
<1>5. \A i : SkBans(i) = {} <=> ~SkHides(skFiles, skDisabled, i)
  BY DEF SkHides, SkBans, ParseFrontmatter
<1>6. PICK list : list = SkListOf(skFiles, skDisabled)
  OBVIOUS
<1>7. /\ \A m, n \in DOMAIN list : m # n =>
           /\ list[m].name # list[n].name
           /\ SkPlaces[list[m].place].dir # SkPlaces[list[n].place].dir
      /\ \A m \in DOMAIN list : ~SkHides(skFiles, skDisabled, list[m].place)
  BY <1>6, SkListingIsSound
<1>8. skCache.list = list /\ SkListed(TRUE) = list
  BY ONLY <1>4, <1>6, SkListedIsOfTheFiles, Zenon
<1>9. /\ \A m, n \in DOMAIN skCache.list : m # n =>
           /\ skCache.list[m].name # skCache.list[n].name
           /\ SkPlaces[skCache.list[m].place].dir # SkPlaces[skCache.list[n].place].dir
      /\ \A m \in DOMAIN skCache.list :
           ~SkHides(skFiles, skDisabled, skCache.list[m].place)
  BY ONLY <1>7, <1>8, Zenon
<1> QED
  BY <1>5, <1>8, <1>9, Zenon

\* Nothing is cached and no call is under way.
LEMMA SkInitHolds == SkInit => SkInv
<1> SUFFICES ASSUME SkInit PROVE SkInv
  OBVIOUS
<1>1. SkStamped /\ skOps \in Nat
  BY DEF SkInit, SkStamped
<1>2. /\ DOMAIN skCall = SkThreads /\ \A t \in SkThreads : skCall[t] = SkIdle
      /\ ~skCache.valid /\ SkIdle.pc = "idle"
  BY DEF SkInit, SkNoCache, SkIdle
<1> QED
  BY <1>1, <1>2 DEF SkInv, SkCallOK, SkCacheOK

\* A file changes under a stamp of its own, or goes, or nothing does.
LEMMA SkSnapshotStays ==
  ASSUME NEW s, NEW files, NEW disabled, NEW ops \in Nat, NEW next, NEW later \in Nat,
         ops <= later, SkSnapshot(s, files, disabled, ops),
         \A i \in DOMAIN next : \/ i \in DOMAIN files /\ next[i] = files[i]
                                \/ next[i].stamp \notin 0..ops
  PROVE  SkSnapshot(s, next, disabled, later)
<1>1. \A i \in DOMAIN s.key : s.key[i] \in 0..ops /\ s.key[i] \in 0..later
  BY DEF SkSnapshot
<1>2. \A i \in DOMAIN s.key \ s.seen : i \in DOMAIN next => next[i].stamp # s.key[i]
  BY <1>1 DEF SkSnapshot
<1>3. ASSUME \A i \in s.seen :
               i \in DOMAIN s.key \cap DOMAIN next /\ next[i].stamp = s.key[i]
      PROVE  s.list = SkListOf([i \in s.seen |-> next[i]], disabled)
  <2>1. \A i \in s.seen : i \in DOMAIN s.key /\ i \in DOMAIN files /\ next[i] = files[i]
    BY <1>1, <1>3
  <2>2. s.list = SkListOf([i \in s.seen |-> files[i]], disabled)
    BY <1>3, <2>1 DEF SkSnapshot
  <2>3. [i \in s.seen |-> files[i]] = [i \in s.seen |-> next[i]]
    BY <2>1
  <2> QED BY <2>2, <2>3, Zenon
<1> QED
  BY <1>1, <1>2, <1>3 DEF SkSnapshot

\* No call, and no cache.
LEMMA SkIdleCall == SkIdle.pc = "idle" /\ SkNoCache.valid = FALSE
  BY DEF SkIdle, SkNoCache

\* A file changes from outside.
LEMMA SkOutsideKeeps ==
  ASSUME SkInv, NEW i,
         SkErase(i) \/ \E name \in SkNames, fits \in BOOLEAN : SkEdit(i, name, fits)
  PROVE  SkInv'
<1>1. /\ skOps' = skOps + 1 /\ UNCHANGED <<skDisabled, skCache, skCall, skOverlap>>
      /\ skFiles' = [p \in DOMAIN skFiles' |-> skFiles'[p]]
      /\ \A p \in DOMAIN skFiles' :
           \/ p \in DOMAIN skFiles /\ skFiles'[p] = skFiles[p]
           \/ skFiles'[p].stamp = skOps + 1
  BY DEF SkErase, SkEdit
<1>2. skOps \in Nat /\ SkStamped
  BY DEF SkInv
<1>3. SkStamped' /\ skOps' \in Nat
  BY <1>1, <1>2 DEF SkStamped
<1>4. ASSUME NEW s, SkSnapshot(s, skFiles, skDisabled, skOps)
      PROVE  SkSnapshot(s, skFiles', skDisabled', skOps')
  <2>1. skOps \in Nat /\ skOps' \in Nat /\ skOps <= skOps' /\ skOps + 1 \notin 0..skOps
    BY <1>1, <1>2
  <2>2. SkSnapshot(s, skFiles', skDisabled, skOps')
    BY <1>1, <1>4, <2>1, SkSnapshotStays
  <2> QED BY <1>1, <2>2
<1>5. ASSUME ~skOverlap, NEW t \in SkThreads PROVE SkCallOK(t)'
  <2>1. SkCallOK(t)
    BY <1>5 DEF SkInv
  <2>2. \A n \in 0..skOps : n \in 0..skOps'
    BY <1>1, <1>2
  <2> QED BY <1>1, <1>4, <2>1, <2>2 DEF SkCallOK
<1>6. ASSUME ~skOverlap PROVE SkCacheOK'
  BY <1>1, <1>4, <1>6 DEF SkInv, SkCacheOK
<1> QED
  BY <1>1, <1>3, <1>5, <1>6 DEF SkInv

\* A call begins: while none overlap, no other is under way.
LEMMA SkBeginKeeps ==
  ASSUME SkInv, NEW t \in SkThreads, NEW op, NEW name, NEW pc,
         pc \notin {"scan", "keep"}, SkBegin(t, op, name, pc)
  PROVE  SkInv'
<1> DEFINE call == [SkIdle EXCEPT !.op = op, !.name = name, !.pc = pc]
<1>1. /\ skOps' = skOps + 1 /\ skCall' = [skCall EXCEPT ![t] = call]
      /\ skOverlap' = (skOverlap \/ \E o \in SkThreads : skCall[o] # SkIdle)
      /\ UNCHANGED <<skFiles, skDisabled, skCache>>
  BY DEF SkBegin, SkGo
<1>2. call.pc = pc /\ DOMAIN call = DOMAIN SkIdle
  BY DEF SkIdle
<1> HIDE DEF call
<1>3. /\ skOps \in Nat /\ SkStamped /\ DOMAIN skCall = SkThreads
      /\ \A o \in SkThreads : DOMAIN skCall[o] = DOMAIN SkIdle
  BY DEF SkInv
<1>4. SkStamped' /\ skOps' \in Nat
  BY <1>1, <1>3 DEF SkStamped
<1>5. /\ DOMAIN skCall' = SkThreads /\ skCall'[t] = call
      /\ \A o \in SkThreads \ {t} : skCall'[o] = skCall[o]
  BY <1>1, <1>3
<1>6. ASSUME ~skOverlap' PROVE SkCacheOK' /\ \A o \in SkThreads : SkCallOK(o)'
  <2>1. ~skOverlap /\ \A o \in SkThreads : skCall[o] = SkIdle
    BY <1>1, <1>6
  <2>2. SkCacheOK'
    <3>1. CASE skCache.valid
      <4>1. SkSnapshot(skCache, skFiles, skDisabled, skOps)
        BY <2>1, <3>1 DEF SkInv, SkCacheOK
      <4>2. skOps <= skOps'
        BY <1>1, <1>3
      <4>3. SkSnapshot(skCache, skFiles, skDisabled, skOps')
        BY <1>3, <1>4, <4>1, <4>2, SkSnapshotStays
      <4> QED BY <1>1, <4>3 DEF SkCacheOK
    <3> QED BY <1>1, <3>1 DEF SkCacheOK
  <2>3. ASSUME NEW o \in SkThreads PROVE SkCallOK(o)'
    <3>1. skCall'[o].pc \notin {"scan", "keep"}
      BY <1>2, <1>5, <2>1, SkIdleCall
    <3>2. \A p \in SkThreads \ {o} : skCall'[o] = SkIdle \/ skCall'[p] = SkIdle
      BY <1>5, <2>1
    <3> QED BY <3>1, <3>2 DEF SkCallOK
  <2> QED BY <2>2, <2>3
<1> QED
  BY <1>2, <1>3, <1>4, <1>5, <1>6 DEF SkInv

\* A call goes on, under the same files.
LEMMA SkGoesOn ==
  ASSUME SkInv, NEW t \in SkThreads, NEW call, skCall[t] # SkIdle, SkGo(t, call),
         DOMAIN call = DOMAIN SkIdle, UNCHANGED <<skFiles, skDisabled, skOps, skOverlap>>,
         ~skOverlap =>
           /\ call.pc = "scan" => \A i \in DOMAIN call.key : call.key[i] \in 0..skOps
           /\ call.pc = "keep" => SkSnapshot(call, skFiles, skDisabled, skOps)
           /\ SkCacheOK'
  PROVE  SkInv'
<1>1. /\ skOps \in Nat /\ SkStamped /\ DOMAIN skCall = SkThreads
      /\ \A o \in SkThreads : DOMAIN skCall[o] = DOMAIN SkIdle
  BY DEF SkInv
<1>2. /\ DOMAIN skCall' = SkThreads /\ skCall'[t] = call
      /\ \A o \in SkThreads \ {t} : skCall'[o] = skCall[o]
  BY <1>1 DEF SkGo
<1>3. SkStamped'
  BY <1>1 DEF SkStamped
<1>4. ASSUME ~skOverlap, NEW o \in SkThreads PROVE SkCallOK(o)'
  <2>1. \A p \in SkThreads : SkCallOK(p)
    BY <1>4 DEF SkInv
  <2>2. \A p \in SkThreads \ {t} : skCall[p] = SkIdle /\ skCall'[p] = SkIdle
    BY <1>2, <2>1 DEF SkCallOK
  <2>3. CASE o = t
    BY <1>2, <1>4, <2>2, <2>3 DEF SkCallOK
  <2>4. CASE o # t
    BY <2>2, <2>4, SkIdleCall DEF SkCallOK
  <2> QED BY <2>3, <2>4
<1> QED
  BY <1>1, <1>2, <1>3, <1>4 DEF SkInv

\* The key is read: what is cached is served, or a scan follows.
LEMMA SkKeyKeeps ==
  ASSUME SkInv, NEW t \in SkThreads, SkKey(t)
  PROVE  SkInv'
<1> DEFINE call == IF skCache.valid /\ skCache.key = BuildCacheKey
                   THEN [skCall[t] EXCEPT !.pc = "found", !.list = skCache.list]
                   ELSE [skCall[t] EXCEPT !.pc = "scan", !.key = BuildCacheKey]
<1>1. /\ skCall[t].pc = "key" /\ SkGo(t, call)
      /\ UNCHANGED <<skFiles, skDisabled, skCache, skOps, skOverlap>>
  BY DEF SkKey, SkAt
<1>2. DOMAIN skCall[t] = DOMAIN SkIdle /\ skOps \in Nat /\ SkStamped
  BY DEF SkInv
<1>3. /\ DOMAIN call = DOMAIN SkIdle /\ call.pc # "keep"
      /\ call.pc = "scan" => call.key = BuildCacheKey
  BY <1>2 DEF SkIdle
<1> HIDE DEF call
<1>4. \A i \in DOMAIN BuildCacheKey : BuildCacheKey[i] \in 0..skOps
  BY <1>2 DEF BuildCacheKey, CollectSkillFiles, SkStamped
<1>5. ~skOverlap => SkCacheOK'
  BY <1>1 DEF SkInv, SkCacheOK
<1> QED
  BY <1>1, <1>3, <1>4, <1>5, SkIdleCall, SkGoesOn

\* The directories are scanned.
LEMMA SkScanKeeps ==
  ASSUME SkInv, NEW t \in SkThreads, SkScan(t)
  PROVE  SkInv'
<1> DEFINE call == [skCall[t] EXCEPT !.pc = "keep", !.list = SkListed(TRUE),
                                     !.seen = CollectSkillFiles]
<1>1. /\ skCall[t].pc = "scan" /\ SkGo(t, call)
      /\ UNCHANGED <<skFiles, skDisabled, skCache, skOps, skOverlap>>
  BY DEF SkScan, SkAt
<1>2. DOMAIN skCall[t] = DOMAIN SkIdle /\ skOps \in Nat /\ SkStamped
  BY DEF SkInv
<1>3. /\ DOMAIN call = DOMAIN SkIdle /\ call.pc = "keep" /\ call.key = skCall[t].key
      /\ call.list = SkListed(TRUE) /\ call.seen = DOMAIN skFiles
  BY <1>2 DEF SkIdle, CollectSkillFiles
<1> HIDE DEF call
<1>4. ASSUME ~skOverlap PROVE SkSnapshot(call, skFiles, skDisabled, skOps)
  <2>1. \A i \in DOMAIN skCall[t].key : skCall[t].key[i] \in 0..skOps
    BY <1>1, <1>4 DEF SkInv, SkCallOK
  <2>2. call.list = SkListOf([i \in call.seen |-> skFiles[i]], skDisabled)
    BY <1>2, <1>3, SkListedIsOfTheFiles, Zenon DEF SkStamped
  <2> QED BY <1>3, <2>1, <2>2 DEF SkSnapshot
<1>5. ~skOverlap => SkCacheOK'
  BY <1>1 DEF SkInv, SkCacheOK
<1> QED
  BY <1>1, <1>3, <1>4, <1>5, SkIdleCall, SkGoesOn

\* The listing is cached under the key read before it.
LEMMA SkKeepKeeps ==
  ASSUME SkInv, NEW t \in SkThreads, SkKeep(t)
  PROVE  SkInv'
<1> DEFINE call == [skCall[t] EXCEPT !.pc = "found"]
<1>1. /\ skCall[t].pc = "keep" /\ SkGo(t, call)
      /\ UNCHANGED <<skFiles, skDisabled, skOps, skOverlap>>
      /\ skCache'.key = skCall[t].key /\ skCache'.list = skCall[t].list
      /\ skCache'.seen = skCall[t].seen
  BY DEF SkKeep, SkAt
<1>2. DOMAIN skCall[t] = DOMAIN SkIdle
  BY DEF SkInv
<1>3. DOMAIN call = DOMAIN SkIdle /\ call.pc = "found"
  BY <1>2 DEF SkIdle
<1> HIDE DEF call
<1>4. ASSUME ~skOverlap PROVE SkCacheOK'
  <2>1. SkSnapshot(skCall[t], skFiles, skDisabled, skOps)
    BY <1>1, <1>4 DEF SkInv, SkCallOK
  <2> QED BY <1>1, <2>1 DEF SkCacheOK, SkSnapshot
<1> QED
  BY <1>1, <1>3, <1>4, SkIdleCall, SkGoesOn

\* A call ends, with a change of the files or of the disabled names only where the cache goes.
LEMMA SkEndsKeep ==
  ASSUME SkInv, NEW t \in SkThreads, skCall[t] # SkIdle, SkDone(t),
         UNCHANGED <<skOps, skOverlap>>,
         skFiles' = [p \in DOMAIN skFiles' |-> skFiles'[p]],
         \A p \in DOMAIN skFiles' :
           \/ p \in DOMAIN skFiles /\ skFiles'[p] = skFiles[p]
           \/ skFiles'[p].stamp = skOps,
         InvalidateCache \/ UNCHANGED <<skFiles, skDisabled, skCache>>
  PROVE  SkInv'
<1>1. /\ skOps \in Nat /\ SkStamped /\ DOMAIN skCall = SkThreads
      /\ \A o \in SkThreads : DOMAIN skCall[o] = DOMAIN SkIdle
  BY DEF SkInv
<1>2. /\ DOMAIN skCall' = SkThreads /\ skCall'[t] = SkIdle
      /\ \A o \in SkThreads \ {t} : skCall'[o] = skCall[o]
  BY <1>1 DEF SkDone, SkGo
<1>3. SkStamped'
  BY <1>1 DEF SkStamped
<1>4. ASSUME ~skOverlap PROVE SkCacheOK' /\ \A o \in SkThreads : SkCallOK(o)'
  <2>1. SkCacheOK /\ \A o \in SkThreads : SkCallOK(o)
    BY <1>4 DEF SkInv
  <2>2. \A o \in SkThreads : skCall'[o] = SkIdle
    BY <1>2, <2>1 DEF SkCallOK
  <2>3. SkCacheOK'
    BY <2>1, SkIdleCall DEF SkCacheOK, InvalidateCache
  <2> QED BY <2>2, <2>3, SkIdleCall DEF SkCallOK
<1> QED
  BY <1>1, <1>2, <1>3, <1>4 DEF SkInv

\* view and list return; update, remove, disable, enable and create do their work.
LEMMA SkWorkKeeps ==
  ASSUME SkInv, NEW t \in SkThreads,
         \/ SkReturn(t) \/ SkRemove(t) \/ SkDisable(t) \/ SkEnable(t) \/ SkCreate(t)
         \/ \E name \in SkNames : SkUpdate(t, name)
  PROVE  SkInv'
<1>1. skCall[t].pc \in {"found", "enable", "create"} /\ SkDone(t)
      /\ UNCHANGED <<skOps, skOverlap>>
  BY DEF SkReturn, SkRemove, SkDisable, SkEnable, SkCreate, SkUpdate, SkAt
<1>2. skFiles = [p \in DOMAIN skFiles |-> skFiles[p]]
  BY DEF SkInv, SkStamped
<1>3. /\ skFiles' = [p \in DOMAIN skFiles' |-> skFiles'[p]]
      /\ \A p \in DOMAIN skFiles' :
           \/ p \in DOMAIN skFiles /\ skFiles'[p] = skFiles[p]
           \/ skFiles'[p].stamp = skOps
  <2>1. CASE UNCHANGED skFiles
    BY <1>2, <2>1
  <2>2. CASE SkRemove(t)
    BY <2>2 DEF SkRemove
  <2>3. ASSUME NEW i, NEW name, NEW fits, SkWrite(i, name, fits)
        PROVE  /\ skFiles' = [p \in DOMAIN skFiles' |-> skFiles'[p]]
               /\ \A p \in DOMAIN skFiles' :
                    \/ p \in DOMAIN skFiles /\ skFiles'[p] = skFiles[p]
                    \/ skFiles'[p].stamp = skOps
    BY <2>3 DEF SkWrite
  <2>4. \/ UNCHANGED skFiles \/ SkRemove(t)
        \/ \E i, name, fits : SkWrite(i, name, fits)
    <3>1. SkCreate(t) => UNCHANGED skFiles \/ \E i, name, fits : SkWrite(i, name, fits)
      <4> DEFINE target == [root |-> SkPrimary, dir |-> skCall[t].name]
                 i == SelectInSeq(SkPlaces, LAMBDA p : p = target)
      <4>1. SkCreate(t) => UNCHANGED skFiles \/ SkWrite(i, skCall[t].name, TRUE)
        BY DEF SkCreate
      <4> HIDE DEF i
      <4> QED BY <4>1
    <3>2. (\E name \in SkNames : SkUpdate(t, name)) => \E i, name, fits : SkWrite(i, name, fits)
      BY DEF SkUpdate
    <3>3. SkReturn(t) \/ SkDisable(t) \/ SkEnable(t) => UNCHANGED skFiles
      BY DEF SkReturn, SkDisable, SkEnable
    <3> QED BY <3>1, <3>2, <3>3
  <2> QED BY <2>1, <2>2, <2>3, <2>4
<1>4. InvalidateCache \/ UNCHANGED <<skFiles, skDisabled, skCache>>
  BY DEF SkReturn, SkRemove, SkDisable, SkEnable, SkCreate, SkUpdate
<1> QED
  BY <1>1, <1>3, <1>4, SkIdleCall, SkEndsKeep

\* While no calls overlap, a listing served from the cache is what a scan would return, for
\* any files, stamps and disabled names: SkillCacheIsExact.
THEOREM SkillCacheExact == SkSpec => []SkillCacheIsExact
<1>1. SkInv /\ [SkNext]_skVars => SkInv'
  <2> SUFFICES ASSUME SkInv, [SkNext]_skVars PROVE SkInv'
    OBVIOUS
  <2>1. ASSUME NEW t \in SkThreads, NEW name,
               \/ SkillsListTool(t) \/ SkillViewTool(t, name) \/ SkillManageTool(t, name)
               \/ SkillsCommand(t, name) \/ SkillsDialog(t, name)
        PROVE  SkInv'
    <3> DEFINE Begins == \E op, arg :
                 SkBegin(t, op, arg, "key") \/ SkBegin(t, op, arg, "create")
                 \/ SkBegin(t, op, arg, "enable")
    <3>1. Begins
      <4>1. SkillsListTool(t) => Begins
        BY Zenon DEF SkillsListTool
      <4>2. SkillViewTool(t, name) => Begins
        BY Zenon DEF SkillViewTool
      <4>3. SkillManageTool(t, name) \/ SkillsDialog(t, name) => Begins
        BY Zenon DEF SkillManageTool, SkillsDialog
      <4> HIDE DEF Begins
      <4> QED BY <2>1, <4>1, <4>2, <4>3 DEF SkillsCommand
    <3> QED BY <3>1, SkBeginKeeps
  <2>2. CASE UNCHANGED skVars
    BY <2>2 DEF skVars, SkInv, SkStamped, SkCacheOK, SkCallOK, SkSnapshot
  <2> QED
    BY <2>1, <2>2, SkKeyKeeps, SkScanKeeps, SkKeepKeeps, SkWorkKeeps, SkOutsideKeeps DEF SkNext
<1> QED
  BY <1>1, SkInitHolds, SkInvImpliesExact, PTL DEF SkSpec

-----------------------------------------------------------------------------
(* Chat area: the layout of a text *)

ChatText == Seq({Glyph, Break})
ChatAccs == [lines : Seq(Nat), line : Nat]
ChatStart == [lines |-> <<>>, line |-> 0]
\* One glyph or break laid out after acc.
ChatLaid(width, acc, x) ==
  IF x = Break THEN [lines |-> Append(acc.lines, acc.line), line |-> 0]
  ELSE IF width > 0 /\ acc.line >= width
  THEN [lines |-> Append(acc.lines, acc.line), line |-> 1]
  ELSE [acc EXCEPT !.line = @ + 1]

\* The closed lines of a text and the length of its open one.
ChatEnd(text, width) == FoldLeft(LAMBDA acc, x : ChatLaid(width, acc, x), ChatStart, text)

\* Wrap returns the closed lines and the open one.
LEMMA ChatWrapIs ==
  ASSUME NEW text, NEW width
  PROVE  WrapByWidth(text, width) =
           IF text = <<>> \/ Last(text) = Break THEN ChatEnd(text, width).lines
           ELSE Append(ChatEnd(text, width).lines, ChatEnd(text, width).line)
BY DEF WrapByWidth, ChatEnd, ChatLaid, ChatStart, FoldLeft, MapThenFoldSet

\* One more glyph or break.
LEMMA ChatLaidType ==
  ASSUME NEW width \in Nat, NEW acc \in ChatAccs, NEW x \in {Glyph, Break}
  PROVE  ChatLaid(width, acc, x) \in ChatAccs
<1>1. acc.lines \in Seq(Nat) /\ acc.line \in Nat
  BY DEF ChatAccs
<1>2. Append(acc.lines, acc.line) \in Seq(Nat)
  BY <1>1, AppendProperties
<1> QED
  BY <1>1, <1>2 DEF ChatLaid, ChatAccs

\* it[k] is the layout of the first k of them.
ChatLays(text, width, it) ==
  /\ \A k \in 0..Len(text) : it[k] \in ChatAccs
  /\ it[0] = ChatStart
  /\ \A k \in 1..Len(text) : it[k] = ChatLaid(width, it[k - 1], text[k])

\* The layout of a text is that of its glyphs, one after the other.
LEMMA ChatEndIs ==
  ASSUME NEW text \in ChatText, NEW width \in Nat
  PROVE  \E it : ChatLays(text, width, it) /\ ChatEnd(text, width) = it[Len(text)]
<1> DEFINE n == Len(text)
           V == ChatAccs
           step == [p \in (1..n) \X V |-> ChatLaid(width, p[2], text[p[1]])]
<1>1. /\ n \in Nat /\ DOMAIN text = 1..n /\ ChatStart \in V
      /\ \A i \in 1..n : text[i] \in {Glyph, Break}
  BY DEF ChatText, ChatStart, ChatAccs
<1>2. \A i \in 1..n, acc \in V : ChatLaid(width, acc, text[i]) \in V
  BY <1>1, ChatLaidType
<1> HIDE DEF V
<1>3. /\ step \in [(1..n) \X V -> V]
      /\ \A i \in 1..n, acc \in V : step[<<i, acc>>] = ChatLaid(width, acc, text[i])
  BY <1>2
<1> HIDE DEF n, step
<1>4. PICK f : FoldsUpTo(f, n, V, ChatStart, step)
  BY <1>1, <1>3, RecursionOnIntervals DEF CanFold
<1> DEFINE Rec(it) == it = [s \in SUBSET (1..n) |->
                        IF s = {} THEN ChatStart
                        ELSE LET x == Max(s) IN ChatLaid(width, it[s \ {x}], text[x])]
           iter == CHOOSE it : Rec(it)
<1>5. ChatEnd(text, width) = iter[1..n]
  BY <1>1 DEF ChatEnd, FoldLeft, MapThenFoldSet
<1>6. Rec(f)
  <2>1. ASSUME NEW s \in SUBSET (1..n), s # {}
        PROVE  f[s] = ChatLaid(width, f[s \ {Max(s)}], text[Max(s)])
    <3>1. Max(s) \in 1..n
      BY <1>4, <2>1 DEF FoldsUpTo
    <3> QED BY <1>3, <1>4, <2>1, <3>1 DEF FoldsUpTo
  <2>2. f = [s \in SUBSET (1..n) |-> f[s]] /\ f[{}] = ChatStart
    BY <1>4 DEF FoldsUpTo
  <2> QED BY <2>1, <2>2
<1>7. Rec(iter)
  <2> HIDE DEF Rec
  <2> QED BY <1>6
<1> HIDE DEF iter
<1>8. iter[1..n] = f[1..n]
  <2>1. iter[{}] = f[{}]
    BY <1>6, <1>7
  <2>2. ASSUME NEW s \in SUBSET (1..n), s # {}, iter[s \ {Max(s)}] = f[s \ {Max(s)}]
        PROVE  iter[s] = f[s]
    <3>1. f[s] = ChatLaid(width, f[s \ {Max(s)}], text[Max(s)])
      BY <1>6, <2>2
    <3>2. iter[s] = ChatLaid(width, iter[s \ {Max(s)}], text[Max(s)])
      BY <1>7, <2>2
    <3> QED BY <2>2, <3>1, <3>2, Zenon
  <2>3. Alike(n, iter, f)
    <3> HIDE DEF Rec
    <3> QED BY <1>1, <2>1, <2>2 DEF Alike
  <2> QED BY <2>3, FoldsAgree
<1> HIDE DEF Rec
<1> DEFINE it == [k \in 0..n |-> f[1..k]]
<1>9. \A k \in 0..n : it[k] = f[1..k]
  OBVIOUS
<1> HIDE DEF it
<1>10. 0 \in 0..n /\ n \in 0..n /\ 1..0 = {} /\ \A k \in 1..n : k \in 0..n /\ k - 1 \in 0..n
  BY <1>1
<1>11. \A k \in 0..n : it[k] \in V
  BY <1>4, <1>9 DEF FoldsUpTo
<1>12. it[0] = ChatStart
  BY <1>4, <1>9, <1>10 DEF FoldsUpTo
<1>13. ASSUME NEW k \in 1..n PROVE it[k] = ChatLaid(width, it[k - 1], text[k])
  <2>1. f[1..k] = step[<<k, f[1..k - 1]>>] /\ f[1..k - 1] \in V
    BY <1>4, <1>10 DEF FoldsUpTo
  <2>2. it[k] = f[1..k] /\ it[k - 1] = f[1..k - 1]
    BY <1>9, <1>10
  <2> QED BY <1>3, <2>1, <2>2
<1>14. ChatLays(text, width, it)
  BY <1>11, <1>12, <1>13 DEF ChatLays, n, V
<1>15. ChatEnd(text, width) = it[Len(text)]
  BY <1>5, <1>8, <1>9, <1>10 DEF n
<1> QED
  BY <1>14, <1>15

\* Texts with a common beginning are laid out alike up to its end.
ChatSame(f, g, n) == \A k \in 0..n : f[k] = g[k]
ChatBeginAlike(s, f, t, g, width, n) ==
  /\ ChatLays(s, width, f) /\ ChatLays(t, width, g)
  /\ n \in Nat /\ Len(s) \in Nat /\ Len(t) \in Nat /\ n <= Len(s) /\ n <= Len(t)
  /\ \A k \in 1..n : s[k] = t[k]

\* Their layouts are the same up to there.
LEMMA ChatLaysAlike ==
  ASSUME NEW s, NEW t, NEW width, NEW n, NEW f, NEW g, ChatBeginAlike(s, f, t, g, width, n)
  PROVE  ChatSame(f, g, n)
<1>a. /\ ChatLays(s, width, f) /\ ChatLays(t, width, g)
      /\ n \in Nat /\ Len(s) \in Nat /\ Len(t) \in Nat /\ n <= Len(s) /\ n <= Len(t)
      /\ \A k \in 1..n : s[k] = t[k]
  BY DEF ChatBeginAlike
<1> DEFINE P == {k \in 0..n : f[k] = g[k]}
<1>1. 0 \in P
  BY <1>a DEF ChatLays
<1>2. ASSUME NEW k \in 0..n - 1, k \in P PROVE k + 1 \in P
  <2>1. /\ k + 1 \in 1..n /\ k + 1 \in 0..n /\ k + 1 - 1 = k
        /\ k + 1 \in 1..Len(s) /\ k + 1 \in 1..Len(t)
    BY <1>a
  <2>2. f[k + 1] = ChatLaid(width, f[k + 1 - 1], s[k + 1])
    BY <1>a, <2>1 DEF ChatLays
  <2>3. g[k + 1] = ChatLaid(width, g[k + 1 - 1], t[k + 1])
    BY <1>a, <2>1 DEF ChatLays
  <2>4. f[k] = g[k] /\ s[k + 1] = t[k + 1]
    BY <1>a, <1>2, <2>1
  <2> QED BY <2>1, <2>2, <2>3, <2>4
<1> HIDE DEF P
<1>3. \A k \in 0..n : k \in P
  BY <1>a, <1>1, <1>2, NaturalsUpTo
<1> QED
  BY <1>3 DEF P, ChatSame

\* A layout is lines and the length of the open one.
LEMMA ChatEndType ==
  ASSUME NEW text \in ChatText, NEW width \in Nat
  PROVE  /\ ChatEnd(text, width) \in ChatAccs
         /\ text = <<>> => ChatEnd(text, width) = ChatStart
         /\ text # <<>> /\ Last(text) = Break => ChatEnd(text, width).line = 0
         /\ text # <<>> /\ Last(text) # Break => ChatEnd(text, width).line > 0
<1> DEFINE n == Len(text)
<1>1. n \in Nat /\ \A k \in 1..n : text[k] \in {Glyph, Break}
  BY DEF ChatText
<1>2. PICK it : ChatLays(text, width, it) /\ ChatEnd(text, width) = it[n]
  BY ChatEndIs
<1>3. it[n] \in ChatAccs /\ it[0] = ChatStart
  BY <1>1, <1>2 DEF ChatLays
<1>4. text = <<>> => n = 0
  OBVIOUS
<1>5. ASSUME text # <<>> PROVE IF Last(text) = Break THEN it[n].line = 0 ELSE it[n].line > 0
  <2>1. n \in 1..n /\ n - 1 \in 0..n
    BY <1>1, <1>5 DEF ChatText
  <2>2. it[n] = ChatLaid(width, it[n - 1], text[n]) /\ it[n - 1] \in ChatAccs
    BY <1>2, <2>1 DEF ChatLays
  <2>3. Last(text) = text[n]
    BY DEF Last
  <2> HIDE DEF n
  <2>4. it[n - 1].line \in Nat /\ DOMAIN it[n - 1] = {"lines", "line"}
    BY <2>2 DEF ChatAccs
  <2>5. PICK acc : acc = it[n - 1]
    OBVIOUS
  <2>6. /\ acc.line \in Nat /\ DOMAIN acc = {"lines", "line"}
        /\ it[n] = ChatLaid(width, acc, text[n])
    BY <2>2, <2>4, <2>5
  <2> QED BY <2>3, <2>6 DEF ChatLaid
<1> QED
  BY <1>2, <1>3, <1>4, <1>5

\* A width can only add lines, and a text that has none added is laid out as without it.
ChatAsLong(text, width, f, g) ==
  /\ text \in ChatText /\ width \in Nat /\ ChatLays(text, width, f) /\ ChatLays(text, 0, g)
  /\ Len(f[Len(text)].lines) = Len(g[Len(text)].lines)

\* The layout of a text with a width has as many lines as that without, or more.
LEMMA ChatLaysOver ==
  ASSUME NEW text, NEW width, NEW f, NEW g, ChatAsLong(text, width, f, g)
  PROVE  ChatSame(f, g, Len(text))
<1>a. /\ text \in ChatText /\ width \in Nat /\ ChatLays(text, width, f) /\ ChatLays(text, 0, g)
      /\ Len(f[Len(text)].lines) = Len(g[Len(text)].lines)
  BY DEF ChatAsLong
<1> DEFINE n == Len(text)
           P == {k \in 0..n : \/ \A j \in 0..k : f[j] = g[j]
                              \/ Len(f[k].lines) > Len(g[k].lines)}
<1>1. n \in Nat /\ \A k \in 1..n : text[k] \in {Glyph, Break}
  BY <1>a DEF ChatText
<1>2. 0 \in P
  BY <1>a, <1>1 DEF ChatLays
<1>3. ASSUME NEW k \in 0..n - 1, k \in P PROVE k + 1 \in P
  <2>1. k + 1 \in 1..n /\ k + 1 - 1 = k /\ k \in 0..n /\ k + 1 \in 0..n
    BY <1>1
  <2>2. /\ f[k + 1] = ChatLaid(width, f[k], text[k + 1]) /\ f[k] \in ChatAccs
        /\ g[k + 1] = ChatLaid(0, g[k], text[k + 1]) /\ g[k] \in ChatAccs
    <3>1. f[k + 1] = ChatLaid(width, f[k + 1 - 1], text[k + 1]) /\ f[k] \in ChatAccs
      BY <1>a, <2>1 DEF ChatLays
    <3>2. g[k + 1] = ChatLaid(0, g[k + 1 - 1], text[k + 1]) /\ g[k] \in ChatAccs
      BY <1>a, <2>1 DEF ChatLays
    <3> QED BY <2>1, <3>1, <3>2
  <2>3. PICK a, b, x : a = f[k] /\ b = g[k] /\ x = text[k + 1]
    OBVIOUS
  <2>4. /\ a.lines \in Seq(Nat) /\ a.line \in Nat /\ DOMAIN a = {"lines", "line"}
        /\ b.lines \in Seq(Nat) /\ b.line \in Nat /\ DOMAIN b = {"lines", "line"}
    BY <2>2, <2>3 DEF ChatAccs
  <2>5. /\ Len(Append(a.lines, a.line)) = Len(a.lines) + 1
        /\ Len(Append(b.lines, b.line)) = Len(b.lines) + 1
    BY <2>4, AppendProperties
  <2>6. /\ Len(ChatLaid(width, a, x).lines) \in {Len(a.lines), Len(a.lines) + 1}
        /\ x = Break => Len(ChatLaid(width, a, x).lines) = Len(a.lines) + 1
        /\ Len(ChatLaid(0, b, x).lines) = IF x = Break THEN Len(b.lines) + 1 ELSE Len(b.lines)
    BY <2>4, <2>5 DEF ChatLaid
  <2>7. \/ ChatLaid(width, a, x) = ChatLaid(0, a, x)
        \/ Len(ChatLaid(width, a, x).lines) > Len(ChatLaid(0, a, x).lines)
    BY <2>4, <2>5 DEF ChatLaid
  <2>8. f[k + 1] = ChatLaid(width, a, x) /\ g[k + 1] = ChatLaid(0, b, x)
    BY <2>2, <2>3
  <2>9. CASE \A j \in 0..k : f[j] = g[j]
    <3>1. a = b
      BY <2>1, <2>3, <2>9
    <3>2. f[k + 1] = g[k + 1] \/ Len(f[k + 1].lines) > Len(g[k + 1].lines)
      BY <2>7, <2>8, <3>1
    <3>3. \A j \in 0..k + 1 : j \in 0..k \/ j = k + 1
      BY <1>1
    <3> QED BY <2>1, <2>9, <3>2, <3>3
  <2>10. CASE Len(f[k].lines) > Len(g[k].lines)
    <3>1. Len(a.lines) > Len(b.lines) /\ Len(a.lines) \in Nat /\ Len(b.lines) \in Nat
      BY <2>3, <2>4, <2>10
    <3>2. Len(ChatLaid(width, a, x).lines) > Len(ChatLaid(0, b, x).lines)
      BY ONLY <2>6, <3>1
    <3> QED BY <2>1, <2>8, <3>2
  <2> QED BY <1>3, <2>9, <2>10
<1>4. n \in P
  <2> HIDE DEF P
  <2>1. \A k \in 0..n : k \in P
    BY <1>1, <1>2, <1>3, NaturalsUpTo
  <2> QED BY <1>1, <2>1
<1>5. Len(f[n].lines) \in Nat
  <2>1. f[n] \in ChatAccs
    BY <1>a, <1>1 DEF ChatLays
  <2> QED BY <2>1 DEF ChatAccs
<1> QED
  BY <1>a, <1>4, <1>5 DEF ChatSame

ChatFits(text, width) == ChatEnd(text, width) = ChatEnd(text, 0)

\* Text that fits is wrapped as it is without a width.
LEMMA ChatWrapFits ==
  ASSUME NEW text \in ChatText, NEW width \in Nat,
         WrapByWidth(text, width) = WrapByWidth(text, 0)
  PROVE  ChatFits(text, width)
<1>1. PICK f : ChatLays(text, width, f) /\ ChatEnd(text, width) = f[Len(text)]
  BY ChatEndIs
<1>2. PICK g : ChatLays(text, 0, g) /\ ChatEnd(text, 0) = g[Len(text)]
  BY ChatEndIs
<1>3. PICK a, b : a = ChatEnd(text, width) /\ b = ChatEnd(text, 0)
  OBVIOUS
<1>4. a.lines \in Seq(Nat) /\ a.line \in Nat /\ b.lines \in Seq(Nat) /\ b.line \in Nat
  BY <1>3, ChatEndType DEF ChatAccs
<1>5. Len(a.lines) = Len(b.lines)
  <2>1. WrapByWidth(text, width)
          = IF text = <<>> \/ Last(text) = Break THEN a.lines ELSE Append(a.lines, a.line)
    BY <1>3, ChatWrapIs, Zenon
  <2>2. WrapByWidth(text, 0)
          = IF text = <<>> \/ Last(text) = Break THEN b.lines ELSE Append(b.lines, b.line)
    BY <1>3, ChatWrapIs, Zenon
  <2>3. CASE text = <<>> \/ Last(text) = Break
    BY <2>1, <2>2, <2>3
  <2>4. CASE ~(text = <<>> \/ Last(text) = Break)
    <3>1. Append(a.lines, a.line) = Append(b.lines, b.line)
      BY <2>1, <2>2, <2>4
    <3>2. /\ Len(Append(a.lines, a.line)) = Len(a.lines) + 1
          /\ Len(Append(b.lines, b.line)) = Len(b.lines) + 1
      BY <1>4, AppendProperties
    <3> QED BY <1>4, <3>1, <3>2
  <2> QED BY <2>3, <2>4
<1>6. \A k \in 0..Len(text) : f[k] = g[k]
  <2>1. ChatAsLong(text, width, f, g)
    BY <1>1, <1>2, <1>3, <1>5 DEF ChatAsLong
  <2> QED BY <2>1, ChatLaysOver DEF ChatSame
<1>7. Len(text) \in 0..Len(text)
  BY DEF ChatText
<1> QED
  BY <1>1, <1>2, <1>6, <1>7 DEF ChatFits

\* What fits begins with what fits.
LEMMA ChatFitsBegin ==
  ASSUME NEW s \in ChatText, NEW t \in ChatText, NEW width \in Nat, ChatFits(s \o t, width)
  PROVE  ChatFits(s, width)
<1> DEFINE st == s \o t
           n == Len(s)
<1>1. /\ st \in ChatText /\ Len(st) = n + Len(t) /\ n \in Nat /\ Len(t) \in Nat
      /\ \A k \in 1..n : s[k] = st[k]
  BY ConcatProperties DEF ChatText
<1>2. ChatFits(st, width)
  OBVIOUS
<1> HIDE DEF st
<1>3. PICK f : ChatLays(st, width, f) /\ ChatEnd(st, width) = f[Len(st)]
  BY <1>1, ChatEndIs
<1>4. PICK g : ChatLays(st, 0, g) /\ ChatEnd(st, 0) = g[Len(st)]
  BY <1>1, ChatEndIs
<1>5. PICK f0 : ChatLays(s, width, f0) /\ ChatEnd(s, width) = f0[n]
  BY ChatEndIs
<1>6. PICK g0 : ChatLays(s, 0, g0) /\ ChatEnd(s, 0) = g0[n]
  BY ChatEndIs
<1>7. f[Len(st)] = g[Len(st)]
  BY <1>2, <1>3, <1>4 DEF ChatFits
<1>8. \A k \in 0..Len(st) : f[k] = g[k]
  <2>1. ChatAsLong(st, width, f, g)
    BY <1>1, <1>3, <1>4, <1>7 DEF ChatAsLong
  <2> QED BY <2>1, ChatLaysOver DEF ChatSame
<1>9. n \in 0..Len(st) /\ n \in 0..n /\ n <= Len(st) /\ n <= Len(s)
  BY <1>1
<1>10. f0[n] = f[n]
  <2>1. ChatBeginAlike(s, f0, st, f, width, n)
    BY <1>1, <1>3, <1>5, <1>9 DEF ChatBeginAlike
  <2>2. ChatSame(f0, f, n)
    BY <2>1, ChatLaysAlike
  <2> QED BY <1>9, <2>2 DEF ChatSame
<1>11. g0[n] = g[n]
  <2>1. ChatBeginAlike(s, g0, st, g, 0, n)
    BY <1>1, <1>4, <1>6, <1>9 DEF ChatBeginAlike
  <2>2. ChatSame(g0, g, n)
    BY <2>1, ChatLaysAlike
  <2> QED BY <1>9, <2>2 DEF ChatSame
<1> QED
  BY <1>5, <1>6, <1>8, <1>9, <1>10, <1>11 DEF ChatFits

\* Joined and one more.
LEMMA ConcatThenAppend ==
  ASSUME NEW a \in Seq(Nat), NEW b \in Seq(Nat), NEW e \in Nat
  PROVE  Append(a \o b, e) = a \o Append(b, e)
<1>1. <<e>> \in Seq(Nat) /\ a \o b \in Seq(Nat)
  BY ConcatProperties
<1>2. PICK q : q = <<e>>
  OBVIOUS
<1>3. (a \o b) \o q = a \o (b \o q)
  BY <1>1, <1>2, ConcatAssociative
<1>4. Append(a \o b, e) = (a \o b) \o q /\ Append(b, e) = b \o q
  BY <1>1, <1>2, AppendIsConcat
<1> QED
  BY <1>3, <1>4

\* After text whose last line is closed, more text is laid out as on its own.
LEMMA ChatEndConcat ==
  ASSUME NEW s \in ChatText, NEW u \in ChatText, NEW width \in Nat,
         ChatEnd(s, width).line = 0
  PROVE  /\ ChatEnd(s \o u, width).lines = ChatEnd(s, width).lines \o ChatEnd(u, width).lines
         /\ ChatEnd(s \o u, width).line = ChatEnd(u, width).line
<1> DEFINE su == s \o u
           n == Len(s)
           m == Len(u)
           L == ChatEnd(s, width).lines
<1>1. /\ su \in ChatText /\ Len(su) = n + m /\ n \in Nat /\ m \in Nat
      /\ \A k \in 1..n : s[k] = su[k]
      /\ \A k \in 1..m : su[n + k] = u[k]
  <2>1. /\ su \in Seq({Glyph, Break}) /\ Len(su) = n + m /\ n \in Nat /\ m \in Nat
        /\ \A i \in 1..n + m : su[i] = IF i <= n THEN s[i] ELSE u[i - n]
    BY ConcatProperties DEF ChatText
  <2> HIDE DEF su
  <2>2. ASSUME NEW k \in 1..m PROVE su[n + k] = u[k]
    <3>1. n + k \in 1..n + m /\ ~(n + k <= n) /\ n + k - n = k
      BY <2>1
    <3> QED BY <2>1, <3>1
  <2> QED BY <2>1, <2>2 DEF ChatText
<1> HIDE DEF su
<1>2. PICK f : ChatLays(su, width, f) /\ ChatEnd(su, width) = f[Len(su)]
  BY <1>1, ChatEndIs
<1>3. PICK f0 : ChatLays(s, width, f0) /\ ChatEnd(s, width) = f0[n]
  BY ChatEndIs
<1>4. PICK h : ChatLays(u, width, h) /\ ChatEnd(u, width) = h[m]
  BY ChatEndIs
<1>5. f[n] = f0[n]
  <2>1. ChatBeginAlike(s, f0, su, f, width, n)
    BY <1>1, <1>2, <1>3 DEF ChatBeginAlike
  <2>2. ChatSame(f0, f, n)
    BY <2>1, ChatLaysAlike
  <2>3. n \in 0..n
    BY <1>1
  <2> QED BY <2>2, <2>3 DEF ChatSame
<1>6. L \in Seq(Nat) /\ f[n].lines = L /\ f[n].line = 0
  <2>1. ChatEnd(s, width) \in ChatAccs
    BY ChatEndType
  <2> QED BY <1>3, <1>5, <2>1 DEF ChatAccs
<1> HIDE DEF L
<1> DEFINE P == {k \in 0..m : f[n + k].lines = L \o h[k].lines /\ f[n + k].line = h[k].line}
<1>7. 0 \in P
  <2>1. h[0].lines = <<>> /\ h[0].line = 0
    BY <1>4 DEF ChatLays, ChatStart
  <2>2. L \o <<>> = L
    BY <1>6, ConcatEmptySeq
  <2>3. n + 0 = n /\ 0 \in 0..m
    BY <1>1
  <2> QED BY <1>6, <2>1, <2>2, <2>3
<1>8. ASSUME NEW k \in 0..m - 1, k \in P PROVE k + 1 \in P
  <2>1. /\ k + 1 \in 1..m /\ k + 1 - 1 = k /\ k \in 0..m /\ k + 1 \in 0..m
        /\ n + (k + 1) \in 1..Len(su) /\ n + (k + 1) - 1 = n + k /\ n + k \in 0..Len(su)
    BY <1>1
  <2>2. /\ f[n + (k + 1)] = ChatLaid(width, f[n + k], su[n + (k + 1)]) /\ f[n + k] \in ChatAccs
        /\ h[k + 1] = ChatLaid(width, h[k], u[k + 1]) /\ h[k] \in ChatAccs
    <3>1. PICK j, i : j = n + (k + 1) /\ i = k + 1
      OBVIOUS
    <3>2. j \in 1..Len(su) /\ j - 1 = n + k /\ i \in 1..m /\ i - 1 = k
      BY <2>1, <3>1
    <3>3. f[j] = ChatLaid(width, f[j - 1], su[j]) /\ f[n + k] \in ChatAccs
      BY <1>2, <2>1, <3>2 DEF ChatLays
    <3>4. h[i] = ChatLaid(width, h[i - 1], u[i]) /\ h[k] \in ChatAccs
      BY <1>4, <2>1, <3>2 DEF ChatLays
    <3> QED BY <3>1, <3>2, <3>3, <3>4
  <2>3. PICK a, b, x : a = f[n + k] /\ b = h[k] /\ x = u[k + 1]
    OBVIOUS
  <2>4. /\ a.lines \in Seq(Nat) /\ a.line \in Nat /\ DOMAIN a = {"lines", "line"}
        /\ b.lines \in Seq(Nat) /\ b.line \in Nat /\ DOMAIN b = {"lines", "line"}
    BY <2>2, <2>3 DEF ChatAccs
  <2>5. a.lines = L \o b.lines /\ a.line = b.line /\ su[n + (k + 1)] = x
    BY <1>1, <1>8, <2>1, <2>3
  <2>6. Append(a.lines, a.line) = L \o Append(b.lines, b.line)
    <3>1. PICK p, e : p = b.lines /\ e = b.line
      OBVIOUS
    <3>2. p \in Seq(Nat) /\ e \in Nat /\ L \in Seq(Nat)
      BY <1>6, <2>4, <3>1
    <3>3. Append(L \o p, e) = L \o Append(p, e)
      BY <3>2, ConcatThenAppend
    <3>4. a.lines = L \o p /\ a.line = e
      BY <2>5, <3>1
    <3> QED BY <3>1, <3>3, <3>4, Zenon
  <2>7. /\ ChatLaid(width, a, x).lines = L \o ChatLaid(width, b, x).lines
        /\ ChatLaid(width, a, x).line = ChatLaid(width, b, x).line
    BY <2>4, <2>5, <2>6 DEF ChatLaid
  <2>8. f[n + (k + 1)] = ChatLaid(width, a, x) /\ h[k + 1] = ChatLaid(width, b, x)
    BY <2>2, <2>3, <2>5
  <2> QED BY <2>1, <2>7, <2>8
<1>9. m \in P
  <2> HIDE DEF P
  <2>1. \A k \in 0..m : k \in P
    BY <1>1, <1>7, <1>8, NaturalsUpTo
  <2> QED BY <1>1, <2>1
<1> QED
  BY <1>1, <1>2, <1>4, <1>9 DEF su, L

\* Glyphs alone are one line, without a width.
LEMMA ChatEndOfGlyphs ==
  ASSUME NEW g \in Seq({Glyph})
  PROVE  ChatEnd(g, 0).lines = <<>> /\ ChatEnd(g, 0).line = Len(g) /\ g \in ChatText
<1> DEFINE n == Len(g)
<1>1. n \in Nat /\ g \in ChatText /\ \A k \in 1..n : g[k] = Glyph
  BY SeqMonotonic DEF ChatText
<1>2. PICK f : ChatLays(g, 0, f) /\ ChatEnd(g, 0) = f[n]
  BY <1>1, ChatEndIs
<1> DEFINE P == {k \in 0..n : f[k].lines = <<>> /\ f[k].line = k}
<1>3. 0 \in P
  BY <1>1, <1>2 DEF ChatLays, ChatStart
<1>4. ASSUME NEW k \in 0..n - 1, k \in P PROVE k + 1 \in P
  <2>1. k + 1 \in 1..n /\ k + 1 - 1 = k /\ k \in 0..n /\ k + 1 \in 0..n
    BY <1>1
  <2>2. f[k + 1] = ChatLaid(0, f[k], Glyph) /\ f[k] \in ChatAccs
    <3>1. f[k + 1] = ChatLaid(0, f[k + 1 - 1], g[k + 1]) /\ f[k] \in ChatAccs
      BY <1>2, <2>1 DEF ChatLays
    <3>2. g[k + 1] = Glyph
      BY <1>1, <2>1
    <3> QED BY <2>1, <3>1, <3>2
  <2>3. PICK a : a = f[k]
    OBVIOUS
  <2>4. DOMAIN a = {"lines", "line"} /\ a.lines = <<>> /\ a.line = k
    BY <1>4, <2>2, <2>3 DEF ChatAccs
  <2>5. ChatLaid(0, a, Glyph).lines = <<>> /\ ChatLaid(0, a, Glyph).line = k + 1
    BY <2>4 DEF ChatLaid, Glyph, Break
  <2> QED BY <2>1, <2>2, <2>3, <2>5
<1>5. n \in P
  <2> HIDE DEF P
  <2>1. \A k \in 0..n : k \in P
    BY <1>1, <1>3, <1>4, NaturalsUpTo
  <2> QED BY <1>1, <2>1
<1> QED
  BY <1>1, <1>2, <1>5

\* What has been folded: a closed beginning, whose lines are final, and an open tail.
ChatFolded(stream, final, open, tail) ==
  \E closed \in ChatText :
    /\ stream = closed \o tail /\ tail \in Seq({Glyph}) /\ open = Len(tail)
    /\ ChatEnd(closed, 0).lines = final /\ ChatEnd(closed, 0).line = 0

\* The last break of a text.
ChatLast(u) == SelectLastInSeq(u, LAMBDA x : x = Break)

\* What is before the last break, and what is behind it, which has none.
LEMMA ChatLastBreak ==
  ASSUME NEW u \in ChatText, NEW last, last = ChatLast(u)
  PROVE  /\ last \in 0..Len(u) /\ (last > 0 => u[last] = Break)
         /\ \A i \in last + 1..Len(u) : u[i] = Glyph
<1> DEFINE I == {i \in 1..Len(u) : u[i] = Break}
<1>1. last = IF I # {} THEN Max(I) ELSE 0
  BY DEF ChatLast, SelectLastInSeq
<1>2. Len(u) \in Nat /\ \A i \in 1..Len(u) : u[i] = Glyph \/ u[i] = Break
  BY DEF ChatText
<1>3. CASE I = {}
  BY <1>1, <1>2, <1>3
<1>4. CASE I # {}
  <2>1. I \subseteq 0..Len(u)
    OBVIOUS
  <2>2. Max(I) \in I /\ \A x \in I : x <= Max(I)
    <3> HIDE DEF I
    <3> QED BY <1>2, <1>4, <2>1, MaxOfNaturals
  <2>3. last \in I /\ \A x \in I : x <= last
    BY <1>1, <1>4, <2>2
  <2>4. ASSUME NEW i \in last + 1..Len(u) PROVE u[i] = Glyph
    <3>1. i \in 1..Len(u) /\ ~(i <= last)
      BY <1>2, <2>3
    <3> QED BY <1>2, <2>3, <3>1
  <2> QED BY <1>2, <2>3, <2>4
<1> QED
  BY <1>3, <1>4

\* A chunk whose last line is closed goes to the closed beginning, the rest to the tail.
LEMMA ChatFoldKeeps ==
  ASSUME NEW closed \in ChatText, NEW u \in ChatText, u # <<>>, NEW width \in Nat, NEW final,
         ChatEnd(closed, 0).lines = final, ChatEnd(closed, 0).line = 0,
         ChatFits(closed \o u, width), NEW r, r = FoldTail(u, width)
  PROVE  ChatFolded(closed \o u, final \o r.lines, r.open, r.tail)
<1>0. 0 \in Nat
  OBVIOUS
<1>1. ChatEnd(closed, width) = ChatEnd(closed, 0)
  BY ChatFitsBegin DEF ChatFits
<1> DEFINE E == ChatEnd(u, width)
           F == ChatEnd(u, 0)
<1>2. /\ final \in Seq(Nat) /\ E.lines \in Seq(Nat) /\ F.lines \in Seq(Nat) /\ E.line \in Nat
  BY ChatEndType DEF ChatAccs
<1>3. E.lines = F.lines /\ E.line = F.line
  <2>1. /\ ChatEnd(closed \o u, width).lines = final \o E.lines
        /\ ChatEnd(closed \o u, width).line = E.line
    <3>1. ChatEnd(closed, width).lines = final /\ ChatEnd(closed, width).line = 0
      BY <1>1
    <3>2. /\ ChatEnd(closed \o u, width).lines
               = ChatEnd(closed, width).lines \o ChatEnd(u, width).lines
          /\ ChatEnd(closed \o u, width).line = ChatEnd(u, width).line
      BY <3>1, ChatEndConcat, Zenon
    <3> QED BY <3>1, <3>2, Zenon
  <2>2. /\ ChatEnd(closed \o u, 0).lines = final \o F.lines
        /\ ChatEnd(closed \o u, 0).line = F.line
    BY <1>0, ChatEndConcat, Zenon
  <2>3. final \o E.lines = final \o F.lines /\ E.line = F.line
    BY <2>1, <2>2 DEF ChatFits
  <2>4. PICK p, q : p = E.lines /\ q = F.lines
    OBVIOUS
  <2>5. final \in Seq(Nat) /\ p \in Seq(Nat) /\ q \in Seq(Nat) /\ final \o p = final \o q
    BY <1>2, <2>3, <2>4
  <2>6. p = q
    BY <2>5, ConcatSimplifications
  <2> QED BY <2>3, <2>4, <2>6
<1> DEFINE n == Len(u)
           last == ChatLast(u)
           head == SubSeq(u, 1, last)
           tail == SubSeq(u, last + 1, n)
           lines == WrapByWidth(u, width)
           broken == Last(u) = Break
<1>4. /\ last \in 0..n /\ (last > 0 => u[last] = Break)
      /\ \A i \in last + 1..n : u[i] = Glyph
  BY ChatLastBreak
<1>5. /\ r.lines = (IF broken THEN lines ELSE Front(lines))
      /\ r.open = (IF broken THEN 0 ELSE Last(lines))
      /\ r.tail = tail
  BY DEF FoldTail, ChatLast
<1>6. n \in Nat /\ n \in 1..n /\ u \in Seq({Glyph, Break}) /\ Last(u) = u[n]
  BY DEF ChatText, Last
<1>7. lines = IF broken THEN E.lines ELSE Append(E.lines, E.line)
  BY ChatWrapIs, Zenon
<1> HIDE DEF n, last, lines, broken
<1>8. head \in ChatText /\ Len(head) = last /\ \A i \in 1..last : head[i] = u[i]
  <2>1. \A i \in 1..last : u[i] \in {Glyph, Break}
    BY <1>4, <1>6 DEF n
  <2>2. /\ head \in Seq({Glyph, Break}) /\ Len(head) = IF 1 <= last THEN last - 1 + 1 ELSE 0
        /\ \A i \in 1..last - 1 + 1 : head[i] = u[1 + i - 1]
    BY <1>4, <1>6, <2>1, SubSeqProperties
  <2> HIDE DEF head
  <2>3. Len(head) = last
    BY <1>4, <1>6, <2>2
  <2>4. ASSUME NEW i \in 1..last PROVE head[i] = u[i]
    <3>1. i \in 1..last - 1 + 1 /\ 1 + i - 1 = i
      BY <1>4, <1>6
    <3> QED BY <2>2, <3>1
  <2> QED BY <2>2, <2>3, <2>4 DEF ChatText
<1>9. tail \in Seq({Glyph}) /\ Len(tail) = n - last
  <2>1. \A i \in last + 1..n : u[i] \in {Glyph}
    BY <1>4
  <2>2. last + 1 \in Int /\ n \in Int
    BY <1>4, <1>6
  <2>3. tail \in Seq({Glyph}) /\ Len(tail) = IF last + 1 <= n THEN n - (last + 1) + 1 ELSE 0
    BY <2>1, <2>2, SubSeqProperties
  <2> HIDE DEF tail
  <2> QED BY <1>4, <1>6, <2>3
<1>10. u = head \o tail
  <2>1. 1 \in 1..Len(u) + 1 /\ last \in 1 - 1..Len(u) /\ n \in last..Len(u) /\ n = Len(u)
    BY <1>4, <1>6 DEF n
  <2>2. SubSeq(u, 1, last) \o SubSeq(u, last + 1, n) = SubSeq(u, 1, n)
    BY <1>6, <2>1, ConcatAdjacentSubSeq
  <2>3. SubSeq(u, 1, Len(u)) = u
    BY <1>6, SubSeqFull
  <2> QED BY <2>1, <2>2, <2>3
<1>11. ChatEnd(head, 0).line = 0
  <2> HIDE DEF head, tail
  <2>1. CASE last = 0
    <3>1. head = <<>>
      BY <1>8, <2>1 DEF ChatText
    <3> QED BY <1>8, <3>1, ChatEndType DEF ChatStart
  <2>2. CASE last # 0
    <3>1. last \in 1..last /\ last > 0
      BY <1>4, <1>6, <2>2
    <3>2. Last(head) = Break
      BY <1>4, <1>8, <3>1 DEF Last
    <3>3. head # <<>>
      BY <1>8, <2>2
    <3> QED BY <1>8, <3>2, <3>3, ChatEndType
  <2> QED BY <2>1, <2>2
<1> HIDE DEF head, tail
<1> DEFINE H == ChatEnd(head, 0).lines
<1>12. H \in Seq(Nat)
  BY <1>8, ChatEndType DEF ChatAccs
<1>13. F.lines = H /\ F.line = Len(tail)
  <2>1. /\ ChatEnd(tail, 0).lines = <<>> /\ ChatEnd(tail, 0).line = Len(tail)
        /\ tail \in ChatText
    BY <1>9, ChatEndOfGlyphs
  <2>2. F.lines = H \o ChatEnd(tail, 0).lines /\ F.line = ChatEnd(tail, 0).line
    <3>1. /\ ChatEnd(head \o tail, 0).lines = ChatEnd(head, 0).lines \o ChatEnd(tail, 0).lines
          /\ ChatEnd(head \o tail, 0).line = ChatEnd(tail, 0).line
      <4>1. 0 \in Nat /\ head \in ChatText /\ tail \in ChatText /\ ChatEnd(head, 0).line = 0
        BY <1>8, <1>11, <2>1
      <4>2. PICK z : z = 0
        OBVIOUS
      <4>3. z \in Nat /\ ChatEnd(head, z).line = 0
        BY <4>1, <4>2
      <4>4. /\ ChatEnd(head \o tail, z).lines = ChatEnd(head, z).lines \o ChatEnd(tail, z).lines
            /\ ChatEnd(head \o tail, z).line = ChatEnd(tail, z).line
        BY <4>1, <4>3, ChatEndConcat, Zenon
      <4> QED BY <4>2, <4>4
    <3> QED BY <1>10, <3>1, Zenon
  <2>3. H \o <<>> = H
    BY <1>12, ConcatEmptySeq
  <2> QED BY <2>1, <2>2, <2>3
<1>14. r.lines = H /\ r.open = Len(tail) /\ r.tail = tail
  <2>1. PICK es, e : es = E.lines /\ e = E.line
    OBVIOUS
  <2>2. es = H /\ e = Len(tail) /\ es \in Seq(Nat) /\ e \in Nat
    BY <1>2, <1>3, <1>13, <2>1
  <2>3. lines = IF broken THEN es ELSE Append(es, e)
    BY <1>7, <2>1
  <2>4. CASE broken
    <3>1. u[n] = Break
      BY <1>6, <2>4 DEF broken
    <3>2. ~(n \in last + 1..n)
      BY <1>4, <3>1 DEF Glyph, Break
    <3>3. last = n
      BY <1>4, <1>6, <3>2
    <3>4. Len(tail) = 0
      BY <1>6, <1>9, <3>3
    <3> QED BY <1>5, <2>2, <2>3, <2>4, <3>4
  <2>5. CASE ~broken
    <3> DEFINE s == Append(es, e)
    <3>1. /\ s \in Seq(Nat) /\ Len(s) = Len(es) + 1 /\ \A i \in 1..Len(es) : s[i] = es[i]
          /\ s[Len(es) + 1] = e /\ Len(es) \in Nat
      BY <2>2, AppendProperties
    <3> HIDE DEF s
    <3>2. Last(s) = e
      BY <3>1 DEF Last
    <3>3. Front(s) = es
      <4>1. PICK m : m = Len(es)
        OBVIOUS
      <4>2. m \in Nat /\ Front(s) = SubSeq(s, 1, m) /\ \A i \in 1..m : s[i] \in Nat
        BY <3>1, <4>1 DEF Front
      <4>3. /\ SubSeq(s, 1, m) \in Seq(Nat)
            /\ Len(SubSeq(s, 1, m)) = IF 1 <= m THEN m - 1 + 1 ELSE 0
            /\ \A i \in 1..m - 1 + 1 : SubSeq(s, 1, m)[i] = s[1 + i - 1]
        BY <4>2, SubSeqProperties
      <4>4. PICK t : t = SubSeq(s, 1, m)
        OBVIOUS
      <4>5. t \in Seq(Nat) /\ Len(t) = m
        BY <4>2, <4>3, <4>4
      <4>6. ASSUME NEW i \in 1..m PROVE t[i] = es[i]
        <5>1. i \in 1..m - 1 + 1 /\ 1 + i - 1 = i
          BY <4>2
        <5> QED BY <3>1, <4>1, <4>3, <4>4, <5>1
      <4>7. t = es
        BY <2>2, <4>1, <4>5, <4>6, SeqEqual
      <4> QED BY <4>2, <4>4, <4>7
    <3>4. r.lines = Front(s) /\ r.open = Last(s)
      BY <1>5, <2>3, <2>5 DEF s
    <3> QED BY <1>5, <2>2, <3>2, <3>3, <3>4
  <2> QED BY <2>4, <2>5
<1> DEFINE closed2 == closed \o head
<1>15. closed2 \in ChatText /\ closed \o u = closed2 \o tail
  <2>1. /\ closed \in Seq({Glyph, Break}) /\ head \in Seq({Glyph, Break})
        /\ tail \in Seq({Glyph, Break})
    BY <1>8, <1>9, SeqMonotonic DEF ChatText
  <2>2. (closed \o head) \o tail = closed \o (head \o tail)
    BY <2>1, ConcatAssociative
  <2>3. closed \o head \in Seq({Glyph, Break})
    BY <2>1, ConcatProperties
  <2> QED BY <1>10, <2>2, <2>3 DEF ChatText
<1>16. /\ ChatEnd(closed2, 0).lines = final \o H /\ ChatEnd(closed2, 0).line = 0
  BY <1>0, <1>8, <1>11, ChatEndConcat, Zenon DEF closed2, H
<1> HIDE DEF closed2, H
<1>17. \E c \in ChatText :
         /\ closed \o u = c \o r.tail /\ r.tail \in Seq({Glyph}) /\ r.open = Len(r.tail)
         /\ ChatEnd(c, 0).lines = final \o r.lines /\ ChatEnd(c, 0).line = 0
  BY <1>9, <1>14, <1>15, <1>16
<1> QED
  BY <1>17 DEF ChatFolded

\* What is shown of it.
LEMMA ChatFoldedShows ==
  ASSUME NEW stream \in ChatText, NEW width \in Nat, NEW final, NEW open, NEW tail,
         ChatFits(stream, width), ChatFolded(stream, final, open, tail)
  PROVE  final \o (IF open > 0 THEN <<open>> ELSE <<>>) = WrapByWidth(stream, width)
<1>0. 0 \in Nat
  OBVIOUS
<1>1. PICK closed \in ChatText :
        /\ stream = closed \o tail /\ tail \in Seq({Glyph}) /\ open = Len(tail)
        /\ ChatEnd(closed, 0).lines = final /\ ChatEnd(closed, 0).line = 0
  BY DEF ChatFolded
<1>2. /\ ChatEnd(tail, 0).lines = <<>> /\ ChatEnd(tail, 0).line = open /\ tail \in ChatText
      /\ open \in Nat
  BY <1>1, ChatEndOfGlyphs
<1>3. final \in Seq(Nat)
  BY <1>1, ChatEndType DEF ChatAccs
<1>4. ChatEnd(stream, width).lines = final /\ ChatEnd(stream, width).line = open
  <2>1. /\ ChatEnd(stream, 0).lines = final \o ChatEnd(tail, 0).lines
        /\ ChatEnd(stream, 0).line = ChatEnd(tail, 0).line
    <3>1. /\ ChatEnd(closed \o tail, 0).lines
               = ChatEnd(closed, 0).lines \o ChatEnd(tail, 0).lines
          /\ ChatEnd(closed \o tail, 0).line = ChatEnd(tail, 0).line
      BY <1>0, <1>1, <1>2, ChatEndConcat, Zenon
    <3> QED BY <1>1, <3>1, Zenon
  <2>2. final \o <<>> = final
    BY <1>3, ConcatEmptySeq
  <2> QED BY <1>2, <2>1, <2>2 DEF ChatFits
<1>5. IF stream = <<>> \/ Last(stream) = Break THEN open = 0 ELSE open > 0
  BY <1>4, ChatEndType DEF ChatStart
<1>6. WrapByWidth(stream, width) = IF stream = <<>> \/ Last(stream) = Break THEN final
                                   ELSE Append(final, open)
  BY <1>4, ChatWrapIs, Zenon
<1>7. Append(final, open) = final \o <<open>> /\ final \o <<>> = final
  BY <1>2, <1>3, AppendIsConcat, ConcatEmptySeq
<1>8. CASE open > 0
  BY <1>2, <1>5, <1>6, <1>7, <1>8
<1>9. CASE ~(open > 0)
  <2>1. WrapByWidth(stream, width) = final
    BY <1>5, <1>6, <1>9
  <2>2. (IF open > 0 THEN <<open>> ELSE <<>>) = <<>>
    BY <1>9
  <2> QED BY <1>7, <2>1, <2>2
<1> QED
  BY <1>8, <1>9

-----------------------------------------------------------------------------
(* What the rows and the stream say *)

\* Texts have no end: joined, they are a text.
LEMMA ChatJoin ==
  ASSUME NEW a \in ChatText, NEW b \in ChatText
  PROVE  a \o b \in ChatText /\ <<>> \in ChatText /\ <<>> \o a = a /\ a \o <<>> = a
<1>1. PICK S : S = {Glyph, Break}
  OBVIOUS
<1>2. a \in Seq(S) /\ b \in Seq(S)
  BY <1>1 DEF ChatText
<1>3. a \o b \in Seq(S) /\ <<>> \in Seq(S) /\ <<>> \o a = a /\ a \o <<>> = a
  BY <1>2, ConcatProperties, ConcatEmptySeq
<1> QED
  BY <1>1, <1>3 DEF ChatText

\* Three texts are joined in either order.
LEMMA ChatJoinThree ==
  ASSUME NEW a \in ChatText, NEW b \in ChatText, NEW c \in ChatText
  PROVE  (a \o b) \o c = a \o (b \o c)
<1>1. PICK S : S = {Glyph, Break}
  OBVIOUS
<1>2. a \in Seq(S) /\ b \in Seq(S) /\ c \in Seq(S)
  BY <1>1 DEF ChatText
<1> QED
  BY <1>2, ConcatAssociative

\* The texts of rows and of one more.
LEMMA ChatFlatAppend ==
  ASSUME NEW seqs \in Seq(ChatText), NEW x \in ChatText
  PROVE  /\ FlattenSeq(Append(seqs, x)) = FlattenSeq(seqs) \o x
         /\ FlattenSeq(seqs) \in ChatText
<1> DEFINE more == Append(seqs, x)
           n == Len(seqs)
<1>1. /\ more \in Seq(ChatText) /\ Len(more) = n + 1 /\ n \in Nat
      /\ \A k \in 1..n : more[k] = seqs[k]
      /\ more[n + 1] = x
  BY AppendProperties
<1> HIDE DEF more
<1>0. PICK S : S = {Glyph, Break}
  OBVIOUS
<1>a. seqs \in Seq(Seq(S)) /\ more \in Seq(Seq(S)) /\ ChatText = Seq(S)
  BY <1>0, <1>1 DEF ChatText
<1>2. PICK f : Flattens(seqs, S, f) /\ FlattenSeq(seqs) = f[n]
  BY <1>a, FlattenIs
<1>3. PICK g : Flattens(more, S, g) /\ FlattenSeq(more) = g[n + 1]
  BY <1>1, <1>a, FlattenIs
<1> DEFINE P == {k \in 0..n : f[k] = g[k]}
<1>4. 0 \in P
  BY <1>1, <1>2, <1>3 DEF Flattens
<1>5. ASSUME NEW k \in 0..n - 1, k \in P PROVE k + 1 \in P
  <2>1. k + 1 \in 1..n /\ k + 1 \in 1..n + 1 /\ k + 1 - 1 = k /\ k + 1 \in 0..n
    BY <1>1
  <2>2. PICK j : j = k + 1
    OBVIOUS
  <2>3. j \in 1..n /\ j \in 1..Len(more) /\ j - 1 = k
    BY <1>1, <2>1, <2>2
  <2>4. f[j] = f[j - 1] \o seqs[j]
    BY <1>2, <2>3, Zenon DEF Flattens
  <2>5. g[j] = g[j - 1] \o more[j]
    BY <1>3, <2>3, Zenon DEF Flattens
  <2>6. more[j] = seqs[j] /\ f[k] = g[k]
    BY <1>1, <1>5, <2>3
  <2>7. f[j] = g[j]
    BY <2>3, <2>4, <2>5, <2>6
  <2> QED BY <2>1, <2>2, <2>7
<1>6. n \in P
  <2> HIDE DEF P
  <2>1. \A k \in 0..n : k \in P
    BY <1>1, <1>4, <1>5, NaturalsUpTo
  <2> QED BY <1>1, <2>1
<1>7. g[n + 1] = g[n] \o x
  <2>1. PICK j : j = n + 1
    OBVIOUS
  <2>2. j \in 1..Len(more) /\ j - 1 = n /\ more[j] = x
    BY <1>1, <2>1
  <2>3. g[j] = g[j - 1] \o more[j]
    BY <1>3, <2>2, Zenon DEF Flattens
  <2> QED BY <2>1, <2>2, <2>3
<1>8. f[n] \in ChatText
  BY <1>1, <1>2, <1>a DEF Flattens
<1> QED
  BY <1>2, <1>3, <1>6, <1>7, <1>8 DEF more

ChatRowSet == [role : {"user", "assistant", "tool", "system"}, text : ChatText, said : BOOLEAN]
ChatSaidTexts(rows) == [i \in DOMAIN rows |-> IF rows[i].said THEN rows[i].text ELSE <<>>]
ChatSaidOf(rows) == FlattenSeq(ChatSaidTexts(rows))
ChatWrapsHold(wrapped, rows, width) ==
  \A i \in DOMAIN wrapped : i \in DOMAIN rows /\ wrapped[i] = WrapByWidth(rows[i].text, width)
ChatStreamHolds(stream, final, open, tail, width) ==
  ChatFits(stream, width) => ChatFolded(stream, final, open, tail)

ChatInv ==
  /\ chatRows \in Seq(ChatRowSet) /\ chatStream \in ChatText /\ chatSaid \in ChatText
  /\ chatWidth \in Nat /\ chatCached = chatWidth
  /\ ChatSaidOf(chatRows) \o chatStream = chatSaid
  /\ ChatWrapsHold(chatWrapped, chatRows, chatCached)
  /\ ChatStreamHolds(chatStream, chatFinal, chatOpen, chatTail, chatCached)

\* One more row says its text after the rest, or nothing.
LEMMA ChatSaidOne ==
  ASSUME NEW rows \in Seq(ChatRowSet), NEW row \in ChatRowSet
  PROVE  /\ Append(rows, row) \in Seq(ChatRowSet)
         /\ ChatSaidOf(rows) \in ChatText
         /\ ChatSaidOf(Append(rows, row)) =
              IF row.said THEN ChatSaidOf(rows) \o row.text ELSE ChatSaidOf(rows)
<1> DEFINE more == Append(rows, row)
           texts == ChatSaidTexts(rows)
           new == IF row.said THEN row.text ELSE <<>>
           n == Len(rows)
<1>1. /\ more \in Seq(ChatRowSet) /\ Len(more) = n + 1 /\ n \in Nat
      /\ \A k \in 1..n : more[k] = rows[k]
      /\ more[n + 1] = row
  BY AppendProperties
<1> HIDE DEF more
<1>2. new \in ChatText /\ row.said \in BOOLEAN /\ row.text \in ChatText /\ <<>> \in ChatText
  BY DEF ChatRowSet, ChatText
<1>3. DOMAIN rows = 1..n /\ DOMAIN more = 1..n + 1
  BY <1>1
<1>4. \A i \in 1..n : rows[i].text \in ChatText
  <2>1. \A i \in 1..n : rows[i] \in ChatRowSet
    OBVIOUS
  <2> HIDE DEF n
  <2> QED BY <2>1 DEF ChatRowSet
<1>5. texts \in Seq(ChatText) /\ Len(texts) = n
  <2>1. texts = [i \in 1..n |-> IF rows[i].said THEN rows[i].text ELSE <<>>]
    BY <1>3 DEF ChatSaidTexts
  <2>2. \A i \in 1..n : texts[i] \in ChatText
    BY <1>2, <1>4, <2>1
  <2> HIDE DEF texts
  <2> QED BY <1>1, <2>1, <2>2
<1>6. ChatSaidTexts(more) = Append(texts, new)
  <2> DEFINE s == ChatSaidTexts(more)
             t == Append(texts, new)
  <2>1. s = [i \in 1..n + 1 |-> IF more[i].said THEN more[i].text ELSE <<>>]
    BY <1>3 DEF ChatSaidTexts
  <2>2. \A i \in 1..n : texts[i] = IF rows[i].said THEN rows[i].text ELSE <<>>
    BY <1>3 DEF ChatSaidTexts
  <2> HIDE DEF texts, new, s
  <2>3. /\ t \in Seq(ChatText) /\ Len(t) = n + 1
        /\ \A i \in 1..n : t[i] = texts[i]
        /\ t[n + 1] = new
    BY <1>2, <1>5, AppendProperties
  <2> HIDE DEF t
  <2>4. ASSUME NEW i \in 1..n + 1 PROVE s[i] = t[i]
    <3>1. s[i] = IF more[i].said THEN more[i].text ELSE <<>>
      BY <2>1
    <3>2. CASE i \in 1..n
      BY <1>1, <2>2, <2>3, <3>1, <3>2
    <3>3. CASE i = n + 1
      <4>1. s[i] = IF row.said THEN row.text ELSE <<>>
        BY <1>1, <3>1, <3>3
      <4>2. t[i] = new
        BY <2>3, <3>3
      <4> QED BY <4>1, <4>2 DEF new
    <3> QED BY <1>1, <3>2, <3>3
  <2>5. DOMAIN s = 1..n + 1 /\ DOMAIN t = 1..n + 1 /\ s = [i \in 1..n + 1 |-> s[i]]
    BY <1>1, <2>1, <2>3
  <2>6. t = [i \in 1..n + 1 |-> t[i]]
    BY <2>3, <2>5
  <2> QED BY <2>4, <2>5, <2>6 DEF s, t
<1> HIDE DEF texts
<1>7. FlattenSeq(Append(texts, new)) = FlattenSeq(texts) \o new /\ FlattenSeq(texts) \in ChatText
  <2> HIDE DEF new
  <2> QED BY <1>2, <1>5, ChatFlatAppend
<1>8. FlattenSeq(texts) \o <<>> = FlattenSeq(texts)
  BY <1>7, ChatJoin
<1>9. ChatSaidOf(more) = FlattenSeq(texts) \o new
  BY <1>6, <1>7 DEF ChatSaidOf
<1>10. ChatSaidOf(rows) = FlattenSeq(texts)
  BY DEF ChatSaidOf, texts
<1>11. CASE row.said
  <2>1. new = row.text
    BY <1>11
  <2> QED BY <1>1, <1>7, <1>9, <1>10, <1>11, <2>1 DEF more
<1>12. CASE ~row.said
  <2>1. new = <<>>
    BY <1>12
  <2> QED BY <1>1, <1>7, <1>8, <1>9, <1>10, <1>12, <2>1 DEF more
<1> QED
  BY <1>2, <1>11, <1>12

\* No rows say nothing.
LEMMA ChatSaidNone == ChatSaidOf(<<>>) = <<>> /\ <<>> \in Seq(ChatRowSet)
BY DEF ChatSaidOf, ChatSaidTexts, FlattenSeq

\* No row is taken back: what was wrapped stays so when a row is added.
LEMMA ChatWrapsKept ==
  ASSUME NEW rows \in Seq(ChatRowSet), NEW row \in ChatRowSet, NEW wrapped, NEW width,
         ChatWrapsHold(wrapped, rows, width)
  PROVE  ChatWrapsHold(wrapped, Append(rows, row), width)
<1>1. /\ Len(Append(rows, row)) = Len(rows) + 1 /\ Len(rows) \in Nat
      /\ \A k \in 1..Len(rows) : Append(rows, row)[k] = rows[k]
      /\ Append(rows, row) \in Seq(ChatRowSet)
  BY AppendProperties
<1>2. PICK more : more = Append(rows, row)
  OBVIOUS
<1>3. ASSUME NEW i \in DOMAIN wrapped
      PROVE  i \in DOMAIN more /\ wrapped[i] = WrapByWidth(more[i].text, width)
  <2>1. i \in DOMAIN rows /\ wrapped[i] = WrapByWidth(rows[i].text, width)
    BY DEF ChatWrapsHold
  <2>2. i \in 1..Len(rows) /\ DOMAIN more = 1..Len(rows) + 1
    BY <1>1, <1>2, <2>1
  <2>3. i \in DOMAIN more /\ more[i] = rows[i]
    BY <1>1, <1>2, <2>2
  <2> QED BY <2>1, <2>3
<1> QED
  BY <1>2, <1>3 DEF ChatWrapsHold

\* A chunk, or a whole stream, folded after what is closed.
LEMMA ChatFoldStep ==
  ASSUME NEW closed \in ChatText, NEW u \in ChatText, NEW width \in Nat, NEW final, NEW open,
         ChatEnd(closed, 0).lines = final, ChatEnd(closed, 0).line = 0,
         u = <<>> => open = 0,
         ChatFits(closed \o u, width),
         FoldStreaming(final, open, u, width)
  PROVE  ChatFolded(closed \o u, chatFinal', chatOpen', chatTail')
<1>1. CASE u = <<>>
  <2>1. chatFinal' = final /\ chatOpen' = 0 /\ chatTail' = <<>>
    BY <1>1 DEF FoldStreaming
  <2>2. closed \o u = closed \o <<>> /\ <<>> \in Seq({Glyph}) /\ Len(<<>>) = 0
    BY <1>1
  <2>3. ChatFolded(closed \o u, final, 0, <<>>)
    BY <2>2 DEF ChatFolded
  <2> QED BY <2>1, <2>3
<1>2. CASE u # <<>>
  <2>1. PICK r : r = FoldTail(u, width)
    OBVIOUS
  <2>2. chatFinal' = final \o r.lines /\ chatOpen' = r.open /\ chatTail' = r.tail
    BY <1>2, <2>1 DEF FoldStreaming
  <2>3. ChatFolded(closed \o u, final \o r.lines, r.open, r.tail)
    BY <1>2, <2>1, ChatFoldKeeps
  <2> QED BY <2>2, <2>3
<1> QED
  BY <1>1, <1>2

\* Nothing is folded of an empty stream.
LEMMA ChatEmptyFolds ==
  /\ <<>> \in ChatText /\ ChatEnd(<<>>, 0).lines = <<>> /\ ChatEnd(<<>>, 0).line = 0
  /\ ChatFolded(<<>>, <<>>, 0, <<>>)
<1>1. <<>> \in ChatText /\ <<>> \in Seq({Glyph}) /\ Len(<<>>) = 0 /\ <<>> = <<>> \o <<>>
  BY DEF ChatText
<1>2. ChatEnd(<<>>, 0) = ChatStart
  BY <1>1, ChatEndType
<1>3. ChatEnd(<<>>, 0).lines = <<>> /\ ChatEnd(<<>>, 0).line = 0
  BY <1>2 DEF ChatStart
<1> QED
  BY <1>1, <1>3 DEF ChatFolded

\* What the rows say, and after them the stream, is what came.
LEMMA ChatSaidIs ==
  ASSUME NEW rows \in Seq(ChatRowSet)
  PROVE  ChatSaidOf(rows) \in ChatText
<1> DEFINE row == [role |-> "user", text |-> <<>>, said |-> FALSE]
<1>1. row \in ChatRowSet
  BY DEF ChatRowSet, ChatText
<1> QED
  BY <1>1, ChatSaidOne

\* Nothing came and nothing is shown.
LEMMA ChatInitInv == ChatInit => ChatInv
<1> SUFFICES ASSUME ChatInit PROVE ChatInv
  OBVIOUS
<1> USE DEF ChatInit
<1>1. ChatSaidOf(chatRows) \o chatStream = chatSaid
  <2>1. <<>> \o <<>> = <<>>
    BY ChatEmptyFolds, ChatJoin
  <2> QED BY <2>1, ChatSaidNone
<1>2. ChatWrapsHold(chatWrapped, chatRows, chatCached)
  BY DEF ChatWrapsHold
<1>3. ChatStreamHolds(chatStream, chatFinal, chatOpen, chatTail, chatCached)
  BY ChatEmptyFolds DEF ChatStreamHolds
<1> QED
  BY <1>1, <1>2, <1>3, ChatEmptyFolds, ChatSaidNone DEF ChatInv

\* A row is appended.
LEMMA ChatAppendKeeps ==
  ASSUME ChatInv, NEW role, NEW text \in ChatText, NEW said \in BOOLEAN,
         ChatAppend(role, text, said), role \in {"user", "assistant", "tool", "system"},
         UNCHANGED chatView
  PROVE  /\ chatRows' \in Seq(ChatRowSet)
         /\ ChatWrapsHold(chatWrapped', chatRows', chatCached')
         /\ chatWidth' \in Nat /\ chatCached' = chatWidth' /\ chatCached' = chatCached
         /\ ChatSaidOf(chatRows') = IF said THEN ChatSaidOf(chatRows) \o text
                                    ELSE ChatSaidOf(chatRows)
<1> DEFINE row == ChatRow(role, text, said)
<1>1. row \in ChatRowSet /\ row.said = said /\ row.text = text
  BY DEF ChatRow, ChatRowSet
<1>2. chatRows' = Append(chatRows, row) /\ chatRows \in Seq(ChatRowSet)
  BY DEF ChatAppend, ChatInv
<1> HIDE DEF row
<1>3. chatWrapped' = chatWrapped /\ chatCached' = chatCached /\ chatWidth' = chatWidth
  BY DEF chatView
<1>4. ChatWrapsHold(chatWrapped, Append(chatRows, row), chatCached)
  BY <1>1, <1>2, ChatWrapsKept DEF ChatInv
<1>5. /\ Append(chatRows, row) \in Seq(ChatRowSet)
      /\ ChatSaidOf(Append(chatRows, row)) =
           IF row.said THEN ChatSaidOf(chatRows) \o row.text ELSE ChatSaidOf(chatRows)
  BY <1>1, <1>2, ChatSaidOne
<1> QED
  BY <1>1, <1>2, <1>3, <1>4, <1>5 DEF ChatInv

\* A row that is not the model's, or that ends no stream.
LEMMA ChatPlainAppend ==
  ASSUME ChatInv, NEW role, NEW text \in ChatText,
         ChatAppend(role, text, FALSE), role \in {"user", "assistant", "tool", "system"},
         UNCHANGED <<chatStreaming, chatView, chatSaid>>
  PROVE  ChatInv'
<1>1. /\ chatRows' \in Seq(ChatRowSet)
      /\ ChatWrapsHold(chatWrapped', chatRows', chatCached')
      /\ chatWidth' \in Nat /\ chatCached' = chatWidth' /\ chatCached' = chatCached
      /\ ChatSaidOf(chatRows') = ChatSaidOf(chatRows)
  BY ChatAppendKeeps
<1>2. /\ chatStream' = chatStream /\ chatFinal' = chatFinal /\ chatOpen' = chatOpen
      /\ chatTail' = chatTail /\ chatSaid' = chatSaid
  BY DEF chatStreaming
<1> QED
  BY <1>1, <1>2 DEF ChatInv

\* What comes is text.
LEMMA ChatTextsAreTexts == ChatTexts \subseteq ChatText /\ ChatChunks \subseteq ChatText
BY ChatAssumption DEF ChatText

\* The final text of the model: it is the stream, or comes without one.
LEMMA ChatAssistantKeeps ==
  ASSUME ChatInv, NEW text \in ChatText, NEW said \in BOOLEAN, AppendAssistant(text, said)
  PROVE  ChatInv'
<1>1. /\ chatRows' \in Seq(ChatRowSet)
      /\ ChatWrapsHold(chatWrapped', chatRows', chatCached')
      /\ chatWidth' \in Nat /\ chatCached' = chatWidth' /\ chatCached' = chatCached
      /\ ChatSaidOf(chatRows') = IF said THEN ChatSaidOf(chatRows) \o text
                                 ELSE ChatSaidOf(chatRows)
  <2>1. ChatAppend("assistant", text, said) /\ UNCHANGED chatView
    BY DEF AppendAssistant
  <2> QED BY <2>1, ChatAppendKeeps
<1>2. /\ chatStream' = chatStream /\ chatFinal' = chatFinal /\ chatOpen' = chatOpen
      /\ chatTail' = chatTail
  BY DEF AppendAssistant, chatStreaming
<1>3. ChatSaidOf(chatRows) \in ChatText /\ chatSaid \in ChatText /\ chatStream \in ChatText
      /\ ChatSaidOf(chatRows) \o chatStream = chatSaid
  BY ChatSaidIs DEF ChatInv
<1>4. chatSaid' \in ChatText /\ ChatSaidOf(chatRows') \o chatStream' = chatSaid'
  <2>1. CASE said
    <3>1. chatStream = <<>> /\ chatSaid' = chatSaid \o text
      BY <2>1 DEF AppendAssistant
    <3>2. ChatSaidOf(chatRows) = chatSaid
      BY <1>3, <3>1, ChatJoin
    <3>3. chatSaid \o text \in ChatText
      BY <1>3, ChatJoin
    <3>4. (chatSaid \o text) \o <<>> = chatSaid \o text
      BY <3>3, ChatJoin
    <3> QED BY <1>1, <1>2, <2>1, <3>1, <3>2, <3>3, <3>4
  <2>2. CASE ~said
    BY <1>1, <1>2, <1>3, <2>2 DEF AppendAssistant
  <2> QED BY <2>1, <2>2
<1> QED
  BY <1>1, <1>2, <1>4 DEF ChatInv

\* A stored conversation is shown.
LEMMA ChatRestoreKeeps ==
  ASSUME ChatInv, NEW question \in ChatText, NEW answer \in ChatText,
         RestoreHistory(question, answer)
  PROVE  ChatInv'
<1> DEFINE ask == ChatRow("user", question, FALSE)
           say == ChatRow("assistant", answer, TRUE)
<1>1. /\ ask \in ChatRowSet /\ say \in ChatRowSet /\ ~ask.said /\ say.said
      /\ say.text = answer
  BY DEF ChatRow, ChatRowSet
<1>2. /\ chatRows' = <<ask, say>> /\ chatRows = <<>> /\ chatSaid' = answer /\ chatSaid = <<>>
      /\ chatStream' = chatStream /\ chatFinal' = chatFinal /\ chatOpen' = chatOpen
      /\ chatTail' = chatTail /\ chatWrapped' = chatWrapped /\ chatWidth' = chatWidth
      /\ chatCached' = chatCached
  BY DEF RestoreHistory, chatStreaming, chatView
<1> HIDE DEF ask, say
<1>3. <<ask, say>> = Append(Append(<<>>, ask), say)
  OBVIOUS
<1>4. Append(<<>>, ask) \in Seq(ChatRowSet) /\ ChatSaidOf(Append(<<>>, ask)) = <<>>
  BY <1>1, ChatSaidOne, ChatSaidNone
<1>5. /\ chatRows' \in Seq(ChatRowSet) /\ ChatSaidOf(chatRows') = <<>> \o answer
  BY <1>1, <1>2, <1>3, <1>4, ChatSaidOne
<1>6. <<>> \o answer = answer
  BY ChatJoin
<1>7. chatStream = <<>>
  <2>1. <<>> \o chatStream = <<>> /\ chatStream \in ChatText
    BY <1>2, ChatSaidNone DEF ChatInv
  <2> QED BY <2>1, ChatJoin
<1>8. answer \o <<>> = answer
  BY ChatJoin
<1>9. ChatWrapsHold(chatWrapped', chatRows', chatCached')
  <2>1. ChatWrapsHold(chatWrapped, <<>>, chatCached)
    BY <1>2 DEF ChatInv
  <2>2. DOMAIN chatWrapped = {}
    BY <2>1 DEF ChatWrapsHold
  <2> QED BY <1>2, <2>2 DEF ChatWrapsHold
<1> QED
  BY <1>2, <1>5, <1>6, <1>7, <1>8, <1>9 DEF ChatInv

\* What did not fit does not fit with more behind it; what fits was folded before.
LEMMA ChatChunkKeeps ==
  ASSUME ChatInv, NEW text \in ChatText, AppendStreamChunk(text)
  PROVE  ChatInv'
<1>1. /\ chatStream' = chatStream \o text /\ chatSaid' = chatSaid \o text
      /\ FoldStreaming(chatFinal, chatOpen, chatTail \o text, chatWidth)
      /\ chatRows' = chatRows /\ chatWrapped' = chatWrapped /\ chatWidth' = chatWidth
      /\ chatCached' = chatCached
  BY DEF AppendStreamChunk, chatView
<1>2. /\ chatStream \in ChatText /\ chatSaid \in ChatText /\ chatWidth \in Nat
      /\ chatCached = chatWidth /\ ChatSaidOf(chatRows) \o chatStream = chatSaid
      /\ ChatSaidOf(chatRows) \in ChatText
  BY ChatSaidIs DEF ChatInv
<1>3. chatStream' \in ChatText /\ chatSaid' \in ChatText
  BY <1>1, <1>2, ChatJoin
<1>4. ChatSaidOf(chatRows') \o chatStream' = chatSaid'
  <2>1. PICK a : a = ChatSaidOf(chatRows)
    OBVIOUS
  <2>2. (a \o chatStream) \o text = a \o (chatStream \o text)
    BY <1>2, <2>1, ChatJoinThree
  <2> QED BY <1>1, <1>2, <2>1, <2>2
<1>5. ASSUME ChatFits(chatStream', chatCached')
      PROVE  ChatFolded(chatStream', chatFinal', chatOpen', chatTail')
  <2>1. ChatFits(chatStream \o text, chatWidth)
    BY <1>1, <1>2, <1>5
  <2>2. ChatFits(chatStream, chatWidth)
    BY <1>2, <2>1, ChatFitsBegin
  <2>3. ChatFolded(chatStream, chatFinal, chatOpen, chatTail)
    BY <1>2, <2>2 DEF ChatInv, ChatStreamHolds
  <2>4. PICK closed \in ChatText :
          /\ chatStream = closed \o chatTail /\ chatTail \in Seq({Glyph})
          /\ chatOpen = Len(chatTail)
          /\ ChatEnd(closed, 0).lines = chatFinal /\ ChatEnd(closed, 0).line = 0
    BY <2>3 DEF ChatFolded
  <2>5. chatTail \in ChatText
    BY <2>4, SeqMonotonic DEF ChatText
  <2>6. PICK u : u = chatTail \o text
    OBVIOUS
  <2>7. u \in ChatText /\ chatStream \o text = closed \o u
    BY <2>4, <2>5, <2>6, ChatJoin, ChatJoinThree
  <2>8. u = <<>> => chatOpen = 0
    <3>1. Len(u) = Len(chatTail) + Len(text) /\ Len(chatTail) \in Nat /\ Len(text) \in Nat
      BY <2>5, <2>6, ConcatProperties DEF ChatText
    <3> QED BY <2>4, <3>1
  <2>9. ChatFolded(closed \o u, chatFinal', chatOpen', chatTail')
    <3>1. ChatFits(closed \o u, chatWidth) /\ FoldStreaming(chatFinal, chatOpen, u, chatWidth)
      BY <1>1, <2>1, <2>6, <2>7
    <3> QED BY <1>2, <2>4, <2>7, <2>8, <3>1, ChatFoldStep
  <2> QED BY <1>1, <2>7, <2>9
<1>6. ChatStreamHolds(chatStream', chatFinal', chatOpen', chatTail', chatCached')
  BY <1>5 DEF ChatStreamHolds
<1> QED
  BY <1>1, <1>3, <1>4, <1>6 DEF ChatInv

\* The stream becomes a row.
LEMMA ChatFinishKeeps == ChatInv /\ FinishMessage => ChatInv'
<1> SUFFICES ASSUME ChatInv, FinishMessage PROVE ChatInv'
  OBVIOUS
<1>1. CASE chatStream = <<>>
  <2>1. UNCHANGED <<chatRows, chatStreaming, chatView, chatSaid>>
    BY <1>1 DEF FinishMessage
  <2> QED BY <2>1 DEF ChatInv, chatStreaming, chatView
<1>2. CASE chatStream # <<>>
  <2>1. /\ ChatAppend("assistant", chatStream, TRUE) /\ UNCHANGED chatView
        /\ chatStream' = <<>> /\ chatTail' = <<>> /\ chatFinal' = <<>> /\ chatOpen' = 0
        /\ chatSaid' = chatSaid
    BY <1>2 DEF FinishMessage
  <2>2. /\ chatStream \in ChatText /\ chatSaid \in ChatText
        /\ ChatSaidOf(chatRows) \o chatStream = chatSaid
    BY DEF ChatInv
  <2>3. /\ chatRows' \in Seq(ChatRowSet)
        /\ ChatWrapsHold(chatWrapped', chatRows', chatCached')
        /\ chatWidth' \in Nat /\ chatCached' = chatWidth'
        /\ ChatSaidOf(chatRows') = ChatSaidOf(chatRows) \o chatStream
    BY <2>1, <2>2, ChatAppendKeeps
  <2>4. ChatSaidOf(chatRows') \o chatStream' = chatSaid'
    <3>1. chatSaid \o <<>> = chatSaid
      BY <2>2, ChatJoin
    <3> QED BY <2>1, <2>2, <2>3, <3>1
  <2>5. ChatStreamHolds(chatStream', chatFinal', chatOpen', chatTail', chatCached')
    BY <2>1, ChatEmptyFolds DEF ChatStreamHolds
  <2> QED BY <2>1, <2>2, <2>3, <2>4, <2>5, ChatEmptyFolds DEF ChatInv
<1> QED
  BY <1>1, <1>2

\* All rows go.
LEMMA ChatClearKeeps == ChatInv /\ ChatClear => ChatInv'
<1> SUFFICES ASSUME ChatInv, ChatClear PROVE ChatInv'
  OBVIOUS
<1>1. /\ chatRows' = <<>> /\ chatWrapped' = <<>> /\ chatStream' = <<>> /\ chatTail' = <<>>
      /\ chatFinal' = <<>> /\ chatOpen' = 0 /\ chatSaid' = <<>>
      /\ chatWidth' = chatWidth /\ chatCached' = chatCached
  BY DEF ChatClear
<1>2. ChatSaidOf(chatRows') \o chatStream' = chatSaid'
  <2>1. <<>> \o <<>> = <<>>
    BY ChatEmptyFolds, ChatJoin
  <2> QED BY <1>1, <2>1, ChatSaidNone
<1>3. ChatWrapsHold(chatWrapped', chatRows', chatCached')
  BY <1>1 DEF ChatWrapsHold
<1>4. ChatStreamHolds(chatStream', chatFinal', chatOpen', chatTail', chatCached')
  BY <1>1, ChatEmptyFolds DEF ChatStreamHolds
<1> QED
  BY <1>1, <1>2, <1>3, <1>4, ChatEmptyFolds, ChatSaidNone DEF ChatInv

\* Another width lays everything out anew.
LEMMA ChatFrameKeeps ==
  ASSUME ChatInv, NEW width \in Nat, EnsureWrapped(width), chatWidth' = width,
         UNCHANGED <<chatRows, chatSaid>>
  PROVE  ChatInv'
<1>1. /\ chatCached' = width /\ chatRows' = chatRows /\ chatSaid' = chatSaid
      /\ chatStream' = chatStream
      /\ chatWrapped' = [i \in DOMAIN chatRows |->
                           IF width = chatCached /\ i \in DOMAIN chatWrapped THEN chatWrapped[i]
                           ELSE WrapByWidth(chatRows[i].text, width)]
  BY DEF EnsureWrapped, chatStreaming
<1>2. ChatWrapsHold(chatWrapped', chatRows', chatCached')
  <2>1. ASSUME NEW i \in DOMAIN chatRows
        PROVE  chatWrapped'[i] = WrapByWidth(chatRows[i].text, width)
    BY <1>1 DEF ChatInv, ChatWrapsHold
  <2>2. DOMAIN chatWrapped' = DOMAIN chatRows
    BY <1>1
  <2> QED BY <1>1, <2>1, <2>2 DEF ChatWrapsHold
<1>3. ChatStreamHolds(chatStream', chatFinal', chatOpen', chatTail', chatCached')
  <2>1. CASE width = chatCached
    <3>1. UNCHANGED chatStreaming
      BY <2>1 DEF EnsureWrapped
    <3> QED BY <1>1, <2>1, <3>1 DEF ChatInv, chatStreaming
  <2>2. CASE width # chatCached
    <3>1. FoldStreaming(<<>>, 0, chatStream, width)
      BY <2>2 DEF EnsureWrapped
    <3>2. ASSUME ChatFits(chatStream, width)
          PROVE  ChatFolded(chatStream, chatFinal', chatOpen', chatTail')
      <4>1. PICK e, z : e = <<>> /\ z = 0
        OBVIOUS
      <4>2. e \o chatStream = chatStream /\ chatStream \in ChatText
        BY <4>1, ChatJoin DEF ChatInv
      <4>3. /\ e \in ChatText /\ ChatEnd(e, 0).lines = e /\ ChatEnd(e, 0).line = 0
            /\ ChatFits(e \o chatStream, width) /\ FoldStreaming(e, z, chatStream, width)
        BY <3>1, <3>2, <4>1, <4>2, ChatEmptyFolds
      <4>4. ChatFolded(e \o chatStream, chatFinal', chatOpen', chatTail')
        BY <4>1, <4>2, <4>3, ChatFoldStep
      <4> QED BY <4>2, <4>4
    <3> QED BY <1>1, <3>2 DEF ChatStreamHolds
  <2> QED BY <2>1, <2>2
<1> QED
  BY <1>1, <1>2, <1>3 DEF ChatInv

\* Each step keeps the invariant.
LEMMA ChatStep == ChatInv /\ [ChatNext]_chatVars => ChatInv'
<1> SUFFICES ASSUME ChatInv, [ChatNext]_chatVars PROVE ChatInv'
  OBVIOUS
<1>a. UNCHANGED chatVars => ChatInv'
  BY DEF ChatInv, chatVars
<1>b. ASSUME NEW text \in ChatText, AppendSystem(text) PROVE ChatInv'
  BY <1>b, ChatPlainAppend DEF AppendSystem
<1>c. ASSUME NEW text \in ChatText, AppendToolRow(text) PROVE ChatInv'
  BY <1>c, ChatPlainAppend DEF AppendToolRow
<1>1. ASSUME NEW text \in ChatTexts, AppendUser(text) PROVE ChatInv'
  BY <1>1, ChatTextsAreTexts, ChatPlainAppend DEF AppendUser
<1>2. ASSUME NEW text \in ChatTexts, AppendSystem(text) PROVE ChatInv'
  BY <1>2, <1>b, ChatTextsAreTexts
<1>3. ASSUME NEW text \in ChatTexts, NEW said \in BOOLEAN, AppendAssistant(text, said)
      PROVE  ChatInv'
  BY <1>3, ChatTextsAreTexts, ChatAssistantKeeps
<1>4. ASSUME NEW text \in ChatTexts, NEW type, OnEvent(type, text) PROVE ChatInv'
  BY <1>4, <1>a, <1>b, <1>c, ChatTextsAreTexts DEF OnEvent
<1>5. ASSUME NEW text \in ChatTexts, NEW answer \in ChatTexts, RestoreHistory(text, answer)
      PROVE  ChatInv'
  BY <1>5, ChatTextsAreTexts, ChatRestoreKeeps
<1>6. ASSUME NEW text \in ChatChunks, NEW kind, StreamFn(kind, text) PROVE ChatInv'
  BY <1>6, <1>a, <1>b, ChatTextsAreTexts, ChatChunkKeeps, ChatFinishKeeps DEF StreamFn
<1>7. CASE SetVerbose
  BY <1>7 DEF SetVerbose, ChatInv, chatStreaming
<1>8. ASSUME WheelUp \/ WheelDown PROVE ChatInv'
  <2>1. /\ EnsureWrapped(chatWidth) /\ chatWidth' = chatWidth
        /\ UNCHANGED <<chatRows, chatSaid>> /\ chatWidth \in Nat
    BY <1>8 DEF WheelUp, WheelDown, ChatInv
  <2> QED BY <2>1, ChatFrameKeeps
<1>9. ASSUME NEW width \in ChatWidths, ChatRender(width) PROVE ChatInv'
  <2>1. /\ EnsureWrapped(width) /\ chatWidth' = width
        /\ UNCHANGED <<chatRows, chatSaid>> /\ width \in Nat
    BY <1>9, ChatAssumption DEF ChatRender
  <2> QED BY <2>1, ChatFrameKeeps
<1> QED
  BY <1>a, <1>1, <1>2, <1>3, <1>4, <1>5, <1>6, <1>7, <1>8, <1>9, ChatClearKeeps DEF ChatNext

\* With the invariant, a frame shows what came.
LEMMA ChatInvShows == ChatInv => ChatShowsWhatCame
<1> SUFFICES ASSUME ChatInv PROVE ChatShowsWhatCame
  OBVIOUS
<1>1. ChatRowsSaid \o chatStream = chatSaid
  BY DEF ChatInv, ChatSaidOf, ChatSaidTexts, ChatRowsSaid
<1>2. \A i \in DOMAIN chatWrapped :
        i \in DOMAIN chatRows /\ chatWrapped[i] = WrapByWidth(chatRows[i].text, chatCached)
  BY DEF ChatInv, ChatWrapsHold
<1>3. ASSUME WrapByWidth(chatStream, chatCached) = WrapByWidth(chatStream, 0)
      PROVE  chatFinal \o (IF chatOpen > 0 THEN <<chatOpen>> ELSE <<>>)
               = WrapByWidth(chatStream, chatCached)
  <2>1. chatStream \in ChatText /\ chatCached \in Nat
    BY DEF ChatInv
  <2>2. ChatFits(chatStream, chatCached)
    BY <1>3, <2>1, ChatWrapFits
  <2>3. ChatFolded(chatStream, chatFinal, chatOpen, chatTail)
    BY <2>2 DEF ChatInv, ChatStreamHolds
  <2> QED BY <2>1, <2>2, <2>3, ChatFoldedShows
<1> QED
  BY <1>1, <1>2, <1>3 DEF ChatShowsWhatCame

\* All that came is shown once, in order, and each row and the folded stream as one Wrap of
\* its text would: ChatShowsWhatCame, for any texts, chunks and widths.
THEOREM ChatShows == ChatSpec => []ChatShowsWhatCame
<1>1. ChatInit => ChatInv
  BY ChatInitInv
<1>2. ChatInv /\ [ChatNext]_chatVars => ChatInv'
  BY ChatStep
<1>3. ChatInv => ChatShowsWhatCame
  BY ChatInvShows
<1> QED
  BY <1>1, <1>2, <1>3, PTL DEF ChatSpec

-----------------------------------------------------------------------------
(* Log files: the newest are kept *)

LogRec == [id : Nat, size : LogSizes]
LogFile == [second : Nat, records : Seq(LogRec)]
LogRecords(f) == ToSet(f.records)

\* A finite set of records, and what it adds up to.
LogSet(A) == IsFiniteSet(A) /\ A \subseteq LogRec

\* The bytes of a set, counted one record after the other in any order.
LEMMA LogBytesTake ==
  ASSUME NEW T, LogSet(T)
  PROVE  /\ \A s \in SUBSET T : LogBytes(s) \in Nat
         /\ LogBytes({}) = 0
         /\ \A s \in SUBSET T : \A r \in s : LogBytes(s) = r.size + LogBytes(s \ {r})
<1>a. IsFiniteSet(T) /\ \A r \in T : r.size \in Nat
  BY LogAssumption DEF LogSet, LogRec
<1> DEFINE w == [r \in T |-> r.size]
<1>1. CanAddUp(w, T) /\ \A r \in T : w[r] = r.size
  BY <1>a DEF CanAddUp
<1> HIDE DEF w
<1>2. PICK f : AddsUp(f, w, T) /\ SumsAre(f, w, T)
  BY <1>1, SumsAddUp
<1>3. ASSUME NEW s \in SUBSET T PROVE LogBytes(s) = f[s]
  <2> DEFINE v == [r \in s |-> r.size]
  <2>1. DOMAIN v = s /\ \A r \in s : v[r] = w[r]
    BY <1>1
  <2>2. LogBytes(s) = SumFunction(v)
    BY DEF LogBytes
  <2> HIDE DEF v
  <2> QED BY <1>2, <2>1, <2>2 DEF SumsAre
<1>4. {} \in SUBSET T /\ f[{}] = 0
  BY <1>2 DEF AddsUp
<1>5. ASSUME NEW s \in SUBSET T, NEW r \in s
      PROVE  LogBytes(s) = r.size + LogBytes(s \ {r})
  <2>1. s \ {r} \in SUBSET T /\ f[s] = w[r] + f[s \ {r}]
    BY <1>2 DEF AddsUp
  <2> QED BY <1>1, <1>3, <2>1
<1>6. \A s \in SUBSET T : f[s] \in Nat
  BY <1>2 DEF AddsUp
<1> QED
  BY <1>3, <1>4, <1>5, <1>6

\* The bytes of a set of records are a number.
LEMMA LogBytesNat ==
  ASSUME NEW A, LogSet(A) PROVE LogBytes(A) \in Nat
BY LogBytesTake

\* No record has no bytes.
LEMMA LogBytesNone == LogBytes({}) = 0 /\ LogSet({})
<1>1. LogSet({})
  BY FS_EmptySet DEF LogSet
<1> QED BY <1>1, LogBytesTake

\* The sets of records, their parts and their unions.
LEMMA LogSubset ==
  ASSUME NEW A, NEW B, LogSet(B), A \subseteq B PROVE LogSet(A)
BY FS_Subset DEF LogSet

\* Two sets of records joined are one.
LEMMA LogUnion ==
  ASSUME NEW A, NEW B, LogSet(A), LogSet(B) PROVE LogSet(A \cup B)
BY FS_Union DEF LogSet

\* Two sets apart have the bytes of both.
LEMMA LogBytesBoth ==
  ASSUME NEW A, NEW B, LogSet(A), LogSet(B), A \cap B = {}
  PROVE  LogBytes(A \cup B) = LogBytes(A) + LogBytes(B)
<1> DEFINE P == {s \in SUBSET B : LogBytes(A \cup s) = LogBytes(A) + LogBytes(s)}
           U == A \cup B
<1>1. /\ LogSet(U) /\ A \in SUBSET U /\ B \in SUBSET U
      /\ \A s \in SUBSET B : A \cup s \in SUBSET U /\ s \in SUBSET U
  BY LogUnion
<1> HIDE DEF U
<1>2. LogBytes(A) \in Nat /\ LogBytes({}) = 0
  BY LogBytesNat, LogBytesNone
<1>3. {} \in P
  <2>1. A \cup {} = A
    OBVIOUS
  <2> QED BY <1>2, <2>1
<1>4. ASSUME NEW s \in SUBSET B, s # {}, \A x \in s : s \ {x} \in P PROVE s \in P
  <2>1. PICK r \in s : LogBytes(A \cup (s \ {r})) = LogBytes(A) + LogBytes(s \ {r})
    BY <1>4
  <2>2. (A \cup s) \ {r} = A \cup (s \ {r}) /\ r \in A \cup s
    OBVIOUS
  <2>3. LogBytes(A \cup s) = r.size + LogBytes((A \cup s) \ {r})
    BY <1>1, <2>2, LogBytesTake
  <2>4. LogBytes(s) = r.size + LogBytes(s \ {r})
    BY <1>1, LogBytesTake
  <2>5. LogBytes(s \ {r}) \in Nat /\ r.size \in Nat
    <3>1. s \ {r} \in SUBSET U /\ r \in LogRec
      BY <1>1 DEF LogSet
    <3> QED BY <1>1, <3>1, LogBytesTake, LogAssumption DEF LogRec
  <2>6. LogBytes((A \cup s) \ {r}) = LogBytes(A) + LogBytes(s \ {r})
    BY <2>1, <2>2
  <2>7. LogBytes(A \cup s) = LogBytes(A) + LogBytes(s)
    BY ONLY <1>2, <2>3, <2>4, <2>5, <2>6
  <2> QED BY <2>7
<1>5. B \in P
  <2>1. IsFiniteSet(B)
    BY DEF LogSet
  <2>2. B \in SUBSET B
    OBVIOUS
  <2> HIDE DEF P
  <2> QED BY <1>3, <1>4, <2>1, <2>2, FiniteSubsets
<1> QED
  BY <1>5

\* More records have no fewer bytes.
LEMMA LogBytesGrow ==
  ASSUME NEW A, NEW B, LogSet(B), A \subseteq B
  PROVE  LogBytes(A) <= LogBytes(B) /\ LogBytes(A) \in Nat /\ LogBytes(B) \in Nat
<1> DEFINE C == B \ A
<1>1. LogSet(A) /\ LogSet(C) /\ A \cap C = {} /\ A \cup C = B
  BY LogSubset
<1> HIDE DEF C
<1>2. LogBytes(A \cup C) = LogBytes(A) + LogBytes(C)
  BY <1>1, LogBytesBoth
<1> QED
  BY <1>1, <1>2, LogBytesNat

\* No record is longer than the longest.
LEMMA LogLongest ==
  /\ Max(LogSizes) \in Nat
  /\ \A size \in LogSizes : size <= Max(LogSizes)
<1> DEFINE P == {s \in SUBSET LogSizes : \E b \in Nat : s \subseteq 0..b}
<1>1. {} \in P
  OBVIOUS
<1>2. ASSUME NEW s \in SUBSET LogSizes, s # {}, \A x \in s : s \ {x} \in P PROVE s \in P
  <2>1. PICK x \in s, b \in Nat : s \ {x} \subseteq 0..b
    BY <1>2
  <2>2. x \in Nat
    BY LogAssumption
  <2>3. b + x \in Nat /\ x \in 0..b + x /\ \A y \in 0..b : y \in 0..b + x
    BY <2>2
  <2>4. s \subseteq 0..b + x
    BY <2>1, <2>3
  <2> QED BY <2>3, <2>4
<1>3. LogSizes \in P
  <2>1. LogSizes \in SUBSET LogSizes
    OBVIOUS
  <2> HIDE DEF P
  <2> QED BY <1>1, <1>2, <2>1, FiniteSubsets, LogAssumption
<1>4. PICK b \in Nat : LogSizes \subseteq 0..b
  BY <1>3
<1>5. Max(LogSizes) \in LogSizes /\ \A x \in LogSizes : x <= Max(LogSizes)
  BY <1>4, MaxOfNaturals, LogAssumption
<1> QED
  BY <1>5, LogAssumption

\* The records of a list.
LEMMA LogSeqSet ==
  ASSUME NEW s \in Seq(LogRec)
  PROVE  /\ LogSet(ToSet(s)) /\ Len(s) \in Nat /\ \A i \in 1..Len(s) : s[i] \in LogRec
         /\ \A r : r \in ToSet(s) <=> \E i \in 1..Len(s) : r = s[i]
<1> DEFINE n == Len(s)
           P == {k \in 0..n : IsFiniteSet({s[i] : i \in 1..k})}
<1>1. n \in Nat /\ DOMAIN s = 1..n /\ \A i \in 1..n : s[i] \in LogRec
  OBVIOUS
<1> HIDE DEF n
<1>2. 0 \in P
  <2>1. {s[i] : i \in 1..0} = {} /\ 0 \in 0..n
    BY <1>1
  <2> QED BY <2>1, FS_EmptySet
<1>3. ASSUME NEW k \in 0..n - 1, k \in P PROVE k + 1 \in P
  <2>1. k + 1 \in 0..n /\ \A i : i \in 1..k + 1 <=> i \in 1..k \/ i = k + 1
    BY <1>1
  <2>2. {s[i] : i \in 1..k + 1} = {s[i] : i \in 1..k} \cup {s[k + 1]}
    BY <2>1
  <2>3. IsFiniteSet({s[i] : i \in 1..k} \cup {s[k + 1]})
    BY <1>3, FS_AddElement
  <2> QED BY <2>1, <2>2, <2>3
<1>4. n \in P
  <2>1. n \in 0..n
    BY <1>1
  <2> HIDE DEF P
  <2> QED BY <1>1, <1>2, <1>3, <2>1, NaturalsUpTo
<1>5. ToSet(s) = {s[i] : i \in 1..n}
  BY <1>1 DEF ToSet
<1> QED
  BY <1>1, <1>4, <1>5 DEF LogSet, n

\* A record is added to a list.
LEMMA LogSetAppend ==
  ASSUME NEW s \in Seq(LogRec), NEW r \in LogRec
  PROVE  ToSet(Append(s, r)) = ToSet(s) \cup {r} /\ Append(s, r) \in Seq(LogRec)
<1> DEFINE t == Append(s, r)
<1>1. /\ t \in Seq(LogRec) /\ Len(t) = Len(s) + 1 /\ Len(s) \in Nat
      /\ \A i \in 1..Len(s) : t[i] = s[i]
      /\ t[Len(s) + 1] = r
  BY AppendProperties
<1> HIDE DEF t
<1>2. \A x : x \in ToSet(t) <=> x \in ToSet(s) \/ x = r
  <2>1. \A x : x \in ToSet(t) <=> \E i \in 1..Len(t) : x = t[i]
    BY <1>1, LogSeqSet
  <2>2. \A x : x \in ToSet(s) <=> \E i \in 1..Len(s) : x = s[i]
    BY LogSeqSet
  <2>3. \A i : i \in 1..Len(t) <=> i \in 1..Len(s) \/ i = Len(s) + 1
    BY <1>1
  <2> QED BY <1>1, <2>1, <2>2, <2>3
<1> QED
  BY <1>1, <1>2 DEF t

\* Two lists joined have the records of both.
LEMMA LogSetJoin ==
  ASSUME NEW a \in Seq(LogRec), NEW b \in Seq(LogRec)
  PROVE  ToSet(a \o b) = ToSet(a) \cup ToSet(b) /\ a \o b \in Seq(LogRec)
<1> DEFINE t == a \o b
<1>1. /\ t \in Seq(LogRec) /\ Len(t) = Len(a) + Len(b) /\ Len(a) \in Nat /\ Len(b) \in Nat
      /\ \A i \in 1..Len(a) + Len(b) : t[i] = IF i <= Len(a) THEN a[i] ELSE b[i - Len(a)]
  BY ConcatProperties
<1> HIDE DEF t
<1>2. \A x : x \in ToSet(t) <=> x \in ToSet(a) \/ x \in ToSet(b)
  <2>1. \A x : x \in ToSet(t) <=> \E i \in 1..Len(t) : x = t[i]
    BY <1>1, LogSeqSet
  <2>2. /\ \A x : x \in ToSet(a) <=> \E i \in 1..Len(a) : x = a[i]
        /\ \A x : x \in ToSet(b) <=> \E i \in 1..Len(b) : x = b[i]
    BY LogSeqSet
  <2>3. ASSUME NEW i \in 1..Len(a) PROVE i \in 1..Len(t) /\ t[i] = a[i]
    BY <1>1
  <2>4. ASSUME NEW i \in 1..Len(b)
        PROVE  Len(a) + i \in 1..Len(t) /\ t[Len(a) + i] = b[i]
    <3>1. PICK j : j = Len(a) + i
      OBVIOUS
    <3>2. j \in 1..Len(a) + Len(b) /\ ~(j <= Len(a)) /\ j - Len(a) = i
      BY <1>1, <3>1
    <3>3. t[j] = b[i] /\ j \in 1..Len(t)
      BY <1>1, <3>2
    <3> QED BY <3>1, <3>3
  <2>5. ASSUME NEW i \in 1..Len(t)
        PROVE  \/ i \in 1..Len(a) /\ t[i] = a[i]
               \/ i - Len(a) \in 1..Len(b) /\ t[i] = b[i - Len(a)]
    BY <1>1
  <2>6. \A x : x \in ToSet(a) => x \in ToSet(t)
    BY <2>1, <2>2, <2>3
  <2>7. \A x : x \in ToSet(b) => x \in ToSet(t)
    BY <2>1, <2>2, <2>4
  <2>8. \A x : x \in ToSet(t) => x \in ToSet(a) \/ x \in ToSet(b)
    BY <2>1, <2>2, <2>5
  <2> QED BY <2>6, <2>7, <2>8
<1> QED
  BY <1>1, <1>2 DEF t

LogUp(s) == \A i, j \in 1..Len(s) : i < j => s[i].id < s[j].id
LogBelow(A, B) == \A a \in A, b \in B : a.id < b.id

\* Of two sets, one before the other, no record is in both.
LEMMA LogApart ==
  ASSUME NEW A, NEW B, LogSet(A), LogSet(B), LogBelow(A, B)
  PROVE  A \cap B = {}
<1>1. \A r \in A : r.id \in Nat
  BY DEF LogSet, LogRec
<1> SUFFICES ASSUME NEW r \in A, r \in B PROVE FALSE
  OBVIOUS
<1>2. r.id < r.id /\ r.id \in Nat
  BY <1>1 DEF LogBelow
<1> QED
  BY <1>2

\* Lists joined are in order when they are, one before the other.
LEMMA LogUpJoin ==
  ASSUME NEW a \in Seq(LogRec), NEW b \in Seq(LogRec),
         LogUp(a), LogUp(b), LogBelow(ToSet(a), ToSet(b))
  PROVE  LogUp(a \o b)
<1> DEFINE t == a \o b
<1>1. /\ Len(t) = Len(a) + Len(b) /\ Len(a) \in Nat /\ Len(b) \in Nat
      /\ \A i \in 1..Len(a) + Len(b) : t[i] = IF i <= Len(a) THEN a[i] ELSE b[i - Len(a)]
  BY ConcatProperties
<1> HIDE DEF t
<1>2. SUFFICES ASSUME NEW i \in 1..Len(t), NEW j \in 1..Len(t), i < j
               PROVE  t[i].id < t[j].id
  BY DEF LogUp, t
<1>3. CASE j <= Len(a)
  <2>1. i \in 1..Len(a) /\ j \in 1..Len(a) /\ t[i] = a[i] /\ t[j] = a[j]
    BY <1>1, <1>2, <1>3
  <2> QED BY <1>2, <2>1 DEF LogUp
<1>4. CASE i > Len(a)
  <2>1. /\ i - Len(a) \in 1..Len(b) /\ j - Len(a) \in 1..Len(b) /\ i - Len(a) < j - Len(a)
        /\ t[i] = b[i - Len(a)] /\ t[j] = b[j - Len(a)]
    BY <1>1, <1>2, <1>4
  <2> QED BY <2>1 DEF LogUp
<1>5. CASE i <= Len(a) /\ j > Len(a)
  <2>1. /\ i \in 1..Len(a) /\ j - Len(a) \in 1..Len(b)
        /\ t[i] = a[i] /\ t[j] = b[j - Len(a)]
    BY <1>1, <1>5
  <2>2. a[i] \in ToSet(a) /\ b[j - Len(a)] \in ToSet(b)
    BY <2>1, LogSeqSet
  <2> QED BY <2>1, <2>2 DEF LogBelow
<1> QED
  BY <1>1, <1>3, <1>4, <1>5

\* A list in order is so in its parts, and they follow one another.
LEMMA LogUpParts ==
  ASSUME NEW a \in Seq(LogRec), NEW b \in Seq(LogRec), LogUp(a \o b)
  PROVE  LogUp(a) /\ LogBelow(ToSet(a), ToSet(b))
<1> DEFINE t == a \o b
<1>1. /\ Len(t) = Len(a) + Len(b) /\ Len(a) \in Nat /\ Len(b) \in Nat
      /\ \A i \in 1..Len(a) + Len(b) : t[i] = IF i <= Len(a) THEN a[i] ELSE b[i - Len(a)]
  BY ConcatProperties
<1>2. \A i, j \in 1..Len(t) : i < j => t[i].id < t[j].id
  BY DEF LogUp
<1> HIDE DEF t
<1>3. \A i \in 1..Len(a) : i \in 1..Len(t) /\ t[i] = a[i]
  BY <1>1
<1>4. LogUp(a)
  BY <1>2, <1>3 DEF LogUp
<1>5. ASSUME NEW x \in ToSet(a), NEW y \in ToSet(b) PROVE x.id < y.id
  <2>1. PICK i \in 1..Len(a) : x = a[i]
    BY LogSeqSet
  <2>2. PICK j \in 1..Len(b) : y = b[j]
    BY LogSeqSet
  <2>3. Len(a) + j \in 1..Len(t) /\ t[Len(a) + j] = b[j] /\ i < Len(a) + j
    BY <1>1
  <2> QED BY <1>2, <1>3, <2>1, <2>2, <2>3
<1> QED
  BY <1>4, <1>5 DEF LogBelow

\* The contents of sealed files.
LEMMA LogContentsIs ==
  ASSUME NEW files \in Seq(LogFile)
  PROVE  /\ Len(files) \in Nat
         /\ \A i \in 1..Len(files) : /\ files[i] \in LogFile /\ LogSet(LogRecords(files[i]))
                                     /\ files[i].records \in Seq(LogRec)
         /\ \A r : r \in LogContents(files) <=>
                     \E i \in 1..Len(files) : r \in LogRecords(files[i])
<1>1. /\ Len(files) \in Nat /\ DOMAIN files = 1..Len(files)
      /\ \A i \in 1..Len(files) : files[i] \in LogFile
  OBVIOUS
<1>2. \A i \in 1..Len(files) : files[i].records \in Seq(LogRec)
  BY <1>1 DEF LogFile
<1>3. \A i \in 1..Len(files) : LogSet(LogRecords(files[i]))
  BY <1>2, LogSeqSet DEF LogRecords
<1>4. \A f : f \in ToSet(files) <=> \E i \in 1..Len(files) : f = files[i]
  BY <1>1 DEF ToSet
<1>5. LogContents(files) = UNION {LogRecords(f) : f \in ToSet(files)}
  BY DEF LogContents, LogRecords
<1> QED
  BY <1>1, <1>2, <1>3, <1>4, <1>5

\* A file is added to the sealed ones.
LEMMA LogContentsAppend ==
  ASSUME NEW files \in Seq(LogFile), NEW f \in LogFile
  PROVE  /\ Append(files, f) \in Seq(LogFile)
         /\ LogContents(Append(files, f)) = LogContents(files) \cup LogRecords(f)
<1> DEFINE t == Append(files, f)
<1>1. /\ t \in Seq(LogFile) /\ Len(t) = Len(files) + 1 /\ Len(files) \in Nat
      /\ \A i \in 1..Len(files) : t[i] = files[i]
      /\ t[Len(files) + 1] = f
  BY AppendProperties
<1> HIDE DEF t
<1>2. \A i : i \in 1..Len(t) <=> i \in 1..Len(files) \/ i = Len(files) + 1
  BY <1>1
<1>3. \A r : r \in LogContents(t) <=> \E i \in 1..Len(t) : r \in LogRecords(t[i])
  BY <1>1, LogContentsIs
<1>4. \A r : r \in LogContents(files) <=> \E i \in 1..Len(files) : r \in LogRecords(files[i])
  BY LogContentsIs
<1>5. \A r : r \in LogContents(t) <=> r \in LogContents(files) \/ r \in LogRecords(f)
  BY <1>1, <1>2, <1>3, <1>4
<1> QED
  BY <1>1, <1>5 DEF t

\* The records taken, numbered from 1, and those from number p on.
LogTook(T) == T \in Seq(LogRec) /\ \A i \in 1..Len(T) : T[i].id = i
LogSinceOf(T, p) == {T[j] : j \in p..Len(T)}

LogFilesInOrder(files) ==
  /\ \A i \in 1..Len(files) : LogUp(files[i].records)
  /\ \A i, j \in 1..Len(files) : i < j => LogBelow(LogRecords(files[i]), LogRecords(files[j]))
LogOrdered(files, tail) ==
  LogFilesInOrder(files) /\ LogUp(tail) /\ LogBelow(LogContents(files), ToSet(tail))
LogFit(files, most) == \A i \in 1..Len(files) : LogBytes(LogRecords(files[i])) <= most
\* What is held are the records from some point on but for the lost ones; what is before that
\* point was deleted when it was too old.
LogKeeps(T, lost, held, most) ==
  \E p \in 1..Len(T) + 1 :
    /\ held = LogSinceOf(T, p) \ lost
    /\ p > 1 => LogBytes(LogSinceOf(T, p)) > LogMaxTotal - most

LogCore(T, lost, files, tail, most) ==
  /\ LogTook(T) /\ lost \subseteq ToSet(T)
  /\ files \in Seq(LogFile) /\ tail \in Seq(LogRec) /\ most \in Nat
  /\ LogOrdered(files, tail) /\ LogFit(files, most)
  /\ LogKeeps(T, lost, LogContents(files) \cup ToSet(tail), most)

\* What was taken since a number, by the numbers of the records.
LEMMA LogSinceIs ==
  ASSUME NEW T, LogTook(T)
  PROVE  /\ Len(T) \in Nat /\ LogSet(ToSet(T))
         /\ \A r \in ToSet(T) : r.id \in 1..Len(T) /\ T[r.id] = r
         /\ \A p \in 1..Len(T) + 1 :
              \A r : r \in LogSinceOf(T, p) <=> r \in ToSet(T) /\ r.id >= p
         /\ \A p \in 1..Len(T) + 1 : LogSet(LogSinceOf(T, p))
<1>1. /\ Len(T) \in Nat /\ LogSet(ToSet(T)) /\ \A i \in 1..Len(T) : T[i].id = i
      /\ \A r : r \in ToSet(T) <=> \E i \in 1..Len(T) : r = T[i]
  BY LogSeqSet DEF LogTook
<1>2. \A r \in ToSet(T) : r.id \in 1..Len(T) /\ T[r.id] = r
  BY <1>1
<1>3. ASSUME NEW p \in 1..Len(T) + 1, NEW r
      PROVE  r \in LogSinceOf(T, p) <=> r \in ToSet(T) /\ r.id >= p
  <2>1. ASSUME r \in LogSinceOf(T, p) PROVE r \in ToSet(T) /\ r.id >= p
    <3>1. PICK j \in p..Len(T) : r = T[j]
      BY <2>1 DEF LogSinceOf
    <3>2. j \in 1..Len(T)
      BY <1>1
    <3> QED BY <1>1, <3>1, <3>2
  <2>2. ASSUME r \in ToSet(T), r.id >= p PROVE r \in LogSinceOf(T, p)
    <3>1. r.id \in p..Len(T) /\ T[r.id] = r
      BY <1>1, <1>2, <2>2
    <3>2. PICK j \in p..Len(T) : T[j] = r
      BY <3>1
    <3> QED BY <3>2 DEF LogSinceOf
  <2> QED BY <2>1, <2>2
<1>4. ASSUME NEW p \in 1..Len(T) + 1 PROVE LogSet(LogSinceOf(T, p))
  <2>1. LogSinceOf(T, p) \subseteq ToSet(T)
    BY <1>3
  <2> QED BY <1>1, <2>1, LogSubset
<1> QED
  BY <1>1, <1>2, <1>3, <1>4

\* What is held has been taken.
LEMMA LogHeld ==
  ASSUME NEW T, NEW lost, NEW files, NEW tail, NEW most, LogCore(T, lost, files, tail, most)
  PROVE  /\ LogContents(files) \cup ToSet(tail) \subseteq ToSet(T)
         /\ LogSet(LogContents(files)) /\ LogSet(ToSet(tail))
         /\ LogContents(files) \cap ToSet(tail) = {}
<1>1. LogTook(T) /\ LogBelow(LogContents(files), ToSet(tail))
      /\ LogKeeps(T, lost, LogContents(files) \cup ToSet(tail), most)
  BY DEF LogCore, LogOrdered
<1>2. LogContents(files) \cup ToSet(tail) \subseteq ToSet(T)
  <2>1. PICK p \in 1..Len(T) + 1 :
               LogContents(files) \cup ToSet(tail) = LogSinceOf(T, p) \ lost
    BY <1>1 DEF LogKeeps
  <2>2. LogSinceOf(T, p) \subseteq ToSet(T)
    BY <1>1, LogSinceIs
  <2> QED BY <2>1, <2>2
<1>3. LogSet(ToSet(T))
  BY <1>1, LogSinceIs
<1>4. LogSet(LogContents(files)) /\ LogSet(ToSet(tail))
  <2>1. LogContents(files) \subseteq ToSet(T) /\ ToSet(tail) \subseteq ToSet(T)
    BY <1>2
  <2> QED BY <1>3, <2>1, LogSubset
<1> QED
  BY <1>1, <1>2, <1>4, LogApart

\* A list stays in order when a later record is added.
LEMMA LogUpAppend ==
  ASSUME NEW s \in Seq(LogRec), NEW r \in LogRec, LogUp(s), \A x \in ToSet(s) : x.id < r.id
  PROVE  LogUp(Append(s, r))
<1> DEFINE t == Append(s, r)
<1>1. /\ Len(t) = Len(s) + 1 /\ Len(s) \in Nat
      /\ \A i \in 1..Len(s) : t[i] = s[i] /\ s[i] \in ToSet(s)
      /\ t[Len(s) + 1] = r
  BY AppendProperties, LogSeqSet
<1> HIDE DEF t
<1>2. SUFFICES ASSUME NEW i \in 1..Len(t), NEW j \in 1..Len(t), i < j
               PROVE  t[i].id < t[j].id
  BY DEF LogUp, t
<1>3. i \in 1..Len(s)
  BY <1>1, <1>2
<1>4. CASE j \in 1..Len(s)
  BY <1>1, <1>2, <1>3, <1>4 DEF LogUp
<1>5. CASE j = Len(s) + 1
  BY <1>1, <1>3, <1>5
<1> QED
  BY <1>1, <1>4, <1>5

\* A record is taken.
LEMMA LogCoreTakes ==
  ASSUME NEW T, NEW lost, NEW files, NEW tail, NEW most, LogCore(T, lost, files, tail, most),
         NEW r \in LogRec, r.id = Len(T) + 1
  PROVE  LogCore(Append(T, r), lost, files, Append(tail, r), most)
<1> DEFINE U == Append(T, r)
<1>1. /\ LogTook(T) /\ lost \subseteq ToSet(T) /\ files \in Seq(LogFile) /\ tail \in Seq(LogRec)
      /\ most \in Nat /\ LogFilesInOrder(files) /\ LogUp(tail) /\ LogFit(files, most)
      /\ LogBelow(LogContents(files), ToSet(tail))
      /\ LogKeeps(T, lost, LogContents(files) \cup ToSet(tail), most)
  BY DEF LogCore, LogOrdered
<1>2. /\ T \in Seq(LogRec) /\ Len(T) \in Nat /\ \A i \in 1..Len(T) : T[i].id = i
      /\ \A x \in ToSet(T) : x.id \in 1..Len(T)
  BY <1>1, LogSinceIs DEF LogTook
<1>3. /\ U \in Seq(LogRec) /\ Len(U) = Len(T) + 1 /\ \A i \in 1..Len(T) : U[i] = T[i]
      /\ U[Len(T) + 1] = r /\ ToSet(U) = ToSet(T) \cup {r}
  BY <1>2, AppendProperties, LogSetAppend
<1> HIDE DEF U
<1>4. LogTook(U)
  BY <1>2, <1>3 DEF LogTook
<1>5. \A x \in ToSet(T) : x.id < r.id
  BY <1>2
<1>6. LogContents(files) \subseteq ToSet(T) /\ ToSet(tail) \subseteq ToSet(T)
  BY LogHeld
<1>7. /\ ToSet(Append(tail, r)) = ToSet(tail) \cup {r} /\ Append(tail, r) \in Seq(LogRec)
      /\ LogUp(Append(tail, r))
  BY <1>1, <1>5, <1>6, LogSetAppend, LogUpAppend
<1>8. LogBelow(LogContents(files), ToSet(tail) \cup {r})
  BY <1>1, <1>5, <1>6 DEF LogBelow
<1>9. LogKeeps(U, lost, LogContents(files) \cup (ToSet(tail) \cup {r}), most)
  <2>1. PICK p \in 1..Len(T) + 1 :
               /\ LogContents(files) \cup ToSet(tail) = LogSinceOf(T, p) \ lost
               /\ p > 1 => LogBytes(LogSinceOf(T, p)) > LogMaxTotal - most
    BY <1>1 DEF LogKeeps
  <2>2. p \in 1..Len(U) + 1 /\ r.id >= p
    BY <1>2, <1>3
  <2>3. \A x : x \in LogSinceOf(U, p) <=> x \in LogSinceOf(T, p) \/ x = r
    <3>1. \A x : x \in LogSinceOf(U, p) <=> x \in ToSet(U) /\ x.id >= p
      BY <1>4, <2>2, LogSinceIs
    <3>2. \A x : x \in LogSinceOf(T, p) <=> x \in ToSet(T) /\ x.id >= p
      BY <1>1, LogSinceIs
    <3> QED BY <1>3, <2>2, <3>1, <3>2
  <2>4. r \notin lost
    BY <1>1, <1>5
  <2>5. LogContents(files) \cup (ToSet(tail) \cup {r}) = LogSinceOf(U, p) \ lost
    BY <2>1, <2>3, <2>4
  <2>6. p > 1 => LogBytes(LogSinceOf(U, p)) > LogMaxTotal - most
    <3>1. LogSet(LogSinceOf(U, p)) /\ LogSinceOf(T, p) \subseteq LogSinceOf(U, p)
      BY <1>4, <2>2, <2>3, LogSinceIs
    <3>2. /\ LogBytes(LogSinceOf(T, p)) <= LogBytes(LogSinceOf(U, p))
          /\ LogBytes(LogSinceOf(T, p)) \in Nat /\ LogBytes(LogSinceOf(U, p)) \in Nat
      BY <3>1, LogBytesGrow
    <3>3. LogMaxTotal \in Nat /\ most \in Nat
      BY <1>1, LogAssumption
    <3> QED BY <2>1, <3>2, <3>3
  <2> QED BY <2>2, <2>5, <2>6 DEF LogKeeps
<1>10. lost \subseteq ToSet(U)
  BY <1>1, <1>3
<1>11. LogOrdered(files, Append(tail, r))
  BY <1>1, <1>7, <1>8 DEF LogOrdered
<1>12. LogCore(U, lost, files, Append(tail, r), most)
  BY <1>1, <1>4, <1>7, <1>9, <1>10, <1>11 DEF LogCore
<1> QED
  BY <1>12 DEF U

\* A larger bound.
LEMMA LogCoreMore ==
  ASSUME NEW T, NEW lost, NEW files, NEW tail, NEW most, LogCore(T, lost, files, tail, most),
         NEW more \in Nat, most <= more
  PROVE  LogCore(T, lost, files, tail, more)
<1>1. most \in Nat /\ LogMaxTotal \in Nat /\ files \in Seq(LogFile) /\ LogTook(T)
  BY LogAssumption DEF LogCore
<1>2. LogFit(files, more)
  <2>1. ASSUME NEW i \in 1..Len(files) PROVE LogBytes(LogRecords(files[i])) <= more
    <3>1. LogBytes(LogRecords(files[i])) <= most
      BY DEF LogCore, LogFit
    <3>2. LogBytes(LogRecords(files[i])) \in Nat
      BY <1>1, LogContentsIs, LogBytesNat
    <3> QED BY <1>1, <3>1, <3>2
  <2> QED BY <2>1 DEF LogFit
<1>3. LogKeeps(T, lost, LogContents(files) \cup ToSet(tail), more)
  <2>1. PICK p \in 1..Len(T) + 1 :
               /\ LogContents(files) \cup ToSet(tail) = LogSinceOf(T, p) \ lost
               /\ p > 1 => LogBytes(LogSinceOf(T, p)) > LogMaxTotal - most
    BY DEF LogCore, LogKeeps
  <2>2. LogBytes(LogSinceOf(T, p)) \in Nat
    BY <1>1, LogSinceIs, LogBytesNat
  <2>3. p > 1 => LogBytes(LogSinceOf(T, p)) > LogMaxTotal - more
    BY <1>1, <2>1, <2>2
  <2> QED BY <2>1, <2>3 DEF LogKeeps
<1> QED
  BY <1>2, <1>3 DEF LogCore

\* The end of the tail is lost.
LEMMA LogCoreLoses ==
  ASSUME NEW T, NEW lost, NEW files, NEW most, NEW a \in Seq(LogRec), NEW b \in Seq(LogRec),
         LogCore(T, lost, files, a \o b, most)
  PROVE  LogCore(T, lost \cup ToSet(b), files, a, most)
<1>1. /\ LogTook(T) /\ lost \subseteq ToSet(T) /\ files \in Seq(LogFile) /\ most \in Nat
      /\ LogFilesInOrder(files) /\ LogUp(a \o b) /\ LogFit(files, most)
      /\ LogBelow(LogContents(files), ToSet(a \o b))
      /\ LogKeeps(T, lost, LogContents(files) \cup ToSet(a \o b), most)
  BY DEF LogCore, LogOrdered
<1>2. ToSet(a \o b) = ToSet(a) \cup ToSet(b)
  BY LogSetJoin
<1>3. LogUp(a) /\ LogBelow(ToSet(a), ToSet(b))
  BY <1>1, LogUpParts
<1>4. LogContents(files) \cup ToSet(a \o b) \subseteq ToSet(T)
      /\ LogContents(files) \cap ToSet(a \o b) = {}
  BY LogHeld
<1>5. ToSet(a) \cap ToSet(b) = {}
  BY <1>3, LogApart, LogSeqSet
<1>6. LogBelow(LogContents(files), ToSet(a))
  BY <1>1, <1>2 DEF LogBelow
<1>7. LogKeeps(T, lost \cup ToSet(b), LogContents(files) \cup ToSet(a), most)
  <2>1. PICK p \in 1..Len(T) + 1 :
               /\ LogContents(files) \cup ToSet(a \o b) = LogSinceOf(T, p) \ lost
               /\ p > 1 => LogBytes(LogSinceOf(T, p)) > LogMaxTotal - most
    BY <1>1 DEF LogKeeps
  <2>2. LogContents(files) \cup ToSet(a) = LogSinceOf(T, p) \ (lost \cup ToSet(b))
    BY <1>2, <1>4, <1>5, <2>1
  <2> QED BY <2>1, <2>2 DEF LogKeeps
<1>8. lost \cup ToSet(b) \subseteq ToSet(T)
  BY <1>1, <1>2, <1>4
<1> QED
  BY <1>1, <1>3, <1>6, <1>7, <1>8 DEF LogCore, LogOrdered

\* The empty list.
LEMMA LogNothing == ToSet(<<>>) = {} /\ <<>> \in Seq(LogRec) /\ LogUp(<<>>)
<1>1. PICK e : e = <<>>
  OBVIOUS
<1>2. e \in Seq(LogRec) /\ Len(e) = 0
  BY <1>1
<1>3. ToSet(e) = {}
  <2>1. DOMAIN e = {}
    BY <1>1
  <2> QED BY <2>1 DEF ToSet
<1>4. LogUp(e)
  BY <1>2 DEF LogUp
<1> QED
  BY <1>1, <1>2, <1>3, <1>4

\* The tail becomes the last sealed file.
LEMMA LogCoreSeals ==
  ASSUME NEW T, NEW lost, NEW files, NEW tail, NEW most, LogCore(T, lost, files, tail, most),
         LogBytes(ToSet(tail)) <= most, NEW f \in LogFile, f.records = tail
  PROVE  LogCore(T, lost, Append(files, f), <<>>, most)
<1> DEFINE t == Append(files, f)
<1>1. /\ LogTook(T) /\ lost \subseteq ToSet(T) /\ files \in Seq(LogFile) /\ most \in Nat
      /\ LogFilesInOrder(files) /\ LogUp(tail) /\ LogFit(files, most)
      /\ LogBelow(LogContents(files), ToSet(tail))
      /\ LogKeeps(T, lost, LogContents(files) \cup ToSet(tail), most)
  BY DEF LogCore, LogOrdered
<1>2. LogRecords(f) = ToSet(tail)
  BY DEF LogRecords
<1>3. /\ t \in Seq(LogFile) /\ Len(t) = Len(files) + 1 /\ Len(files) \in Nat
      /\ \A i \in 1..Len(files) : t[i] = files[i]
      /\ t[Len(files) + 1] = f
      /\ LogContents(t) = LogContents(files) \cup ToSet(tail)
  BY <1>1, <1>2, AppendProperties, LogContentsAppend
<1> HIDE DEF t
<1>4. \A i : i \in 1..Len(t) <=> i \in 1..Len(files) \/ i = Len(files) + 1
  BY <1>3
<1>5. \A i \in 1..Len(t) : LogUp(t[i].records)
  BY <1>1, <1>3, <1>4 DEF LogFilesInOrder
<1>6. ASSUME NEW i \in 1..Len(t), NEW j \in 1..Len(t), i < j
      PROVE  LogBelow(LogRecords(t[i]), LogRecords(t[j]))
  <2>1. i \in 1..Len(files)
    BY <1>3, <1>6
  <2>2. CASE j \in 1..Len(files)
    BY <1>1, <1>3, <1>6, <2>1, <2>2 DEF LogFilesInOrder
  <2>3. CASE j = Len(files) + 1
    <3>1. LogRecords(files[i]) \subseteq LogContents(files)
      BY <1>1, <2>1, LogContentsIs
    <3>2. t[i] = files[i] /\ LogRecords(t[j]) = ToSet(tail)
      BY <1>2, <1>3, <2>1, <2>3
    <3> QED BY <1>1, <3>1, <3>2 DEF LogBelow
  <2> QED BY <1>4, <2>2, <2>3
<1>7. \A i \in 1..Len(t) : LogBytes(LogRecords(t[i])) <= most
  BY <1>1, <1>2, <1>3, <1>4 DEF LogFit
<1>8. LogFilesInOrder(t) /\ LogFit(t, most)
  BY <1>5, <1>6, <1>7 DEF LogFilesInOrder, LogFit
<1>9. ToSet(<<>>) = {} /\ <<>> \in Seq(LogRec) /\ LogUp(<<>>)
  BY LogNothing
<1>10. PICK e : e = <<>>
  OBVIOUS
<1>11. LogOrdered(t, e)
  <2>1. ToSet(e) = {} /\ LogUp(e)
    BY <1>9, <1>10
  <2> QED BY <1>8, <2>1 DEF LogOrdered, LogBelow
<1>12. LogContents(t) \cup ToSet(e) = LogContents(files) \cup ToSet(tail)
  BY <1>3, <1>9, <1>10
<1>13. LogKeeps(T, lost, LogContents(t) \cup ToSet(e), most)
  BY <1>1, <1>12
<1>14. e \in Seq(LogRec)
  BY <1>9, <1>10
<1>15. LogCore(T, lost, t, e, most)
  BY <1>1, <1>3, <1>8, <1>11, <1>13, <1>14 DEF LogCore
<1> QED
  BY <1>10, <1>15 DEF t

\* The files from number j to number k.
LogPart(files, t, j, k) ==
  /\ j \in 1..Len(files) + 1 /\ k \in j - 1..Len(files)
  /\ t \in Seq(LogFile) /\ Len(t) = k - j + 1
  /\ \A i \in 1..Len(t) : t[i] = files[i + j - 1]

\* A stretch of the sealed files is in order and holds what they hold.
LEMMA LogPartIs ==
  ASSUME NEW files \in Seq(LogFile), NEW t, NEW j, NEW k, LogPart(files, t, j, k),
         NEW most, LogFilesInOrder(files), LogFit(files, most)
  PROVE  /\ LogFilesInOrder(t) /\ LogFit(t, most)
         /\ \A r : r \in LogContents(t) <=> \E i \in j..k : r \in LogRecords(files[i])
<1>1. /\ Len(files) \in Nat /\ j \in 1..Len(files) + 1 /\ k \in j - 1..Len(files)
      /\ t \in Seq(LogFile) /\ Len(t) = k - j + 1
      /\ \A i \in 1..Len(t) : t[i] = files[i + j - 1]
  BY LogContentsIs DEF LogPart
<1> DEFINE at == [i \in 1..Len(t) |-> i + j - 1]
<1>2. /\ \A i \in 1..Len(t) : at[i] \in 1..Len(files) /\ at[i] \in j..k /\ t[i] = files[at[i]]
      /\ \A i, m \in 1..Len(t) : i < m => at[i] < at[m]
      /\ \A i \in j..k : i - j + 1 \in 1..Len(t) /\ at[i - j + 1] = i
  <2>1. /\ Len(t) \in Nat /\ Len(t) = k - j + 1 /\ j \in Nat /\ k \in Int
        /\ j >= 1 /\ k <= Len(files)
    BY <1>1
  <2>2. ASSUME NEW i \in 1..Len(t)
        PROVE  i + j - 1 \in 1..Len(files) /\ i + j - 1 \in j..k
    BY ONLY <2>1, Len(files) \in Nat, <1>1
  <2>3. ASSUME NEW i \in j..k PROVE i - j + 1 \in 1..Len(t) /\ (i - j + 1) + j - 1 = i
    BY ONLY <2>1
  <2>4. \A i \in 1..Len(t) : at[i] = i + j - 1
    OBVIOUS
  <2> HIDE DEF at
  <2>5. \A i \in 1..Len(t) : at[i] \in 1..Len(files) /\ at[i] \in j..k /\ t[i] = files[at[i]]
    BY <1>1, <2>2, <2>4
  <2>6. \A i, m \in 1..Len(t) : i < m => at[i] < at[m]
    BY <2>1, <2>4
  <2>7. \A i \in j..k : i - j + 1 \in 1..Len(t) /\ at[i - j + 1] = i
    BY <2>3, <2>4
  <2> QED BY <2>5, <2>6, <2>7
<1> HIDE DEF at
<1>3. LogFilesInOrder(t)
  BY <1>2 DEF LogFilesInOrder
<1>4. LogFit(t, most)
  BY <1>2 DEF LogFit
<1>5. ASSUME NEW r PROVE r \in LogContents(t) <=> \E i \in j..k : r \in LogRecords(files[i])
  <2>1. r \in LogContents(t) <=> \E i \in 1..Len(t) : r \in LogRecords(t[i])
    BY <1>1, LogContentsIs
  <2> QED BY <1>2, <2>1
<1> QED
  BY <1>3, <1>4, <1>5

\* The last file is replaced: its records are lost.
LEMMA LogCoreReplaces ==
  ASSUME NEW T, NEW lost, NEW files, NEW tail, NEW most, LogCore(T, lost, files, tail, most),
         files # <<>>
  PROVE  LogCore(T, lost \cup ToSet(Last(files).records), Front(files), tail, most)
<1> DEFINE n == Len(files)
           t == Front(files)
           gone == LogRecords(files[n])
<1>1. /\ LogTook(T) /\ lost \subseteq ToSet(T) /\ files \in Seq(LogFile) /\ most \in Nat
      /\ tail \in Seq(LogRec) /\ LogFilesInOrder(files) /\ LogUp(tail) /\ LogFit(files, most)
      /\ LogBelow(LogContents(files), ToSet(tail))
      /\ LogKeeps(T, lost, LogContents(files) \cup ToSet(tail), most)
  BY DEF LogCore, LogOrdered
<1>2. n \in Nat /\ n # 0
  BY <1>1
<1>3. ToSet(Last(files).records) = gone
  BY DEF Last, LogRecords
<1>4. LogPart(files, t, 1, n - 1)
  <2>1. \A i \in 1..n - 1 : files[i] \in LogFile
    BY <1>1, <1>2
  <2>2. /\ 1 \in Int /\ n - 1 \in Int
    BY <1>2
  <2>3. /\ t \in Seq(LogFile) /\ Len(t) = n - 1
        /\ \A i \in 1..n - 1 : t[i] = files[i]
    <3>1. PICK m : m = n - 1
      OBVIOUS
    <3>2. /\ t = SubSeq(files, 1, m) /\ m \in Int /\ m \in Nat
          /\ \A i \in 1..m : files[i] \in LogFile
      BY <1>2, <2>1, <3>1 DEF Front
    <3>3. /\ SubSeq(files, 1, m) \in Seq(LogFile)
          /\ Len(SubSeq(files, 1, m)) = IF 1 <= m THEN m - 1 + 1 ELSE 0
          /\ \A i \in 1..m - 1 + 1 : SubSeq(files, 1, m)[i] = files[1 + i - 1]
      BY <3>2, SubSeqProperties
    <3> HIDE DEF t
    <3>4. Len(t) = m /\ \A i \in 1..m : t[i] = files[i]
      BY <3>2, <3>3
    <3> QED BY <3>1, <3>2, <3>3, <3>4
  <2> HIDE DEF t, n
  <2>4. \A i \in 1..Len(t) : t[i] = files[i + 1 - 1]
    BY <2>3
  <2>5. 1 \in 1..n + 1 /\ n - 1 \in 1 - 1..n /\ Len(t) = n - 1 - 1 + 1
    BY <1>2, <2>3
  <2> QED BY <2>3, <2>4, <2>5 DEF LogPart, n
<1> HIDE DEF t, gone
<1>5. /\ LogFilesInOrder(t) /\ LogFit(t, most)
      /\ \A r : r \in LogContents(t) <=> \E i \in 1..n - 1 : r \in LogRecords(files[i])
  BY <1>1, <1>4, LogPartIs
<1>6. \A r : r \in LogContents(files) <=> \E i \in 1..n : r \in LogRecords(files[i])
  BY <1>1, LogContentsIs
<1>7. /\ \A r : r \in LogContents(files) <=> r \in LogContents(t) \/ r \in gone
      /\ LogContents(t) \cap gone = {}
  <2>1. \A i : i \in 1..n <=> i \in 1..n - 1 \/ i = n
    BY <1>2
  <2>2. ASSUME NEW i \in 1..n - 1 PROVE LogRecords(files[i]) \cap gone = {}
    <3>1. i \in 1..n /\ n \in 1..n /\ i < n
      BY <1>2
    <3>2. LogBelow(LogRecords(files[i]), gone)
      BY <1>1, <3>1 DEF LogFilesInOrder, gone
    <3> QED BY <1>1, <3>1, <3>2, LogContentsIs, LogApart DEF gone
  <2> QED BY <1>5, <1>6, <2>1, <2>2 DEF gone
<1>8. LogContents(files) \cup ToSet(tail) \subseteq ToSet(T)
      /\ LogContents(files) \cap ToSet(tail) = {}
  BY LogHeld
<1>9. LogKeeps(T, lost \cup gone, LogContents(t) \cup ToSet(tail), most)
  <2>1. PICK p \in 1..Len(T) + 1 :
               /\ LogContents(files) \cup ToSet(tail) = LogSinceOf(T, p) \ lost
               /\ p > 1 => LogBytes(LogSinceOf(T, p)) > LogMaxTotal - most
    BY <1>1 DEF LogKeeps
  <2>2. LogContents(t) \cup ToSet(tail) = LogSinceOf(T, p) \ (lost \cup gone)
    BY <1>7, <1>8, <2>1
  <2> QED BY <2>1, <2>2 DEF LogKeeps
<1>10. lost \cup gone \subseteq ToSet(T)
  BY <1>1, <1>7, <1>8
<1>11. LogOrdered(t, tail)
  BY <1>1, <1>5, <1>7 DEF LogOrdered, LogBelow
<1>12. LogCore(T, lost \cup gone, t, tail, most)
  BY <1>1, <1>4, <1>5, <1>9, <1>10, <1>11 DEF LogCore, LogPart
<1> QED
  BY <1>3, <1>12 DEF t

\* What the files from number j on hold.
LogFrom(files, j) == UNION {LogRecords(files[i]) : i \in j..Len(files)}

\* The bytes from a file on are those of the file and of what comes after it.
LEMMA LogFromIs ==
  ASSUME NEW files \in Seq(LogFile), LogFilesInOrder(files), LogSet(LogContents(files))
  PROVE  /\ LogFrom(files, 1) = LogContents(files) /\ LogFrom(files, Len(files) + 1) = {}
         /\ \A j \in 1..Len(files) + 1 : LogSet(LogFrom(files, j))
         /\ \A j \in 1..Len(files) :
              LogBytes(LogFrom(files, j)) =
                LogBytes(LogRecords(files[j])) + LogBytes(LogFrom(files, j + 1))
<1> DEFINE n == Len(files)
<1>1. /\ n \in Nat /\ \A i \in 1..n : LogSet(LogRecords(files[i]))
      /\ \A r : r \in LogContents(files) <=> \E i \in 1..n : r \in LogRecords(files[i])
  BY LogContentsIs
<1>2. LogFrom(files, 1) = LogContents(files)
  BY <1>1 DEF LogFrom
<1>3. LogFrom(files, n + 1) = {}
  BY <1>1 DEF LogFrom
<1>4. ASSUME NEW j \in 1..n + 1 PROVE LogSet(LogFrom(files, j))
  <2>1. \A i \in j..n : i \in 1..n
    BY <1>1
  <2>2. LogFrom(files, j) \subseteq LogContents(files)
    BY <1>1, <2>1 DEF LogFrom
  <2> QED BY <2>2, LogSubset
<1>5. ASSUME NEW j \in 1..n
      PROVE  LogBytes(LogFrom(files, j)) =
               LogBytes(LogRecords(files[j])) + LogBytes(LogFrom(files, j + 1))
  <2> DEFINE A == LogRecords(files[j])
             B == LogFrom(files, j + 1)
  <2>1. LogSet(A) /\ LogSet(B)
    <3>1. j + 1 \in 1..n + 1
      BY <1>1
    <3> QED BY <1>1, <1>4, <3>1
  <2>2. \A i : i \in j..n <=> i = j \/ i \in j + 1..n
    BY <1>1
  <2>3. LogFrom(files, j) = A \cup B
    BY <2>2 DEF LogFrom
  <2>4. LogBelow(A, B)
    <3>1. ASSUME NEW r \in B PROVE \A q \in A : q.id < r.id
      <4>1. PICK i \in j + 1..n : r \in LogRecords(files[i])
        BY DEF LogFrom
      <4>2. i \in 1..n /\ j < i
        BY <1>1, <4>1
      <4> QED BY <4>1, <4>2 DEF LogFilesInOrder, LogBelow
    <3> QED BY <3>1 DEF LogBelow
  <2> HIDE DEF A, B
  <2>5. LogBytes(A \cup B) = LogBytes(A) + LogBytes(B)
    BY <2>1, <2>4, LogApart, LogBytesBoth
  <2> QED BY <2>3, <2>5 DEF A, B
<1> QED
  BY <1>2, <1>3, <1>4, <1>5

\* The oldest files are deleted while all that is left is too much.
LEMMA LogCoreDrops ==
  ASSUME NEW T, NEW lost, NEW files, NEW tail, NEW most, LogCore(T, lost, files, tail, most),
         ToSet(tail) = {}, NEW t, NEW j, LogPart(files, t, j, Len(files)),
         j > 1 => LogBytes(LogFrom(files, j - 1)) > LogMaxTotal
  PROVE  LogCore(T, lost, t, tail, most)
<1> DEFINE n == Len(files)
           E == LogContents(t)
           D == LogContents(files) \ E
<1>1. /\ LogTook(T) /\ lost \subseteq ToSet(T) /\ files \in Seq(LogFile) /\ most \in Nat
      /\ tail \in Seq(LogRec) /\ LogFilesInOrder(files) /\ LogUp(tail) /\ LogFit(files, most)
      /\ LogKeeps(T, lost, LogContents(files) \cup ToSet(tail), most)
  BY DEF LogCore, LogOrdered
<1>2. n \in Nat /\ j \in 1..n + 1 /\ t \in Seq(LogFile)
  BY <1>1, LogContentsIs DEF LogPart
<1>3. /\ LogFilesInOrder(t) /\ LogFit(t, most)
      /\ \A r : r \in E <=> \E i \in j..n : r \in LogRecords(files[i])
  BY <1>1, LogPartIs
<1>4. \A r : r \in LogContents(files) <=> \E i \in 1..n : r \in LogRecords(files[i])
  BY <1>1, LogContentsIs
<1>5. LogSet(LogContents(files)) /\ LogContents(files) \subseteq ToSet(T)
  BY LogHeld
<1>6. E = LogFrom(files, j)
  BY <1>3 DEF LogFrom
<1>7. E \subseteq LogContents(files)
  <2>1. \A i \in j..n : i \in 1..n
    BY <1>2
  <2> QED BY <1>3, <1>4, <2>1
<1>8. LogBelow(D, E)
  <2>1. ASSUME NEW d \in D, NEW e \in E PROVE d.id < e.id
    <3>1. PICK i \in 1..n : d \in LogRecords(files[i])
      BY <1>4
    <3>2. PICK k \in j..n : e \in LogRecords(files[k])
      BY <1>3
    <3>3. i \notin j..n
      BY <1>3, <3>1
    <3>4. i < k /\ k \in 1..n
      BY <1>2, <3>1, <3>2, <3>3
    <3> QED BY <1>1, <3>1, <3>2, <3>4 DEF LogFilesInOrder, LogBelow
  <2> QED BY <2>1 DEF LogBelow
<1> HIDE DEF E, D
<1>9. PICK p \in 1..Len(T) + 1 :
             /\ LogContents(files) = LogSinceOf(T, p) \ lost
             /\ p > 1 => LogBytes(LogSinceOf(T, p)) > LogMaxTotal - most
  BY <1>1 DEF LogKeeps
<1>10. LogKeeps(T, lost, E, most)
  <2>1. CASE D = {}
    <3>1. E = LogContents(files)
      BY <1>7, <2>1 DEF D
    <3> QED BY <1>9, <3>1 DEF LogKeeps
  <2>2. CASE D # {}
    <3> DEFINE ids == {d.id : d \in D}
               q == Max(ids) + 1
    <3>1. /\ Len(T) \in Nat /\ \A r \in ToSet(T) : r.id \in 1..Len(T)
          /\ \A i \in 1..Len(T) + 1 :
               \A r : r \in LogSinceOf(T, i) <=> r \in ToSet(T) /\ r.id >= i
          /\ \A i \in 1..Len(T) + 1 : LogSet(LogSinceOf(T, i))
      BY <1>1, LogSinceIs
    <3>2. D \subseteq LogContents(files) /\ LogContents(files) = D \cup E
      BY <1>7 DEF D
    <3>3. ids \subseteq 0..Len(T) /\ ids # {}
      BY <1>5, <2>2, <3>1, <3>2
    <3>4. PICK top \in D : top.id = Max(ids) /\ \A d \in D : d.id <= top.id
      <4>1. Max(ids) \in ids /\ \A x \in ids : x <= Max(ids)
        BY <3>1, <3>3, MaxOfNaturals
      <4> QED BY <4>1
    <3> HIDE DEF ids
    <3>5. top.id \in 1..Len(T) /\ q = top.id + 1 /\ q \in 1..Len(T) + 1 /\ q > 1
      BY <1>5, <3>1, <3>2, <3>4
    <3> HIDE DEF q
    <3>6. \A e \in E : e.id \in Nat /\ e.id >= q
      <4>1. \A e \in E : e.id \in Nat /\ top.id < e.id
        BY <1>5, <1>8, <3>1, <3>2 DEF LogBelow
      <4> QED BY <3>5, <4>1
    <3>7. ASSUME NEW x \in E PROVE x \in LogSinceOf(T, q) \ lost
      <4>1. x \in ToSet(T) /\ x \notin lost /\ x.id >= q
        BY <1>5, <1>9, <3>2, <3>6
      <4> QED BY <3>1, <3>5, <4>1
    <3>8. ASSUME NEW x \in LogSinceOf(T, q) \ lost PROVE x \in E
      <4>1. x \in ToSet(T) /\ x.id \in Nat /\ x.id >= q /\ x \notin lost
        BY <3>1, <3>5
      <4>2. top \in LogSinceOf(T, p) /\ top.id >= p
        BY <1>9, <3>1, <3>2
      <4>3. x.id >= p /\ x.id > top.id
        BY <3>5, <4>1, <4>2
      <4>4. x \in LogContents(files)
        BY <1>9, <3>1, <4>1, <4>3
      <4>5. x \notin D
        BY <3>4, <3>5, <4>1, <4>3
      <4> QED BY <3>2, <4>4, <4>5
    <3>9. LogBytes(LogSinceOf(T, q)) > LogMaxTotal - most
      <4>1. CASE j = 1
        <5>1. E = LogContents(files)
          BY <1>1, <1>5, <1>6, <4>1, LogFromIs
        <5> QED BY <2>2, <5>1 DEF D
      <4>2. CASE j # 1
        <5>1. PICK i : i = j - 1
          OBVIOUS
        <5>2. i \in 1..n /\ i + 1 = j /\ i \in 1..n + 1 /\ j > 1
          BY <1>2, <4>2, <5>1
        <5>3. LogBytes(LogFrom(files, i)) =
                LogBytes(LogRecords(files[i])) + LogBytes(LogFrom(files, i + 1))
          BY <1>1, <1>5, <5>2, LogFromIs
        <5>4. LogBytes(LogFrom(files, i)) > LogMaxTotal
          BY <5>1, <5>2
        <5>5. LogBytes(LogRecords(files[i])) <= most /\ LogBytes(LogRecords(files[i])) \in Nat
          BY <1>1, <5>2, LogContentsIs, LogBytesNat DEF LogFit
        <5>6. LogFrom(files, i + 1) = E
          BY <1>6, <5>2
        <5>7. /\ LogBytes(E) <= LogBytes(LogSinceOf(T, q)) /\ LogBytes(E) \in Nat
              /\ LogBytes(LogSinceOf(T, q)) \in Nat
          <6>1. LogSet(LogSinceOf(T, q)) /\ E \subseteq LogSinceOf(T, q)
            BY <3>1, <3>5, <3>7
          <6> QED BY <6>1, LogBytesGrow
        <5>8. LogMaxTotal \in Nat /\ most \in Nat
          BY <1>1, LogAssumption
        <5>9. LogBytes(LogFrom(files, i)) = LogBytes(LogRecords(files[i])) + LogBytes(E)
          BY <5>3, <5>6
        <5> QED BY ONLY <5>4, <5>5, <5>7, <5>8, <5>9
      <4> QED BY <4>1, <4>2
    <3>10. E = LogSinceOf(T, q) \ lost
      BY <3>7, <3>8
    <3> QED BY <3>5, <3>9, <3>10 DEF LogKeeps
  <2> QED BY <2>1, <2>2
<1>11. LogOrdered(t, tail)
  BY <1>1, <1>3 DEF LogOrdered, LogBelow
<1>12. LogKeeps(T, lost, LogContents(t) \cup ToSet(tail), most)
  BY <1>10 DEF E
<1> QED
  BY <1>1, <1>2, <1>3, <1>11, <1>12 DEF LogCore

\* One sealed file of the walk of Cleanup.
LogAccs == [kept : Seq(LogFile), total : Int]
LogCleanStep(stuck, acc, f) ==
  IF acc.total <= LogMaxTotal \/ f.second \in stuck
  THEN [acc EXCEPT !.kept = Append(@, f)]
  ELSE [acc EXCEPT !.total = @ - LogBytes(ToSet(f.records))]
LogCleanStart(files) == [kept |-> <<>>, total |-> LogTotal(files)]
LogCleaned(files, stuck) ==
  FoldLeft(LAMBDA acc, f : LogCleanStep(stuck, acc, f), LogCleanStart(files), files)

\* Cleanup is what its walk has kept.
LEMMA LogCleanupIs ==
  ASSUME NEW files, NEW stuck
  PROVE  Cleanup(files, stuck) = LogCleaned(files, stuck).kept
BY DEF Cleanup, LogCleaned, LogCleanStep, LogCleanStart, FoldLeft, MapThenFoldSet

\* The walk has files and a number.
LEMMA LogCleanType ==
  ASSUME NEW stuck, NEW acc \in LogAccs, NEW f \in LogFile
  PROVE  LogCleanStep(stuck, acc, f) \in LogAccs
<1>1. acc.kept \in Seq(LogFile) /\ acc.total \in Int
  BY DEF LogAccs
<1>2. Append(acc.kept, f) \in Seq(LogFile)
  BY <1>1, AppendProperties
<1>3. LogBytes(ToSet(f.records)) \in Nat
  <2>1. f.records \in Seq(LogRec)
    BY DEF LogFile
  <2> QED BY <2>1, LogSeqSet, LogBytesNat
<1>4. acc.total - LogBytes(ToSet(f.records)) \in Int
  BY <1>1, <1>3
<1> QED
  BY <1>1, <1>2, <1>4 DEF LogCleanStep, LogAccs

\* it[k] is what the walk has made of the first k files.
LogWalks(files, stuck, it) ==
  /\ \A k \in 0..Len(files) : it[k] \in LogAccs
  /\ it[0] = LogCleanStart(files)
  /\ \A k \in 1..Len(files) : it[k] = LogCleanStep(stuck, it[k - 1], files[k])

\* The walk in steps, one for each file.
LEMMA LogCleanedIs ==
  ASSUME NEW files \in Seq(LogFile), LogTotal(files) \in Nat, NEW stuck
  PROVE  \E it : LogWalks(files, stuck, it) /\ LogCleaned(files, stuck) = it[Len(files)]
<1> DEFINE n == Len(files)
           V == LogAccs
           start == LogCleanStart(files)
           step == [p \in (1..n) \X V |-> LogCleanStep(stuck, p[2], files[p[1]])]
<1>1. n \in Nat /\ DOMAIN files = 1..n /\ \A i \in 1..n : files[i] \in LogFile
  OBVIOUS
<1>0. start \in V
  <2>1. <<>> \in Seq(LogFile)
    OBVIOUS
  <2> QED BY <2>1 DEF LogCleanStart, LogAccs
<1>2. \A i \in 1..n, acc \in V : LogCleanStep(stuck, acc, files[i]) \in V
  BY <1>1, LogCleanType
<1> HIDE DEF V
<1>3. /\ step \in [(1..n) \X V -> V]
      /\ \A i \in 1..n, acc \in V : step[<<i, acc>>] = LogCleanStep(stuck, acc, files[i])
  BY <1>2
<1> HIDE DEF n, step, start
<1>4. PICK f : FoldsUpTo(f, n, V, start, step)
  BY <1>0, <1>1, <1>3, RecursionOnIntervals DEF CanFold
<1> DEFINE Rec(it) == it = [s \in SUBSET (1..n) |->
                        IF s = {} THEN start
                        ELSE LET x == Max(s) IN LogCleanStep(stuck, it[s \ {x}], files[x])]
           iter == CHOOSE it : Rec(it)
<1>5. LogCleaned(files, stuck) = iter[1..n]
  BY <1>1 DEF LogCleaned, FoldLeft, MapThenFoldSet, start
<1>6. Rec(f)
  <2>1. ASSUME NEW s \in SUBSET (1..n), s # {}
        PROVE  f[s] = LogCleanStep(stuck, f[s \ {Max(s)}], files[Max(s)])
    <3>1. Max(s) \in 1..n
      BY <1>4, <2>1 DEF FoldsUpTo
    <3> QED BY <1>3, <1>4, <2>1, <3>1 DEF FoldsUpTo
  <2>2. f = [s \in SUBSET (1..n) |-> f[s]] /\ f[{}] = start
    BY <1>4 DEF FoldsUpTo
  <2> QED BY <2>1, <2>2
<1>7. Rec(iter)
  <2> HIDE DEF Rec
  <2> QED BY <1>6
<1> HIDE DEF iter
<1>8. iter[1..n] = f[1..n]
  <2>1. iter[{}] = f[{}]
    BY <1>6, <1>7
  <2>2. ASSUME NEW s \in SUBSET (1..n), s # {}, iter[s \ {Max(s)}] = f[s \ {Max(s)}]
        PROVE  iter[s] = f[s]
    <3>1. f[s] = LogCleanStep(stuck, f[s \ {Max(s)}], files[Max(s)])
      BY <1>6, <2>2
    <3>2. iter[s] = LogCleanStep(stuck, iter[s \ {Max(s)}], files[Max(s)])
      BY <1>7, <2>2
    <3> QED BY <2>2, <3>1, <3>2, Zenon
  <2>3. Alike(n, iter, f)
    <3> HIDE DEF Rec
    <3> QED BY <1>1, <2>1, <2>2 DEF Alike
  <2> QED BY <2>3, FoldsAgree
<1> HIDE DEF Rec
<1> DEFINE it == [k \in 0..n |-> f[1..k]]
<1>9. \A k \in 0..n : it[k] = f[1..k]
  OBVIOUS
<1> HIDE DEF it
<1>10. 0 \in 0..n /\ n \in 0..n /\ 1..0 = {} /\ \A k \in 1..n : k \in 0..n /\ k - 1 \in 0..n
  BY <1>1
<1>11. \A k \in 0..n : it[k] \in V
  BY <1>4, <1>9 DEF FoldsUpTo
<1>12. it[0] = start
  BY <1>4, <1>9, <1>10 DEF FoldsUpTo
<1>13. ASSUME NEW k \in 1..n PROVE it[k] = LogCleanStep(stuck, it[k - 1], files[k])
  <2>1. f[1..k] = step[<<k, f[1..k - 1]>>] /\ f[1..k - 1] \in V
    BY <1>4, <1>10 DEF FoldsUpTo
  <2>2. it[k] = f[1..k] /\ it[k - 1] = f[1..k - 1]
    BY <1>9, <1>10
  <2> QED BY <1>3, <2>1, <2>2
<1>14. LogWalks(files, stuck, it)
  BY <1>11, <1>12, <1>13 DEF LogWalks, n, V, start
<1>15. LogCleaned(files, stuck) = it[Len(files)]
  BY <1>5, <1>8, <1>9, <1>10 DEF n
<1> QED
  BY <1>14, <1>15

\* After k files the last of them are kept, from number j on: the one before was deleted when
\* what was left was too much, and as soon as it is not, all are kept.
LogWalked(files, acc, j, k) ==
  /\ LogPart(files, acc.kept, j, k)
  /\ acc.total = LogBytes(LogFrom(files, j))
  /\ j > 1 => LogBytes(LogFrom(files, j - 1)) > LogMaxTotal
  /\ j <= k => acc.total <= LogMaxTotal

\* One step of the walk, when no file is stuck.
LEMMA LogWalkOn ==
  ASSUME NEW files \in Seq(LogFile), LogFilesInOrder(files), LogSet(LogContents(files)),
         NEW acc \in LogAccs, NEW j, NEW k \in Nat, k < Len(files), LogWalked(files, acc, j, k)
  PROVE  \E i : LogWalked(files, LogCleanStep({}, acc, files[k + 1]), i, k + 1)
<1> DEFINE n == Len(files)
           kept == acc.kept
           next == LogCleanStep({}, acc, files[k + 1])
<1>1. /\ n \in Nat /\ files[k + 1] \in LogFile /\ k + 1 \in 1..n
      /\ \A i \in 1..n : files[i] \in LogFile
  BY LogContentsIs
<1>2. /\ j \in 1..n + 1 /\ k \in j - 1..n /\ kept \in Seq(LogFile) /\ Len(kept) = k - j + 1
      /\ \A i \in 1..Len(kept) : kept[i] = files[i + j - 1]
      /\ acc.total = LogBytes(LogFrom(files, j)) /\ acc.total \in Int
      /\ j > 1 => LogBytes(LogFrom(files, j - 1)) > LogMaxTotal
      /\ j <= k => acc.total <= LogMaxTotal
      /\ DOMAIN acc = {"kept", "total"}
  BY DEF LogWalked, LogPart, LogAccs
<1>3. CASE acc.total <= LogMaxTotal
  <2> DEFINE more == Append(kept, files[k + 1])
  <2>1. next.kept = more /\ next.total = acc.total
    BY <1>2, <1>3 DEF LogCleanStep
  <2>2. /\ more \in Seq(LogFile) /\ Len(more) = Len(kept) + 1
        /\ \A i \in 1..Len(kept) : more[i] = kept[i]
        /\ more[Len(kept) + 1] = files[k + 1]
    <3>1. PICK f \in LogFile : f = files[k + 1]
      BY <1>1
    <3>2. kept \in Seq(LogFile)
      BY <1>2
    <3> HIDE DEF kept
    <3>3. /\ Append(kept, f) \in Seq(LogFile) /\ Len(Append(kept, f)) = Len(kept) + 1
          /\ \A i \in 1..Len(kept) : Append(kept, f)[i] = kept[i]
          /\ Append(kept, f)[Len(kept) + 1] = f
      BY <3>2, AppendProperties
    <3> QED BY <3>1, <3>3
  <2> HIDE DEF more, next, kept
  <2>3. ASSUME NEW i \in 1..Len(more) PROVE more[i] = files[i + j - 1]
    <3>1. CASE i \in 1..Len(kept)
      BY <1>2, <2>2, <3>1
    <3>2. CASE i \notin 1..Len(kept)
      <4>a. /\ Len(kept) = k - j + 1 /\ Len(more) = Len(kept) + 1 /\ Len(kept) \in Nat
            /\ j \in Nat /\ i \in 1..Len(more) /\ i \notin 1..Len(kept) /\ k \in Nat
        BY <1>1, <1>2, <2>2, <3>2
      <4>1. i = Len(kept) + 1 /\ i + j - 1 = k + 1
        BY ONLY <4>a
      <4> QED BY <2>2, <4>1
    <3> QED BY <3>1, <3>2
  <2>4. Len(more) = k + 1 - j + 1 /\ k + 1 \in j - 1..n
    <3>1. /\ Len(more) = Len(kept) + 1 /\ Len(kept) = k - j + 1 /\ k \in Nat /\ j \in Nat
          /\ n \in Nat /\ k >= j - 1 /\ k + 1 \in 1..n
      BY <1>1, <1>2, <2>2
    <3> QED BY ONLY <3>1
  <2>5. LogPart(files, more, j, k + 1)
    BY <1>2, <2>2, <2>3, <2>4 DEF LogPart
  <2>6. LogWalked(files, next, j, k + 1)
    BY <1>2, <1>3, <2>1, <2>5 DEF LogWalked
  <2> QED BY <2>6 DEF next
<1>4. CASE ~(acc.total <= LogMaxTotal)
  <2>1. j = k + 1 /\ LogMaxTotal \in Nat
    <3>1. j \in Nat /\ k \in Int /\ k >= j - 1 /\ ~(j <= k) /\ n \in Nat
      BY <1>1, <1>2, <1>4
    <3>2. j = k + 1
      BY ONLY <3>1
    <3> QED BY <3>2, LogAssumption
  <2>2. next.kept = kept /\ next.total = acc.total - LogBytes(LogRecords(files[k + 1]))
    BY <1>2, <1>4 DEF LogCleanStep, LogRecords
  <2> HIDE DEF next, kept
  <2>3. PICK i : i = k + 2
    OBVIOUS
  <2>4. i = j + 1 /\ i - 1 = j /\ j \in 1..n /\ i > 1 /\ ~(i <= k + 1) /\ i \in 1..n + 1
        /\ k + 1 \in i - 1..n /\ k + 1 - i + 1 = 0
    BY <1>1, <2>1, <2>3
  <2>5. /\ LogBytes(LogFrom(files, j)) =
             LogBytes(LogRecords(files[j])) + LogBytes(LogFrom(files, j + 1))
        /\ LogSet(LogFrom(files, j + 1)) /\ LogSet(LogRecords(files[j]))
    <3>1. j + 1 \in 1..n + 1
      BY <2>4
    <3> QED BY <2>4, <3>1, LogFromIs, LogContentsIs
  <2>6. LogBytes(LogFrom(files, j + 1)) \in Nat /\ LogBytes(LogRecords(files[j])) \in Nat
    BY <2>5, LogBytesNat
  <2>7. next.total = LogBytes(LogFrom(files, i))
    <3>1. next.total = acc.total - LogBytes(LogRecords(files[j]))
      BY <2>1, <2>2
    <3>2. LogFrom(files, i) = LogFrom(files, j + 1)
      BY <2>4
    <3> QED BY <1>2, <2>5, <2>6, <3>1, <3>2
  <2>8. LogBytes(LogFrom(files, i - 1)) > LogMaxTotal
    <3>1. LogBytes(LogFrom(files, j)) > LogMaxTotal
      BY <1>2, <1>4, <2>1
    <3> QED BY <2>4, <3>1
  <2>9. LogPart(files, kept, i, k + 1)
    <3>1. Len(kept) = 0
      BY <1>2, <2>1
    <3> QED BY <1>2, <2>4, <3>1 DEF LogPart
  <2>10. LogWalked(files, next, i, k + 1)
    BY <2>2, <2>4, <2>7, <2>8, <2>9 DEF LogWalked
  <2> QED BY <2>10 DEF next
<1> QED
  BY <1>3, <1>4

\* Cleanup keeps the files from one on, and deleted the one before it when it was too much.
LEMMA LogCleanupKeeps ==
  ASSUME NEW files \in Seq(LogFile), LogFilesInOrder(files), LogSet(LogContents(files))
  PROVE  \E j : /\ LogPart(files, Cleanup(files, {}), j, Len(files))
                /\ j > 1 => LogBytes(LogFrom(files, j - 1)) > LogMaxTotal
<1> DEFINE n == Len(files)
<1>1. /\ n \in Nat /\ LogTotal(files) = LogBytes(LogContents(files)) /\ LogTotal(files) \in Nat
      /\ LogFrom(files, 1) = LogContents(files)
  BY LogContentsIs, LogBytesNat, LogFromIs DEF LogTotal
<1>2. PICK it : LogWalks(files, {}, it) /\ LogCleaned(files, {}) = it[n]
  BY <1>1, LogCleanedIs
<1>3. /\ \A k \in 0..n : it[k] \in LogAccs
      /\ it[0] = LogCleanStart(files)
      /\ \A k \in 1..n : it[k] = LogCleanStep({}, it[k - 1], files[k])
  BY <1>2 DEF LogWalks
<1> DEFINE P == {k \in 0..n : \E j : LogWalked(files, it[k], j, k)}
<1>4. 0 \in P
  <2>1. PICK kept : kept = it[0].kept
    OBVIOUS
  <2>2. kept = <<>> /\ it[0].total = LogBytes(LogFrom(files, 1))
    BY <1>1, <1>3, <2>1 DEF LogCleanStart
  <2>3. kept \in Seq(LogFile) /\ Len(kept) = 0
    BY <2>2
  <2>4. 1 \in 1..n + 1 /\ 0 \in 1 - 1..n /\ 0 - 1 + 1 = 0 /\ 0 \in 0..n
    BY <1>1
  <2>5. LogPart(files, kept, 1, 0)
    BY <2>3, <2>4 DEF LogPart
  <2>6. LogWalked(files, it[0], 1, 0)
    BY <2>1, <2>2, <2>5 DEF LogWalked
  <2> QED BY <2>4, <2>6
<1>5. ASSUME NEW k \in 0..n - 1, k \in P PROVE k + 1 \in P
  <2>1. k \in Nat /\ k < n /\ k \in 0..n /\ k + 1 \in 1..n /\ k + 1 \in 0..n
    BY <1>1
  <2>2. PICK j : LogWalked(files, it[k], j, k)
    BY <1>5
  <2>3. it[k] \in LogAccs
    BY <1>3, <2>1
  <2>4. PICK i : LogWalked(files, LogCleanStep({}, it[k], files[k + 1]), i, k + 1)
    BY <2>1, <2>2, <2>3, LogWalkOn
  <2>5. it[k + 1] = LogCleanStep({}, it[k], files[k + 1])
    <3>1. PICK m : m = k + 1
      OBVIOUS
    <3>2. m \in 1..n /\ m - 1 = k
      BY <2>1, <3>1
    <3>3. it[m] = LogCleanStep({}, it[m - 1], files[m])
      BY <1>3, <3>2
    <3> QED BY <3>1, <3>2, <3>3
  <2>6. LogWalked(files, it[k + 1], i, k + 1)
    BY <2>4, <2>5
  <2> QED BY <2>1, <2>6
<1>6. n \in P
  <2>1. n \in 0..n
    BY <1>1
  <2> HIDE DEF P
  <2> QED BY <1>1, <1>4, <1>5, <2>1, NaturalsUpTo
<1>7. PICK j : LogWalked(files, it[n], j, n)
  BY <1>6
<1>8. Cleanup(files, {}) = it[n].kept
  BY <1>2, LogCleanupIs
<1> QED
  BY <1>7, <1>8 DEF LogWalked

-----------------------------------------------------------------------------
LogMostAt(starts) == (IF LogMaxFile = 0 THEN 0 ELSE LogMaxFile - 1) + starts * Max(LogSizes)

\* Every start of the process adds the size of a record to the limit.
LEMMA LogMostGrows ==
  ASSUME NEW starts \in Nat
  PROVE  /\ LogMostAt(starts) \in Nat
         /\ LogMostAt(starts + 1) = LogMostAt(starts) + Max(LogSizes)
         /\ LogMaxFile # 0 => LogMostAt(starts) >= LogMaxFile - 1
<1> DEFINE most == Max(LogSizes)
<1>1. most \in Nat /\ LogMaxFile \in Nat
  BY LogLongest, LogAssumption
<1> HIDE DEF most
<1>2. starts * most \in Nat /\ (starts + 1) * most = starts * most + most
  BY <1>1
<1>3. PICK a \in Nat : a = starts * most
  BY <1>2
<1>4. PICK b \in Nat : b = IF LogMaxFile = 0 THEN 0 ELSE LogMaxFile - 1
  BY <1>1
<1>5. LogMostAt(starts) = b + a
  BY <1>3, <1>4 DEF LogMostAt, most
<1>6. LogMostAt(starts + 1) = b + (a + most)
  BY <1>2, <1>3, <1>4 DEF LogMostAt, most
<1>7. LogMaxFile # 0 => b >= LogMaxFile - 1
  BY <1>1, <1>4
<1>8. /\ LogMostAt(starts) \in Nat /\ LogMostAt(starts + 1) = LogMostAt(starts) + most
      /\ LogMaxFile # 0 => LogMostAt(starts) >= LogMaxFile - 1
  BY <1>1, <1>5, <1>6, <1>7
<1> QED
  BY <1>8 DEF most

LogTail == logActive \o logBuffer

LogPlaces ==
  /\ logStarts \in Nat \ {0} /\ logClock \in Nat
  /\ logActive \in Seq(LogRec) /\ logBuffer \in Seq(LogRec)
  /\ logPc = "on" => logCount = LogBytes(ToSet(LogTail))
  /\ logPc # "on" => logBuffer = <<>>
  /\ logPc = "cleanup" => logActive = <<>>
  /\ LogBytes(ToSet(LogTail)) <= LogMost
  /\ logPc \in {"on", "open"} => LogBytes(ToSet(LogTail)) <= LogMostAt(logStarts - 1)

LogHolds == LogCore(logTaken, logLost, logSealed, LogTail, LogMost) /\ LogPlaces
LogInv == logStuck \in BOOLEAN /\ (~logStuck => LogHolds)

\* The limit is that of the starts so far.
LEMMA LogMostIs == LogMost = LogMostAt(logStarts)
BY DEF LogMost, LogMostAt

\* What is in the file and its buffer.
LEMMA LogTailIs ==
  ASSUME LogPlaces
  PROVE  /\ LogTail \in Seq(LogRec) /\ LogSet(ToSet(LogTail)) /\ LogBytes(ToSet(LogTail)) \in Nat
         /\ logBuffer = <<>> => LogTail = logActive
<1>1. logActive \in Seq(LogRec) /\ logBuffer \in Seq(LogRec)
  BY DEF LogPlaces
<1>2. LogTail \in Seq(LogRec)
  BY <1>1, LogSetJoin DEF LogTail
<1>3. logBuffer = <<>> => LogTail = logActive
  BY <1>1, ConcatEmptySeq DEF LogTail
<1> QED
  BY <1>2, <1>3, LogSeqSet, LogBytesNat

\* The log before the first record.
LEMMA LogInitInv == LogInit => LogInv
<1> SUFFICES ASSUME LogInit PROVE LogInv
  OBVIOUS
<1>1. PICK e : e = <<>>
  OBVIOUS
<1>2. /\ e \in Seq(LogRec) /\ e \in Seq(LogFile) /\ Len(e) = 0
      /\ e \o e = e /\ ToSet(e) = {} /\ LogUp(e)
  <2>1. e \in Seq(LogRec) /\ e \in Seq(LogFile) /\ Len(e) = 0
    BY <1>1
  <2>2. e \o e = e
    BY <1>1, <2>1, ConcatEmptySeq
  <2> QED BY <1>1, <2>1, <2>2, LogNothing
<1>3. /\ logTaken = e /\ logLost = {} /\ logSealed = e /\ LogTail = e /\ logStarts = 1
      /\ logActive = e /\ logBuffer = e /\ logPc = "open" /\ logClock = 0 /\ logStuck = FALSE
  BY <1>1, <1>2 DEF LogInit, LogTail
<1>4. LogBytes({}) = 0 /\ LogContents(e) = {}
  <2>1. LogContents(e) = {}
    <3>1. ToSet(e) = {}
      BY <1>2
    <3> QED BY <3>1 DEF LogContents
  <2> QED BY <2>1, LogBytesNone
<1>5. LogMost \in Nat /\ LogMostAt(0) \in Nat /\ LogMost >= 0 /\ LogMostAt(0) >= 0
  <2>1. 0 \in Nat /\ 1 \in Nat /\ LogMost = LogMostAt(1)
    BY <1>3, LogMostIs
  <2>2. LogMostAt(0) \in Nat /\ LogMostAt(1) \in Nat
    BY <2>1, LogMostGrows
  <2> QED BY <2>1, <2>2
<1>6. LogTook(e) /\ LogOrdered(e, e) /\ LogFit(e, LogMost)
  BY <1>2, <1>4 DEF LogTook, LogOrdered, LogFilesInOrder, LogBelow, LogFit
<1>7. LogKeeps(e, {}, LogContents(e) \cup ToSet(e), LogMost)
  <2>1. 1 \in 1..Len(e) + 1 /\ LogSinceOf(e, 1) = {}
    BY <1>2 DEF LogSinceOf
  <2> QED BY <1>2, <1>4, <2>1 DEF LogKeeps
<1>8. LogCore(e, {}, e, e, LogMost)
  BY <1>2, <1>5, <1>6, <1>7 DEF LogCore
<1>9. LogPlaces
  <2>1. logStarts - 1 = 0 /\ LogBytes(ToSet(LogTail)) = 0
    <3>1. ToSet(LogTail) = {}
      BY <1>2, <1>3
    <3> QED BY <1>3, <1>4, <3>1
  <2> QED BY <1>1, <1>2, <1>3, <1>5, <2>1 DEF LogPlaces
<1> QED
  BY <1>3, <1>8, <1>9 DEF LogInv, LogHolds

\* A step that moves no record.
LEMMA LogCoreStays ==
  ASSUME LogHolds, UNCHANGED <<logTaken, logLost, logSealed, logStarts>>, LogTail' = LogTail
  PROVE  LogCore(logTaken, logLost, logSealed, LogTail, LogMost)' /\ LogMost' = LogMost
<1>1. LogMost' = LogMost
  BY DEF LogMost
<1> QED
  BY <1>1 DEF LogHolds

\* The limits of the tail in numbers.
LEMMA LogLimits ==
  ASSUME LogPlaces
  PROVE  /\ LogMost \in Nat /\ LogMostAt(logStarts - 1) \in Nat
         /\ LogMost = LogMostAt(logStarts - 1) + Max(LogSizes)
         /\ LogMaxFile # 0 => LogMostAt(logStarts - 1) >= LogMaxFile - 1
         /\ LogMostAt(logStarts - 1) <= LogMost /\ Max(LogSizes) \in Nat
         /\ LogMost = LogMostAt(logStarts)
<1>1. PICK k : k = logStarts - 1
  OBVIOUS
<1>2. k \in Nat /\ logStarts = k + 1 /\ logStarts \in Nat
  BY <1>1 DEF LogPlaces
<1>3. /\ LogMostAt(k) \in Nat /\ LogMostAt(k + 1) = LogMostAt(k) + Max(LogSizes)
      /\ LogMaxFile # 0 => LogMostAt(k) >= LogMaxFile - 1
  BY <1>2, LogMostGrows
<1>4. LogMost = LogMostAt(k + 1) /\ LogMost = LogMostAt(logStarts)
  BY <1>2, LogMostIs
<1>5. Max(LogSizes) \in Nat
  BY LogLongest
<1> QED
  BY <1>1, <1>3, <1>4, <1>5

\* The file is opened, or is not.
LEMMA LogOpenKeeps == LogHolds /\ LogOpen => LogHolds'
<1> SUFFICES ASSUME LogHolds, LogOpen PROVE LogHolds'
  OBVIOUS
<1>1. /\ logPc = "open" /\ logPc' \in {"on", "off"}
      /\ logCount' = IF logPc' = "on" THEN LogBytes(ToSet(logActive)) ELSE logCount
      /\ UNCHANGED <<logActive, logBuffer, logSealed, logClock, logStarts, logTaken, logLost>>
  BY DEF LogOpen
<1>2. LogPlaces
  BY DEF LogHolds
<1>3. LogTail' = LogTail /\ LogTail = logActive
  BY <1>1, <1>2, LogTailIs DEF LogTail, LogPlaces
<1>4. LogCore(logTaken, logLost, logSealed, LogTail, LogMost)' /\ LogMost' = LogMost
  BY <1>1, <1>3, LogCoreStays
<1>5. logPc' = "on" => logCount' = LogBytes(ToSet(LogTail'))
  BY <1>1, <1>3
<1>6. LogMostAt(logStarts' - 1) = LogMostAt(logStarts - 1)
  BY <1>1
<1>7. LogPlaces'
  BY <1>1, <1>2, <1>3, <1>4, <1>5, <1>6 DEF LogPlaces
<1> QED
  BY <1>4, <1>7 DEF LogHolds

\* The buffer goes to the file, or nothing is moved.
LEMMA LogFlushKeeps ==
  ASSUME LogHolds, LogFlush \/ LogThrows \/ LogTick \/ LogStop(TRUE)
  PROVE  LogHolds'
<1>1. /\ UNCHANGED <<logSealed, logStarts, logTaken, logLost, logCount>>
      /\ \/ logActive' = logActive /\ logBuffer' = logBuffer
         \/ logActive' = logActive \o logBuffer /\ logBuffer' = <<>>
      /\ logClock' \in {logClock, logClock + 1}
  BY DEF LogFlush, LogThrows, LogTick, LogStop
<1>2. LogPlaces
  BY DEF LogHolds
<1>3. LogTail' = LogTail /\ logActive' \in Seq(LogRec) /\ logBuffer' \in Seq(LogRec)
  <2>1. LogTail \in Seq(LogRec) /\ LogTail \o <<>> = LogTail
    BY <1>2, LogTailIs, ConcatEmptySeq
  <2>2. CASE logActive' = logActive /\ logBuffer' = logBuffer
    BY <1>2, <2>2 DEF LogTail, LogPlaces
  <2>3. CASE logActive' = logActive \o logBuffer /\ logBuffer' = <<>>
    <3>1. logActive' = LogTail
      BY <2>3 DEF LogTail
    <3>2. logBuffer' \in Seq(LogRec)
      BY <2>3
    <3>3. LogTail' = logActive' \o logBuffer'
      BY DEF LogTail
    <3>4. LogTail' = LogTail
      BY <2>1, <2>3, <3>1, <3>3
    <3> QED BY <2>1, <3>1, <3>2, <3>4
  <2> QED BY <1>1, <2>2, <2>3
<1>4. LogCore(logTaken, logLost, logSealed, LogTail, LogMost)' /\ LogMost' = LogMost
  BY <1>1, <1>3, LogCoreStays
<1>5. LogMostAt(logStarts' - 1) = LogMostAt(logStarts - 1)
  BY <1>1
<1>6. /\ logPc' \in {"on", "open"} => logPc' = logPc
      /\ logPc' # "on" => logBuffer' = <<>>
      /\ logPc' = "cleanup" => logActive' = <<>>
  <2>1. CASE LogFlush
    BY <2>1 DEF LogFlush
  <2>2. CASE LogThrows
    BY <1>2, <2>2 DEF LogThrows, LogPlaces
  <2>3. CASE LogTick
    BY <1>2, <2>3 DEF LogTick, LogPlaces
  <2>4. CASE LogStop(TRUE)
    BY <2>4 DEF LogStop
  <2> QED BY <2>1, <2>2, <2>3, <2>4
<1>7. logClock' \in Nat
  BY <1>1, <1>2 DEF LogPlaces
<1>8. LogPlaces'
  BY <1>1, <1>2, <1>3, <1>4, <1>5, <1>6, <1>7 DEF LogPlaces
<1> QED
  BY <1>4, <1>8 DEF LogHolds

\* The process is killed: the buffer is lost.
LEMMA LogKillKeeps == LogHolds /\ LogStop(FALSE) => LogHolds'
<1> SUFFICES ASSUME LogHolds, LogStop(FALSE) PROVE LogHolds'
  OBVIOUS
<1>1. /\ logPc' = "down" /\ logActive' = logActive /\ logBuffer' = <<>>
      /\ logLost' = logLost \cup ToSet(logBuffer)
      /\ UNCHANGED <<logSealed, logClock, logStarts, logTaken>>
  BY DEF LogStop
<1>2. LogPlaces /\ LogCore(logTaken, logLost, logSealed, LogTail, LogMost)
  BY DEF LogHolds
<1>3. logActive \in Seq(LogRec) /\ logBuffer \in Seq(LogRec)
  BY <1>2 DEF LogPlaces
<1>4. LogTail' = logActive /\ logBuffer' \in Seq(LogRec)
  <2>1. logActive \o <<>> = logActive
    BY <1>3, ConcatEmptySeq
  <2>2. LogTail' = logActive' \o logBuffer'
    BY DEF LogTail
  <2> QED BY <1>1, <2>1, <2>2
<1>5. LogCore(logTaken, logLost \cup ToSet(logBuffer), logSealed, logActive, LogMost)
  BY <1>2, <1>3, LogCoreLoses DEF LogTail
<1>6. LogMost' = LogMost
  BY <1>1 DEF LogMost
<1>7. LogBytes(ToSet(logActive)) <= LogMost
  <2>1. LogSet(ToSet(LogTail)) /\ ToSet(logActive) \subseteq ToSet(LogTail)
    BY <1>2, <1>3, LogTailIs, LogSetJoin DEF LogTail
  <2>2. /\ LogBytes(ToSet(logActive)) <= LogBytes(ToSet(LogTail))
        /\ LogBytes(ToSet(logActive)) \in Nat /\ LogBytes(ToSet(LogTail)) \in Nat
    BY <2>1, LogBytesGrow
  <2> QED BY <1>2, <2>2, LogLimits DEF LogPlaces
<1>8. LogPlaces'
  BY <1>1, <1>2, <1>3, <1>4, <1>6, <1>7 DEF LogPlaces
<1>9. LogCore(logTaken, logLost, logSealed, LogTail, LogMost)'
  BY <1>1, <1>4, <1>5, <1>6
<1> QED
  BY <1>8, <1>9 DEF LogHolds

\* The process starts again: what a process has left in the file counts once more.
LEMMA LogStartKeeps == LogHolds /\ LogStart => LogHolds'
<1> SUFFICES ASSUME LogHolds, LogStart PROVE LogHolds'
  OBVIOUS
<1>1. /\ logPc = "down" /\ logPc' = "open" /\ logStarts' = logStarts + 1
      /\ UNCHANGED <<logActive, logBuffer, logSealed, logClock, logTaken, logLost>>
  BY DEF LogStart
<1>2. LogPlaces /\ LogCore(logTaken, logLost, logSealed, LogTail, LogMost)
  BY DEF LogHolds
<1>3. LogTail' = LogTail
  BY <1>1 DEF LogTail
<1>4. logStarts \in Nat /\ LogMost = LogMostAt(logStarts) /\ LogMost \in Nat
  BY <1>2, LogLimits DEF LogPlaces
<1>5. LogMostAt(logStarts + 1) = LogMost + Max(LogSizes) /\ Max(LogSizes) \in Nat
  BY <1>4, LogMostGrows, LogLongest
<1>6. LogMost' = LogMostAt(logStarts + 1)
  <2>1. LogMost' = LogMostAt(logStarts')
    BY DEF LogMost, LogMostAt
  <2> QED BY <1>1, <2>1
<1>7. LogMost' \in Nat /\ LogMost <= LogMost'
  BY <1>4, <1>5, <1>6
<1>8. LogCore(logTaken, logLost, logSealed, LogTail, LogMost')
  BY <1>2, <1>7, LogCoreMore
<1>9. logStarts' \in Nat \ {0} /\ logStarts' - 1 = logStarts
  BY <1>1, <1>4
<1>10. LogBytes(ToSet(LogTail)) <= LogMost /\ LogBytes(ToSet(LogTail)) \in Nat
  BY <1>2, LogTailIs DEF LogPlaces
<1>11. LogMostAt(logStarts' - 1) = LogMost
  BY <1>4, <1>9
<1>12. LogBytes(ToSet(LogTail)) <= LogMost'
  BY <1>4, <1>7, <1>10
<1>13. LogPlaces'
  BY <1>1, <1>2, <1>3, <1>9, <1>10, <1>11, <1>12 DEF LogPlaces
<1>14. LogCore(logTaken, logLost, logSealed, LogTail, LogMost)'
  BY <1>1, <1>3, <1>8
<1> QED
  BY <1>13, <1>14 DEF LogHolds

\* A record joins the tail, in the buffer or in the file.
LEMMA LogTailAppend ==
  ASSUME NEW a \in Seq(LogRec), NEW b \in Seq(LogRec), NEW r \in LogRec
  PROVE  /\ a \o Append(b, r) = Append(a \o b, r)
         /\ Append(a \o b, r) \o <<>> = Append(a \o b, r)
         /\ Append(a \o b, r) \in Seq(LogRec) /\ Append(b, r) \in Seq(LogRec)
         /\ ToSet(Append(a \o b, r)) = ToSet(a \o b) \cup {r}
<1>1. PICK one : one = <<r>>
  OBVIOUS
<1>2. one \in Seq(LogRec) /\ a \o b \in Seq(LogRec)
  BY <1>1, LogSetJoin
<1>3. Append(b, r) = b \o one /\ Append(a \o b, r) = (a \o b) \o one
  BY <1>1, <1>2, AppendIsConcat
<1>4. (a \o b) \o one = a \o (b \o one)
  BY <1>2, ConcatAssociative
<1>5. /\ Append(a \o b, r) \in Seq(LogRec) /\ Append(b, r) \in Seq(LogRec)
      /\ ToSet(Append(a \o b, r)) = ToSet(a \o b) \cup {r}
  BY <1>2, LogSetAppend
<1>6. Append(a \o b, r) \o <<>> = Append(a \o b, r)
  BY <1>5, ConcatEmptySeq
<1> QED
  BY <1>3, <1>4, <1>5, <1>6

\* The sink takes a record.
LEMMA LogSinkKeeps ==
  ASSUME LogHolds, NEW size \in LogSizes, LogSink(size) PROVE LogHolds'
<1> DEFINE r == [id |-> Len(logTaken) + 1, size |-> size]
           full == logCount + size >= LogMaxFile
<1>1. /\ logPc = "on" /\ logTaken' = Append(logTaken, r)
      /\ logPc' = IF full THEN "rename" ELSE "on"
      /\ logActive' = IF full THEN Append(logActive \o logBuffer, r) ELSE logActive
      /\ logBuffer' = IF full THEN <<>> ELSE Append(logBuffer, r)
      /\ logCount' = logCount + size
      /\ UNCHANGED <<logSealed, logClock, logStarts, logLost>>
  BY DEF LogSink
<1>2. LogPlaces /\ LogCore(logTaken, logLost, logSealed, LogTail, LogMost)
  BY DEF LogHolds
<1>3. /\ logActive \in Seq(LogRec) /\ logBuffer \in Seq(LogRec)
      /\ logStarts \in Nat \ {0} /\ logClock \in Nat
  BY <1>2 DEF LogPlaces
<1>4. r \in LogRec /\ r.id = Len(logTaken) + 1 /\ r.size = size /\ size \in Nat
  <2>1. Len(logTaken) \in Nat
    BY <1>2, LogSinceIs DEF LogCore
  <2> QED BY <2>1, LogAssumption DEF LogRec
<1>5. /\ logActive \o Append(logBuffer, r) = Append(LogTail, r)
      /\ Append(LogTail, r) \o <<>> = Append(LogTail, r)
      /\ Append(LogTail, r) \in Seq(LogRec) /\ Append(logBuffer, r) \in Seq(LogRec)
      /\ ToSet(Append(LogTail, r)) = ToSet(LogTail) \cup {r}
  BY <1>3, <1>4, LogTailAppend DEF LogTail
<1>6. r \notin ToSet(LogTail)
  <2>1. ToSet(LogTail) \subseteq ToSet(logTaken) /\ LogTook(logTaken)
    BY <1>2, LogHeld DEF LogCore
  <2>2. \A x \in ToSet(logTaken) : x.id \in 1..Len(logTaken)
    BY <2>1, LogSinceIs
  <2>3. Len(logTaken) \in Nat
    BY <2>1, LogSinceIs
  <2> QED BY <1>4, <2>1, <2>2, <2>3
<1> HIDE DEF r
<1>7. LogBytes(ToSet(Append(LogTail, r))) = LogBytes(ToSet(LogTail)) + size
  <2>1. LogSet(ToSet(Append(LogTail, r))) /\ r \in ToSet(Append(LogTail, r))
    BY <1>5, LogSeqSet
  <2>2. ToSet(Append(LogTail, r)) \ {r} = ToSet(LogTail)
    BY <1>5, <1>6
  <2>3. LogBytes(ToSet(Append(LogTail, r))) = r.size + LogBytes(ToSet(LogTail))
    BY <2>1, <2>2, LogBytesTake
  <2>4. LogBytes(ToSet(LogTail)) \in Nat
    BY <1>2, LogTailIs
  <2> QED BY <1>4, <2>3, <2>4
<1>8. LogTail' = Append(LogTail, r)
  <2>1. LogTail' = logActive' \o logBuffer'
    BY DEF LogTail
  <2>2. CASE full
    BY <1>1, <1>5, <2>1, <2>2 DEF LogTail
  <2>3. CASE ~full
    BY <1>1, <1>5, <2>1, <2>3
  <2> QED BY <2>2, <2>3
<1>9. LogMost' = LogMost /\ LogMostAt(logStarts' - 1) = LogMostAt(logStarts - 1)
  BY <1>1 DEF LogMost
<1>10. LogCore(logTaken, logLost, logSealed, LogTail, LogMost)'
  <2>1. LogCore(Append(logTaken, r), logLost, logSealed, Append(LogTail, r), LogMost)
    BY <1>2, <1>4, LogCoreTakes
  <2> QED BY <1>1, <1>8, <1>9, <2>1
<1>11. logCount = LogBytes(ToSet(LogTail)) /\ LogBytes(ToSet(LogTail)) \in Nat
       /\ LogBytes(ToSet(LogTail)) <= LogMostAt(logStarts - 1)
  BY <1>1, <1>2, LogTailIs DEF LogPlaces
<1>12. LogBytes(ToSet(LogTail')) = logCount + size
  BY <1>7, <1>8, <1>11
<1>13. /\ LogMost \in Nat /\ LogMostAt(logStarts - 1) \in Nat
       /\ LogMost = LogMostAt(logStarts - 1) + Max(LogSizes)
       /\ LogMaxFile # 0 => LogMostAt(logStarts - 1) >= LogMaxFile - 1
       /\ LogMostAt(logStarts - 1) <= LogMost /\ Max(LogSizes) \in Nat /\ size <= Max(LogSizes)
       /\ LogMaxFile \in Nat
  BY <1>2, LogLimits, LogLongest, LogAssumption
<1>14. ~full => logCount + size <= LogMostAt(logStarts - 1)
  <2>1. ASSUME ~full PROVE logCount + size <= LogMostAt(logStarts - 1)
    BY <1>4, <1>11, <1>13, <2>1
  <2> QED BY <2>1
<1>15. logCount + size <= LogMost
  BY <1>4, <1>11, <1>13
<1>16. /\ logPc' = "on" => logCount + size <= LogMostAt(logStarts - 1)
       /\ logPc' \in {"on", "rename"} /\ logPc' # "on" => logBuffer' = <<>>
       /\ logActive' \in Seq(LogRec) /\ logBuffer' \in Seq(LogRec)
  <2>1. CASE full
    BY <1>1, <1>5, <2>1 DEF LogTail
  <2>2. CASE ~full
    BY <1>1, <1>3, <1>5, <1>14, <2>2
  <2> QED BY <2>1, <2>2
<1>17. LogPlaces'
  <2> HIDE DEF full
  <2>1. /\ logStarts' \in Nat \ {0} /\ logClock' \in Nat
        /\ logPc' = "on" => logCount' = LogBytes(ToSet(LogTail'))
        /\ logPc' # "on" => logBuffer' = <<>>
        /\ logPc' = "cleanup" => logActive' = <<>>
        /\ LogBytes(ToSet(LogTail')) <= LogMost'
        /\ logPc' \in {"on", "open"} => LogBytes(ToSet(LogTail')) <= LogMostAt(logStarts' - 1)
    BY <1>1, <1>3, <1>9, <1>12, <1>15, <1>16
  <2> QED BY <1>16, <2>1 DEF LogPlaces
<1> QED
  BY <1>10, <1>17 DEF LogHolds

\* The empty tail after a file was sealed or cleaned up.
LEMMA LogEmptyTail ==
  ASSUME LogPlaces, UNCHANGED <<logStarts, logClock>>, logActive' = <<>>, logBuffer' = <<>>,
         logPc' # "on"
  PROVE  LogTail' = <<>> /\ LogPlaces'
<1>1. PICK e : e = <<>>
  OBVIOUS
<1>2. e \in Seq(LogRec) /\ e \o e = e /\ ToSet(e) = {}
  <2>1. e \in Seq(LogRec)
    BY <1>1
  <2>2. e \o e = e
    BY <1>1, <2>1, ConcatEmptySeq
  <2> QED BY <1>1, <2>1, <2>2, LogNothing
<1>3. LogTail' = e
  BY <1>1, <1>2 DEF LogTail
<1>4. LogBytes(ToSet(LogTail')) = 0
  BY <1>2, <1>3, LogBytesNone
<1>5. LogMost' = LogMost /\ LogMostAt(logStarts' - 1) = LogMostAt(logStarts - 1)
  BY DEF LogMost
<1>6. LogMost \in Nat /\ LogMostAt(logStarts - 1) \in Nat
  BY LogLimits
<1>7. /\ LogBytes(ToSet(LogTail')) <= LogMost'
      /\ LogBytes(ToSet(LogTail')) <= LogMostAt(logStarts' - 1)
  BY <1>4, <1>5, <1>6
<1>8. LogPlaces'
  BY <1>1, <1>2, <1>7 DEF LogPlaces
<1> QED
  BY <1>1, <1>3, <1>8

\* The active file is sealed.
LEMMA LogRenameKeeps ==
  ASSUME LogHolds, LogRename PROVE LogHolds'
<1> DEFINE f == [second |-> logClock, records |-> logActive]
           replaces == logSealed # <<>> /\ Last(logSealed).second = logClock
<1>1. /\ logPc = "rename" /\ logActive' = <<>> /\ logPc' = "cleanup"
      /\ UNCHANGED <<logBuffer, logClock, logStarts, logTaken>>
      /\ IF replaces
         THEN /\ logSealed' = Append(Front(logSealed), f)
              /\ logLost' = logLost \cup ToSet(Last(logSealed).records)
         ELSE logSealed' = Append(logSealed, f) /\ logLost' = logLost
  BY DEF LogRename
<1>2. LogPlaces /\ LogCore(logTaken, logLost, logSealed, LogTail, LogMost)
  BY DEF LogHolds
<1>3. /\ logActive \in Seq(LogRec) /\ logBuffer = <<>> /\ LogTail = logActive
      /\ logClock \in Nat /\ LogBytes(ToSet(LogTail)) <= LogMost
  BY <1>1, <1>2, LogTailIs DEF LogPlaces
<1>4. f \in LogFile /\ f.records = LogTail
  BY <1>3 DEF LogFile
<1> HIDE DEF f
<1>5. LogTail' = <<>> /\ LogPlaces'
  BY <1>1, <1>2, <1>3, LogEmptyTail
<1>6. LogMost' = LogMost
  BY <1>1 DEF LogMost
<1>7. LogCore(logTaken, logLost', logSealed', <<>>, LogMost)
  <2>1. CASE replaces
    <3>1. LogCore(logTaken, logLost \cup ToSet(Last(logSealed).records), Front(logSealed),
                  LogTail, LogMost)
      BY <1>2, <2>1, LogCoreReplaces
    <3>2. LogCore(logTaken, logLost \cup ToSet(Last(logSealed).records),
                  Append(Front(logSealed), f), <<>>, LogMost)
      BY <1>3, <1>4, <3>1, LogCoreSeals
    <3> QED BY <1>1, <2>1, <3>2
  <2>2. CASE ~replaces
    <3>1. LogCore(logTaken, logLost, Append(logSealed, f), <<>>, LogMost)
      BY <1>2, <1>3, <1>4, LogCoreSeals
    <3> QED BY <1>1, <2>2, <3>1
  <2> QED BY <2>1, <2>2
<1>8. LogCore(logTaken, logLost, logSealed, LogTail, LogMost)'
  BY <1>1, <1>5, <1>6, <1>7
<1> QED
  BY <1>5, <1>8 DEF LogHolds

\* The oldest files are deleted, and no file is stuck.
LEMMA LogCleanupStepKeeps ==
  ASSUME LogHolds, LogCleanup, ~logStuck' PROVE LogHolds'
<1>1. /\ logPc = "cleanup" /\ logPc' = "open" /\ logSealed' = Cleanup(logSealed, {})
      /\ UNCHANGED <<logActive, logBuffer, logClock, logStarts, logTaken, logLost>>
  BY DEF LogCleanup
<1>2. LogPlaces /\ LogCore(logTaken, logLost, logSealed, LogTail, LogMost)
  BY DEF LogHolds
<1>3. logActive = <<>> /\ logBuffer = <<>> /\ LogTail = <<>>
  <2>1. logActive = <<>> /\ logBuffer = <<>>
    BY <1>1, <1>2 DEF LogPlaces
  <2>2. LogTail = logActive
    BY <1>2, <2>1, LogTailIs
  <2> QED BY <2>1, <2>2
<1>4. LogTail' = LogTail /\ LogPlaces'
  BY <1>1, <1>2, <1>3, LogEmptyTail
<1>5. LogMost' = LogMost
  BY <1>1 DEF LogMost
<1>6. ToSet(LogTail) = {}
  BY <1>3, LogNothing
<1>7. /\ logSealed \in Seq(LogFile) /\ LogFilesInOrder(logSealed)
      /\ LogSet(LogContents(logSealed))
  BY <1>2, LogHeld DEF LogCore, LogOrdered
<1>8. PICK j : /\ LogPart(logSealed, Cleanup(logSealed, {}), j, Len(logSealed))
               /\ j > 1 => LogBytes(LogFrom(logSealed, j - 1)) > LogMaxTotal
  BY <1>7, LogCleanupKeeps
<1>9. LogCore(logTaken, logLost, Cleanup(logSealed, {}), LogTail, LogMost)
  BY <1>2, <1>6, <1>8, LogCoreDrops
<1>10. LogCore(logTaken, logLost, logSealed, LogTail, LogMost)'
  BY <1>1, <1>4, <1>5, <1>9
<1> QED
  BY <1>4, <1>10 DEF LogHolds

\* Every step keeps the log, unless a file was stuck.
LEMMA LogNextKeeps ==
  ASSUME LogInv, LogNext PROVE LogInv'
<1>1. CASE LogCleanup
  <2>1. logStuck' \in BOOLEAN
    BY <1>1 DEF LogCleanup, LogInv
  <2>2. ASSUME ~logStuck' PROVE LogHolds'
    <3>1. ~logStuck
      BY <1>1, <2>2 DEF LogCleanup
    <3>2. LogHolds
      BY <3>1 DEF LogInv
    <3> QED BY <1>1, <2>2, <3>2, LogCleanupStepKeeps
  <2> QED BY <2>1, <2>2 DEF LogInv
<1>2. CASE \/ \E size \in LogSizes : LogSink(size)
           \/ \E clean \in BOOLEAN : LogStop(clean)
           \/ LogOpen \/ LogFlush \/ LogRename \/ LogThrows \/ LogStart \/ LogTick
  <2>1. logStuck' = logStuck
    BY <1>2 DEF LogSink, LogStop, LogOpen, LogFlush, LogRename, LogThrows, LogStart, LogTick
  <2>2. ASSUME LogHolds PROVE LogHolds'
    <3>1. CASE \E size \in LogSizes : LogSink(size)
      BY <2>2, <3>1, LogSinkKeeps
    <3>2. CASE LogStop(FALSE)
      BY <2>2, <3>2, LogKillKeeps
    <3>3. CASE LogStop(TRUE)
      BY <2>2, <3>3, LogFlushKeeps
    <3>4. CASE LogFlush \/ LogThrows \/ LogTick
      BY <2>2, <3>4, LogFlushKeeps
    <3>5. CASE LogOpen
      BY <2>2, <3>5, LogOpenKeeps
    <3>6. CASE LogRename
      BY <2>2, <3>6, LogRenameKeeps
    <3>7. CASE LogStart
      BY <2>2, <3>7, LogStartKeeps
    <3> QED BY <1>2, <3>1, <3>2, <3>3, <3>4, <3>5, <3>6, <3>7
  <2> QED BY <2>1, <2>2 DEF LogInv
<1> QED
  BY <1>1, <1>2 DEF LogNext

\* The invariant is inductive.
LEMMA LogStep == LogInv /\ [LogNext]_logVars => LogInv'
<1> SUFFICES ASSUME LogInv, [LogNext]_logVars PROVE LogInv'
  OBVIOUS
<1>1. CASE LogNext
  BY <1>1, LogNextKeeps
<1>2. CASE UNCHANGED logVars
  BY <1>2 DEF logVars, LogInv, LogHolds, LogCore, LogPlaces, LogTail, LogMost
<1> QED
  BY <1>1, <1>2

\* The sealed files read one after the other.
LogJoined(files) == FlattenSeq([i \in DOMAIN files |-> files[i].records])

\* The sealed files read as one list are in order and hold what the files hold.
LEMMA LogJoinedIs ==
  ASSUME NEW files \in Seq(LogFile), LogFilesInOrder(files)
  PROVE  /\ LogJoined(files) \in Seq(LogRec) /\ LogUp(LogJoined(files))
         /\ ToSet(LogJoined(files)) = LogContents(files)
<1> DEFINE n == Len(files)
           seqs == [i \in 1..n |-> files[i].records]
<1>1. /\ n \in Nat /\ DOMAIN files = 1..n
      /\ \A i \in 1..n : files[i].records \in Seq(LogRec)
      /\ \A r : r \in LogContents(files) <=> \E i \in 1..n : r \in LogRecords(files[i])
  BY LogContentsIs
<1>2. seqs \in Seq(Seq(LogRec)) /\ Len(seqs) = n /\ \A i \in 1..n : seqs[i] = files[i].records
  <2>1. \A i \in 1..n : files[i].records \in Seq(LogRec)
    BY <1>1
  <2> HIDE DEF n
  <2>2. n \in Nat
    BY <1>1
  <2> QED BY <2>1, <2>2
<1>3. LogJoined(files) = FlattenSeq(seqs)
  BY <1>1 DEF LogJoined
<1> HIDE DEF seqs, n
<1>4. PICK it : Flattens(seqs, LogRec, it) /\ FlattenSeq(seqs) = it[Len(seqs)]
  BY <1>2, FlattenIs
<1>5. /\ it[0] = <<>> /\ \A k \in 0..n : it[k] \in Seq(LogRec)
      /\ \A k \in 1..n : it[k] = it[k - 1] \o files[k].records
  BY <1>2, <1>4 DEF Flattens
<1> DEFINE P == {k \in 0..n :
                   /\ LogUp(it[k])
                   /\ \A r : r \in ToSet(it[k]) <=> \E i \in 1..k : r \in LogRecords(files[i])}
<1>6. 0 \in P
  <2>1. ToSet(it[0]) = {} /\ LogUp(it[0])
    BY <1>5, LogNothing
  <2>2. 0 \in 0..n /\ \A i : i \notin 1..0
    BY <1>1
  <2> QED BY <2>1, <2>2
<1>7. ASSUME NEW k \in 0..n - 1, k \in P PROVE k + 1 \in P
  <2>1. PICK m : m = k + 1
    OBVIOUS
  <2>2. /\ k \in 0..n /\ m \in 1..n /\ m \in 0..n /\ m - 1 = k /\ m \notin 1..k
        /\ \A i : i \in 1..m <=> i \in 1..k \/ i = m
        /\ \A i \in 1..k : i \in 1..n /\ i < m
    BY <1>1, <2>1
  <2>3. PICK a \in Seq(LogRec) : a = it[k]
    BY <1>5, <2>2
  <2>4. PICK b \in Seq(LogRec) : b = files[m].records
    BY <1>1, <2>2
  <2>5. it[m] = a \o b
    BY <1>5, <2>2, <2>3, <2>4
  <2>6. LogUp(a) /\ \A r : r \in ToSet(a) <=> \E i \in 1..k : r \in LogRecords(files[i])
    BY <1>7, <2>3
  <2>7. LogUp(b) /\ ToSet(b) = LogRecords(files[m])
    BY <1>1, <2>2, <2>4 DEF LogFilesInOrder, LogRecords, n
  <2>8. LogBelow(ToSet(a), ToSet(b))
    <3>1. ASSUME NEW x \in ToSet(a), NEW y \in ToSet(b) PROVE x.id < y.id
      <4>1. PICK i \in 1..k : x \in LogRecords(files[i])
        BY <2>6
      <4>2. LogBelow(LogRecords(files[i]), LogRecords(files[m]))
        BY <2>2 DEF LogFilesInOrder, n
      <4> QED BY <2>7, <4>1, <4>2 DEF LogBelow
    <3> QED BY <3>1 DEF LogBelow
  <2>9. LogUp(it[m]) /\ ToSet(it[m]) = ToSet(a) \cup ToSet(b)
    BY <2>5, <2>6, <2>7, <2>8, LogUpJoin, LogSetJoin
  <2>10. \A r : r \in ToSet(it[m]) <=> \E i \in 1..m : r \in LogRecords(files[i])
    BY <2>2, <2>6, <2>7, <2>9
  <2>11. m \in P
    BY <2>2, <2>9, <2>10
  <2> QED BY <2>1, <2>11
<1>8. n \in P
  <2>1. n \in 0..n
    BY <1>1
  <2> HIDE DEF P
  <2> QED BY <1>1, <1>6, <1>7, <2>1, NaturalsUpTo
<1>9. LogJoined(files) = it[n]
  BY <1>2, <1>3, <1>4
<1>10. n \in 0..n /\ it[n] \in Seq(LogRec)
  BY <1>1, <1>5
<1>11. ToSet(it[n]) = LogContents(files)
  BY <1>1, <1>8
<1> QED
  BY <1>8, <1>9, <1>10, <1>11

\* What is read in the files is then what was logged last.
LEMMA LogInvShows == LogInv => LogKeepsTheNewest
<1> SUFFICES ASSUME LogInv, ~logStuck PROVE LogKeepsTheNewest
  BY DEF LogKeepsTheNewest
<1>1. LogPlaces /\ LogCore(logTaken, logLost, logSealed, LogTail, LogMost)
  BY DEF LogInv, LogHolds
<1>2. /\ LogTook(logTaken) /\ logSealed \in Seq(LogFile) /\ LogTail \in Seq(LogRec)
      /\ LogMost \in Nat /\ LogFilesInOrder(logSealed) /\ LogUp(LogTail)
      /\ LogBelow(LogContents(logSealed), ToSet(LogTail))
      /\ LogKeeps(logTaken, logLost, LogContents(logSealed) \cup ToSet(LogTail), LogMost)
  BY <1>1 DEF LogCore, LogOrdered
<1> DEFINE j == LogJoined(logSealed)
<1>3. j \in Seq(LogRec) /\ LogUp(j) /\ ToSet(j) = LogContents(logSealed)
  BY <1>2, LogJoinedIs
<1>4. LogKept = j \o LogTail
  BY DEF LogKept, LogJoined, LogTail
<1> HIDE DEF j
<1>5. LogKept \in Seq(LogRec) /\ ToSet(LogKept) = ToSet(j) \cup ToSet(LogTail)
  BY <1>2, <1>3, <1>4, LogSetJoin
<1>6. LogUp(LogKept)
  BY <1>2, <1>3, <1>4, LogUpJoin
<1>7. DOMAIN LogKept = 1..Len(LogKept)
  BY <1>5
<1>8. \A a, b \in DOMAIN LogKept : a < b => LogKept[a].id < LogKept[b].id
  BY <1>6, <1>7 DEF LogUp
<1>9. PICK p \in 1..Len(logTaken) + 1 :
             /\ LogContents(logSealed) \cup ToSet(LogTail) = LogSinceOf(logTaken, p) \ logLost
             /\ p > 1 => LogBytes(LogSinceOf(logTaken, p)) > LogMaxTotal - LogMost
  BY <1>2 DEF LogKeeps
<1>10. \A i : LogSince(i) = LogSinceOf(logTaken, i)
  BY DEF LogSince, LogSinceOf
<1>11. ToSet(LogKept) = LogSince(p) \ logLost
  BY <1>3, <1>5, <1>9, <1>10
<1>12. /\ Len(logTaken) \in Nat /\ logTaken \in Seq(LogRec)
       /\ \A i \in 1..Len(logTaken) : logTaken[i] \in ToSet(logTaken) /\ logTaken[i].id = i
       /\ \A i \in 1..Len(logTaken) + 1 : \A r :
            r \in LogSinceOf(logTaken, i) <=> r \in ToSet(logTaken) /\ r.id >= i
       /\ \A i \in 1..Len(logTaken) + 1 : LogSet(LogSinceOf(logTaken, i))
       /\ \A r \in ToSet(logTaken) : r.id \in Nat
  <2>1. /\ Len(logTaken) \in Nat /\ logTaken \in Seq(LogRec)
        /\ \A i \in 1..Len(logTaken) : logTaken[i].id = i
    BY <1>2, LogSinceIs DEF LogTook
  <2>2. \A i \in 1..Len(logTaken) : logTaken[i] \in ToSet(logTaken)
    BY <2>1, LogSeqSet
  <2> QED BY <1>2, <2>1, <2>2, LogSinceIs
<1>13. ASSUME NEW i \in DOMAIN logTaken, logTaken[i] \notin ToSet(LogKept) \cup logLost
       PROVE  LogBytes(LogSince(i + 1)) > LogMaxTotal - LogMost
  <2>1. i \in 1..Len(logTaken) /\ i + 1 \in 1..Len(logTaken) + 1
    BY <1>12
  <2>2. logTaken[i] \notin LogSinceOf(logTaken, p)
    BY <1>10, <1>11, <1>13
  <2>3. ~(i >= p)
    BY <1>12, <2>1, <2>2
  <2>4. p > 1 /\ i + 1 <= p
    BY <1>12, <2>1, <2>3
  <2>5. PICK k \in 1..Len(logTaken) + 1 : k = i + 1
    BY <2>1
  <2>6. k <= p /\ k \in Nat /\ p \in Nat
    BY <1>12, <2>4, <2>5
  <2>7. LogSinceOf(logTaken, p) \subseteq LogSinceOf(logTaken, k)
    <3>1. ASSUME NEW r \in LogSinceOf(logTaken, p) PROVE r \in LogSinceOf(logTaken, k)
      <4>1. r \in ToSet(logTaken) /\ r.id >= p /\ r.id \in Nat
        BY <1>12
      <4>2. r.id >= k
        BY <2>6, <4>1
      <4> QED BY <1>12, <4>1, <4>2
    <3> QED BY <3>1
  <2>8. /\ LogBytes(LogSinceOf(logTaken, p)) <= LogBytes(LogSinceOf(logTaken, k))
        /\ LogBytes(LogSinceOf(logTaken, p)) \in Nat /\ LogBytes(LogSinceOf(logTaken, k)) \in Nat
    BY <1>12, <2>7, LogBytesGrow
  <2>9. LogBytes(LogSinceOf(logTaken, p)) > LogMaxTotal - LogMost
    BY <1>9, <2>4
  <2>10. LogBytes(LogSinceOf(logTaken, k)) > LogMaxTotal - LogMost
    <3>1. LogMaxTotal \in Nat /\ LogMost \in Nat
      BY <1>2, LogAssumption
    <3> QED BY <2>8, <2>9, <3>1
  <2> QED BY <1>10, <2>5, <2>10
<1>14. \E i \in 1..Len(logTaken) + 1 : ToSet(LogKept) = LogSince(i) \ logLost
  BY <1>11
<1> QED
  BY <1>8, <1>13, <1>14 DEF LogKeepsTheNewest

\* For every limit of the files, every size of a record, every clock and any number of
\* restarts: the files of a log hold the end of what was logged, in order.
THEOREM LogKeepsNewest == LogSpec => []LogKeepsTheNewest
<1>1. LogInit => LogInv
  BY LogInitInv
<1>2. LogInv /\ [LogNext]_logVars => LogInv'
  BY LogStep
<1>3. LogInv => LogKeepsTheNewest
  BY LogInvShows
<1> QED
  BY <1>1, <1>2, <1>3, PTL DEF LogSpec

-----------------------------------------------------------------------------
(* The types of the skills *)

SkListType == Seq([place : 1..Len(SkPlaces), name : SkNames])
SkCallTyped(call) ==
  /\ DOMAIN call = DOMAIN SkIdle /\ call.list \in SkListType
SkTyped ==
  /\ DOMAIN skFiles \subseteq 1..Len(SkPlaces)
  /\ \A i \in DOMAIN skFiles : skFiles[i].name \in SkNames
  /\ skDisabled \subseteq SkNames /\ skOps \in 0..SkMaxOps
  /\ skCache.valid \in BOOLEAN /\ skCache.list \in SkListType
  /\ DOMAIN skCall = SkThreads /\ \A t \in SkThreads : SkCallTyped(skCall[t])

\* A listing is of places, under names.
LEMMA SkListingTyped ==
  ASSUME DOMAIN skFiles \subseteq 1..Len(SkPlaces),
         \A i \in DOMAIN skFiles : skFiles[i].name \in SkNames
  PROVE  SkListed(TRUE) \in SkListType
<1>1. PICK acc \in SkAccs(skFiles, skDisabled) : SkScanOf(skFiles, skDisabled) = acc.list
  BY SkScanOfTheFiles
<1>2. /\ acc.list \in Seq(1..Len(SkPlaces))
      /\ \A m \in 1..Len(acc.list) : acc.list[m] \in DOMAIN skFiles
  BY DEF SkAccs, SkScanned
<1>3. Len(acc.list) \in Nat
  BY <1>2
<1> DEFINE list == [n \in 1..Len(acc.list) |->
                      [place |-> acc.list[n], name |-> skFiles[acc.list[n]].name]]
<1>4. \A n \in 1..Len(acc.list) :
        [place |-> acc.list[n], name |-> skFiles[acc.list[n]].name]
          \in [place : 1..Len(SkPlaces), name : SkNames]
  BY <1>2
<1>5. list \in SkListType
  BY <1>3, <1>4 DEF SkListType
<1> QED
  BY <1>1, <1>5, SkListedIsOfTheFiles DEF SkListOf

\* What a search finds is in the list.
LEMMA SkFindTyped ==
  ASSUME NEW list \in SkListType, NEW name, SkFind(list, name) # 0
  PROVE  list[SkFind(list, name)] \in [place : 1..Len(SkPlaces), name : SkNames]
<1> DEFINE I == {i \in 1..Len(list) : SkMatches(list[i], name)}
<1>1. SkFind(list, name) = IF I # {} THEN Min(I) ELSE 0
  BY DEF SkFind, SelectInSeq
<1>2. I # {} /\ I \subseteq Nat
  BY <1>1
<1>3. SkFind(list, name) \in I
  <2> HIDE DEF I
  <2> QED BY <1>1, <1>2, MinOfNaturals
<1>4. SkFind(list, name) \in 1..Len(list)
  BY <1>3
<1> HIDE DEF I
<1>5. PICK n, T : n = SkFind(list, name) /\ T = [place : 1..Len(SkPlaces), name : SkNames]
  OBVIOUS
<1>6. list \in Seq(T) /\ n \in 1..Len(list)
  BY <1>4, <1>5 DEF SkListType
<1>7. list[n] \in T
  BY ONLY <1>6
<1> QED
  BY <1>5, <1>7

\* A step of a call: the others are as they were.
LEMMA SkCallsTyped ==
  ASSUME SkTyped, NEW t \in SkThreads, NEW call, SkCallTyped(call), SkGo(t, call)
  PROVE  DOMAIN skCall' = SkThreads /\ \A o \in SkThreads : SkCallTyped(skCall'[o])
<1>1. /\ DOMAIN skCall' = SkThreads /\ skCall'[t] = call
      /\ \A o \in SkThreads \ {t} : skCall'[o] = skCall[o]
  BY DEF SkTyped, SkGo
<1> QED
  BY <1>1 DEF SkTyped

\* What a thread and the cache hold at the start.
LEMMA SkIdleTyped ==
  SkCallTyped(SkIdle) /\ SkNoCache.valid = FALSE /\ SkNoCache.list \in SkListType
<1>1. <<>> \in SkListType
  BY DEF SkListType
<1> QED
  BY <1>1 DEF SkCallTyped, SkIdle, SkNoCache

\* A thread begins a call.
LEMMA SkBeginTyped ==
  ASSUME SkTyped, NEW t \in SkThreads, NEW name,
         \/ SkillsListTool(t) \/ SkillViewTool(t, name) \/ SkillManageTool(t, name)
         \/ SkillsCommand(t, name) \/ SkillsDialog(t, name)
  PROVE  SkTyped'
<1>1. PICK op, arg, pc : SkBegin(t, op, arg, pc)
  BY Zenon DEF SkillsListTool, SkillViewTool, SkillManageTool, SkillsCommand, SkillsDialog
<1> DEFINE call == [SkIdle EXCEPT !.op = op, !.name = arg, !.pc = pc]
<1>2. /\ skOps < SkMaxOps /\ skOps' = skOps + 1 /\ SkGo(t, call)
      /\ UNCHANGED <<skFiles, skDisabled, skCache>>
  BY <1>1 DEF SkBegin
<1>3. SkCallTyped(call)
  <2>1. /\ DOMAIN call = DOMAIN SkIdle /\ call.list = <<>>
    BY DEF SkIdle
  <2>2. <<>> \in SkListType
    BY DEF SkListType
  <2> HIDE DEF call
  <2> QED BY <1>1, <2>1, <2>2 DEF SkCallTyped
<1> HIDE DEF call
<1>4. DOMAIN skCall' = SkThreads /\ \A o \in SkThreads : SkCallTyped(skCall'[o])
  BY <1>2, <1>3, SkCallsTyped
<1>5. skOps' \in 0..SkMaxOps
  BY <1>2, SkAssumption DEF SkTyped
<1> QED
  BY <1>2, <1>4, <1>5 DEF SkTyped

\* The steps of a listing.
LEMMA SkScansTyped ==
  ASSUME SkTyped, NEW t \in SkThreads, SkKey(t) \/ SkScan(t) \/ SkKeep(t)
  PROVE  SkTyped'
<1>1. SkCallTyped(skCall[t]) /\ skCache.list \in SkListType
  BY DEF SkTyped
<1>2. SkListed(TRUE) \in SkListType
  BY SkListingTyped DEF SkTyped
<1>3. UNCHANGED <<skFiles, skDisabled, skOps>>
  BY DEF SkKey, SkScan, SkKeep
<1>4. /\ skCache'.valid \in BOOLEAN /\ skCache'.list \in SkListType
  <2>1. CASE SkKeep(t)
    <3>1. skCache'.valid = TRUE /\ skCache'.list = skCall[t].list
      BY <2>1 DEF SkKeep
    <3> QED BY <1>1, <3>1 DEF SkCallTyped
  <2>2. CASE UNCHANGED skCache
    BY <2>2 DEF SkTyped
  <2> QED BY <2>1, <2>2 DEF SkKey, SkScan
<1>5. PICK call : /\ SkGo(t, call)
                  /\ \/ call = [skCall[t] EXCEPT !.pc = "found", !.list = skCache.list]
                     \/ call = [skCall[t] EXCEPT !.pc = "scan", !.key = BuildCacheKey]
                     \/ call = [skCall[t] EXCEPT !.pc = "keep", !.list = SkListed(TRUE),
                                                 !.seen = CollectSkillFiles]
                     \/ call = [skCall[t] EXCEPT !.pc = "found"]
  <2>1. CASE SkKey(t)
    BY <2>1, Zenon DEF SkKey
  <2>2. CASE SkScan(t)
    BY <2>2, Zenon DEF SkScan
  <2>3. CASE SkKeep(t)
    BY <2>3, Zenon DEF SkKeep
  <2> QED BY <2>1, <2>2, <2>3
<1>6. SkCallTyped(call)
  <2>1. /\ DOMAIN call = DOMAIN skCall[t]
        /\ call.list \in {skCache.list, skCall[t].list, SkListed(TRUE)}
    <3>1. DOMAIN skCall[t] = {"op", "name", "pc", "key", "list", "seen"}
      BY <1>1 DEF SkCallTyped, SkIdle
    <3> QED BY <1>5, <3>1
  <2> QED BY <1>1, <1>2, <2>1 DEF SkCallTyped
<1>7. DOMAIN skCall' = SkThreads /\ \A o \in SkThreads : SkCallTyped(skCall'[o])
  BY <1>5, <1>6, SkCallsTyped
<1> QED
  BY <1>3, <1>4, <1>7 DEF SkTyped

\* A file is written under one of the names.
LEMMA SkWriteTyped ==
  ASSUME SkTyped, NEW i \in 1..Len(SkPlaces), NEW name \in SkNames, NEW fits,
         SkWrite(i, name, fits)
  PROVE  /\ DOMAIN skFiles' \subseteq 1..Len(SkPlaces)
         /\ \A p \in DOMAIN skFiles' : skFiles'[p].name \in SkNames
<1>1. /\ DOMAIN skFiles' = DOMAIN skFiles \cup {i}
      /\ \A p \in DOMAIN skFiles' : skFiles'[p].name = name \/ skFiles'[p] = skFiles[p]
      /\ \A p \in DOMAIN skFiles' : p # i => p \in DOMAIN skFiles /\ skFiles'[p] = skFiles[p]
      /\ skFiles'[i].name = name
  BY DEF SkWrite
<1> QED
  BY <1>1 DEF SkTyped

\* The end of a call, which may drop the cache.
LEMMA SkWorkTyped ==
  ASSUME SkTyped, NEW t \in SkThreads,
         \/ SkReturn(t) \/ SkRemove(t) \/ SkDisable(t) \/ SkEnable(t) \/ SkCreate(t)
         \/ \E name \in SkNames : SkUpdate(t, name)
  PROVE  SkTyped'
<1>1. SkDone(t) /\ UNCHANGED skOps /\ (InvalidateCache \/ UNCHANGED skCache)
  BY DEF SkReturn, SkRemove, SkDisable, SkEnable, SkCreate, SkUpdate
<1>2. DOMAIN skCall' = SkThreads /\ \A o \in SkThreads : SkCallTyped(skCall'[o])
  BY <1>1, SkIdleTyped, SkCallsTyped DEF SkDone
<1>3. skCache'.valid \in BOOLEAN /\ skCache'.list \in SkListType
  BY <1>1, SkIdleTyped DEF InvalidateCache, SkTyped
<1>4. SkCallTyped(skCall[t])
  BY DEF SkTyped
<1>5. SkFoundAt(t) # 0 => SkFound(t).place \in 1..Len(SkPlaces) /\ SkFound(t).name \in SkNames
  BY <1>4, SkFindTyped DEF SkFoundAt, SkFound, SkCallTyped
<1>6. /\ DOMAIN skFiles' \subseteq 1..Len(SkPlaces)
      /\ \A p \in DOMAIN skFiles' : skFiles'[p].name \in SkNames
  <2>1. CASE UNCHANGED skFiles
    BY <2>1 DEF SkTyped
  <2>2. CASE SkRemove(t)
    BY <2>2 DEF SkRemove, SkTyped
  <2>3. ASSUME NEW name \in SkNames, SkUpdate(t, name)
        PROVE  /\ DOMAIN skFiles' \subseteq 1..Len(SkPlaces)
               /\ \A p \in DOMAIN skFiles' : skFiles'[p].name \in SkNames
    <3>1. PICK new, fits : new \in SkNames /\ SkWrite(SkFound(t).place, new, fits)
      BY <2>3 DEF SkUpdate, SkTyped
    <3>2. SkFound(t).place \in 1..Len(SkPlaces)
      BY <1>5, <2>3 DEF SkUpdate
    <3> QED BY <3>1, <3>2, SkWriteTyped
  <2>4. CASE SkCreate(t) /\ ~UNCHANGED skFiles
    <3> DEFINE target == [root |-> SkPrimary, dir |-> skCall[t].name]
               I == {k \in 1..Len(SkPlaces) : SkPlaces[k] = target}
               i == SelectInSeq(SkPlaces, LAMBDA p : p = target)
    <3>1. i # 0 /\ SkWrite(i, skCall[t].name, TRUE)
      BY <2>4, Zenon DEF SkCreate
    <3>2. i = IF I # {} THEN Min(I) ELSE 0
      BY DEF SelectInSeq
    <3>3. I # {} /\ I \subseteq Nat
      BY <3>1, <3>2
    <3>4. Min(I) \in I
      <4> HIDE DEF I
      <4> QED BY <3>3, MinOfNaturals
    <3>5. i \in 1..Len(SkPlaces)
      BY <3>2, <3>3, <3>4
    <3>6. skCall[t].name \in SkNames
      <4>1. SkPlaces[i].dir = skCall[t].name
        BY <3>2, <3>3, <3>4
      <4> HIDE DEF i
      <4> QED BY <3>5, <4>1, SkDirsAreNames
    <3> HIDE DEF i
    <3> QED BY <3>1, <3>5, <3>6, SkWriteTyped
  <2> QED BY <2>1, <2>2, <2>3, <2>4 DEF SkReturn, SkDisable, SkEnable
<1>7. skDisabled' \subseteq SkNames
  BY <1>5 DEF SkReturn, SkRemove, SkDisable, SkEnable, SkCreate, SkUpdate, SkTyped
<1> QED
  BY <1>1, <1>2, <1>3, <1>6, <1>7 DEF SkTyped

\* The files are changed by somebody else.
LEMMA SkOutsideTyped ==
  ASSUME SkTyped, NEW i \in 1..Len(SkPlaces),
         SkErase(i) \/ \E name \in SkNames, fits \in BOOLEAN : SkEdit(i, name, fits)
  PROVE  SkTyped'
<1>1. /\ skOps < SkMaxOps /\ skOps' = skOps + 1 /\ UNCHANGED <<skDisabled, skCache, skCall>>
  BY DEF SkErase, SkEdit
<1>2. skOps' \in 0..SkMaxOps
  BY <1>1, SkAssumption DEF SkTyped
<1>3. /\ DOMAIN skFiles' \subseteq 1..Len(SkPlaces)
      /\ \A p \in DOMAIN skFiles' : skFiles'[p].name \in SkNames
  BY DEF SkErase, SkEdit, SkTyped
<1> QED
  BY <1>1, <1>2, <1>3 DEF SkTyped

\* Skills have their types: files are at places, and disabled are names (SkillManager).
LEMMA SkTypesHold == SkSpec => []SkTypeOK
<1>1. SkInit => SkTyped
  <2> SUFFICES ASSUME SkInit PROVE SkTyped
    OBVIOUS
  <2>1. /\ DOMAIN skFiles \subseteq 1..Len(SkPlaces)
        /\ \A i \in DOMAIN skFiles : skFiles[i].name \in SkNames
    BY SkDirsAreNames DEF SkInit
  <2>2. skOps \in 0..SkMaxOps /\ skDisabled \subseteq SkNames
    BY SkAssumption DEF SkInit
  <2> QED BY <2>1, <2>2, SkIdleTyped DEF SkInit, SkTyped
<1>2. SkTyped /\ [SkNext]_skVars => SkTyped'
  <2>1. SkTyped /\ UNCHANGED skVars => SkTyped'
    BY DEF SkTyped, skVars
  <2>2. SkTyped /\ SkNext => SkTyped'
    <3> SUFFICES ASSUME SkTyped, SkNext PROVE SkTyped'
      OBVIOUS
    <3> QED BY SkBeginTyped, SkScansTyped, SkWorkTyped, SkOutsideTyped, Zenon DEF SkNext
  <2> QED BY <2>1, <2>2
<1>3. SkTyped => SkTypeOK
  BY DEF SkTyped, SkTypeOK
<1> QED
  BY <1>1, <1>2, <1>3, PTL DEF SkSpec

-----------------------------------------------------------------------------
(* The types of the log *)

\* The files hold finitely many records.
LEMMA LogContentsFinite ==
  ASSUME NEW files \in Seq(LogFile)
  PROVE  LogSet(LogContents(files)) /\ LogTotal(files) \in Nat
<1> DEFINE n == Len(files)
           Part(k) == {r \in LogRec : \E i \in 1..k : r \in LogRecords(files[i])}
           P == {k \in 0..n : IsFiniteSet(Part(k))}
<1>1. /\ n \in Nat
      /\ \A i \in 1..n : LogSet(LogRecords(files[i]))
      /\ \A r : r \in LogContents(files) <=> \E i \in 1..n : r \in LogRecords(files[i])
  BY LogContentsIs
<1>2. 0 \in P
  <2>1. Part(0) = {} /\ 0 \in 0..n
    BY <1>1
  <2> QED BY <2>1, FS_EmptySet
<1>3. ASSUME NEW k \in 0..n - 1, k \in P PROVE k + 1 \in P
  <2>1. /\ k + 1 \in 1..n /\ k + 1 \in 0..n
        /\ \A i : i \in 1..k + 1 <=> i \in 1..k \/ i = k + 1
    BY <1>1
  <2>2. LogSet(LogRecords(files[k + 1]))
    BY <1>1, <2>1
  <2>3. Part(k + 1) = Part(k) \cup LogRecords(files[k + 1])
    BY <2>1, <2>2 DEF LogSet
  <2>4. IsFiniteSet(Part(k) \cup LogRecords(files[k + 1]))
    BY <1>3, <2>2, FS_Union DEF LogSet
  <2> QED BY <2>1, <2>3, <2>4
<1>4. n \in P
  <2> HIDE DEF P, n
  <2>1. \A k \in 0..n : k \in P
    BY <1>1, <1>2, <1>3, NaturalsUpTo
  <2>2. n \in 0..n
    BY <1>1
  <2> QED BY <2>1, <2>2
<1>5. LogContents(files) = Part(n)
  BY <1>1 DEF LogSet
<1>6. LogSet(LogContents(files))
  BY <1>4, <1>5 DEF LogSet
<1> QED
  BY <1>6, LogBytesNat DEF LogTotal

\* The cleanup keeps files, whatever cannot be deleted.
LEMMA LogCleanupTyped ==
  ASSUME NEW files \in Seq(LogFile), NEW stuck
  PROVE  Cleanup(files, stuck) \in Seq(LogFile)
<1>1. PICK it : LogWalks(files, stuck, it) /\ LogCleaned(files, stuck) = it[Len(files)]
  BY LogContentsFinite, LogCleanedIs
<1>2. Len(files) \in 0..Len(files)
  OBVIOUS
<1>3. LogCleaned(files, stuck) \in LogAccs
  BY <1>1, <1>2 DEF LogWalks
<1> QED
  BY <1>3, LogCleanupIs DEF LogAccs

LogTyped ==
  /\ logPc \in {"on", "off", "down", "open", "rename", "cleanup"}
  /\ logCount \in Nat /\ logClock \in Nat /\ logStarts \in Nat
  /\ logActive \in Seq(LogRec) /\ logBuffer \in Seq(LogRec) /\ logTaken \in Seq(LogRec)
  /\ logSealed \in Seq(LogFile) /\ logLost \subseteq LogRec /\ logStuck \in BOOLEAN

\* A record is buffered.
LEMMA LogSinkTyped ==
  ASSUME LogTyped, NEW size \in LogSizes, LogSink(size)
  PROVE  LogTyped'
<1>1. PICK r : r = [id |-> Len(logTaken) + 1, size |-> size]
  OBVIOUS
<1>2. /\ logTaken' = Append(logTaken, r) /\ logCount' = logCount + size
      /\ logPc' \in {"rename", "on"}
      /\ logActive' \in {Append(logActive \o logBuffer, r), logActive}
      /\ logBuffer' \in {<<>>, Append(logBuffer, r)}
      /\ UNCHANGED <<logSealed, logClock, logStarts, logLost, logStuck>>
  BY <1>1 DEF LogSink
<1>3. /\ logTaken \in Seq(LogRec) /\ logActive \in Seq(LogRec) /\ logBuffer \in Seq(LogRec)
      /\ logCount \in Nat /\ size \in Nat
  BY LogAssumption DEF LogTyped
<1>4. r \in LogRec
  BY <1>1, <1>3 DEF LogRec
<1>5. /\ Append(logTaken, r) \in Seq(LogRec) /\ Append(logBuffer, r) \in Seq(LogRec)
      /\ Append(logActive \o logBuffer, r) \in Seq(LogRec)
      /\ <<>> \in Seq(LogRec)
  <2>1. logActive \o logBuffer \in Seq(LogRec)
    BY <1>3, LogSetJoin
  <2>2. <<>> \in Seq(LogRec)
    OBVIOUS
  <2> QED BY <1>3, <1>4, <2>1, <2>2, AppendProperties
<1>6. logCount + size \in Nat
  BY <1>3
<1> QED
  BY <1>2, <1>3, <1>5, <1>6 DEF LogTyped

\* The active file is sealed.
LEMMA LogRenameTyped ==
  ASSUME LogTyped, LogRename
  PROVE  LogTyped'
<1>1. PICK sealed, n :
        sealed = [second |-> logClock, records |-> logActive] /\ n = Len(logSealed)
  OBVIOUS
<1>2. /\ logSealed \in Seq(LogFile) /\ n \in Nat /\ \A i \in 1..n : logSealed[i] \in LogFile
      /\ logClock \in Nat /\ logActive \in Seq(LogRec) /\ logLost \subseteq LogRec
  <2>1. logSealed \in Seq(LogFile)
    BY DEF LogTyped
  <2>2. n \in Nat /\ \A i \in 1..n : logSealed[i] \in LogFile
    BY <1>1, <2>1
  <2> QED BY <2>1, <2>2 DEF LogTyped
<1>3. sealed \in LogFile
  BY <1>1, <1>2 DEF LogFile
<1>4. /\ logActive' = <<>> /\ logPc' = "cleanup"
      /\ UNCHANGED <<logBuffer, logCount, logClock, logStarts, logTaken, logStuck>>
  BY DEF LogRename
<1>5. CASE logSealed # <<>> /\ Last(logSealed).second = logClock
  <2>1. /\ logSealed' = Append(Front(logSealed), sealed)
        /\ logLost' = logLost \cup ToSet(Last(logSealed).records)
    BY <1>1, <1>5 DEF LogRename
  <2>2. Last(logSealed) \in LogFile
    <3>1. n > 0
      BY <1>1, <1>2, <1>5, EmptySeq
    <3> QED BY <1>1, <1>2, <3>1 DEF Last
  <2>3. Front(logSealed) \in Seq(LogFile)
    <3>1. n > 0 /\ n - 1 \in Nat
      BY <1>1, <1>2, <1>5, EmptySeq
    <3> QED BY <1>1, <1>2, <3>1 DEF Front
  <2>4. Append(Front(logSealed), sealed) \in Seq(LogFile)
    BY <1>3, <2>3, AppendProperties
  <2>5. ToSet(Last(logSealed).records) \subseteq LogRec
    BY <2>2, LogSeqSet DEF LogFile, LogSet
  <2>6. logLost' \subseteq LogRec
    BY <1>2, <2>1, <2>5
  <2>7. <<>> \in Seq(LogRec)
    OBVIOUS
  <2> QED BY <1>4, <2>1, <2>4, <2>6, <2>7 DEF LogTyped
<1>6. CASE ~(logSealed # <<>> /\ Last(logSealed).second = logClock)
  <2>1. logSealed' = Append(logSealed, sealed) /\ logLost' = logLost
    BY <1>1, <1>6 DEF LogRename
  <2>2. Append(logSealed, sealed) \in Seq(LogFile) /\ <<>> \in Seq(LogRec)
    BY <1>2, <1>3, AppendProperties
  <2> QED BY <1>4, <2>1, <2>2 DEF LogTyped
<1> QED
  BY <1>5, <1>6

\* The other steps of the writer, and of the clock.
LEMMA LogOthersTyped ==
  ASSUME LogTyped,
         \/ \E clean \in BOOLEAN : LogStop(clean)
         \/ LogOpen \/ LogFlush \/ LogCleanup \/ LogThrows \/ LogStart \/ LogTick
  PROVE  LogTyped'
<1>1. /\ logActive \in Seq(LogRec) /\ logBuffer \in Seq(LogRec) /\ logTaken \in Seq(LogRec)
      /\ logSealed \in Seq(LogFile) /\ <<>> \in Seq(LogRec) /\ logLost \subseteq LogRec
      /\ logActive \o logBuffer \in Seq(LogRec)
  <2>1. logActive \in Seq(LogRec) /\ logBuffer \in Seq(LogRec) /\ <<>> \in Seq(LogRec)
    BY DEF LogTyped
  <2> QED BY <2>1, LogSetJoin DEF LogTyped
<1>2. logPc' \in {"on", "off", "down", "open", "rename", "cleanup"}
  BY DEF LogTyped, LogStop, LogOpen, LogFlush, LogCleanup, LogThrows, LogStart, LogTick
<1>3. logCount' \in Nat
  <2>1. LogBytes(ToSet(logActive)) \in Nat
    BY <1>1, LogSeqSet, LogBytesNat
  <2>2. logCount' \in {0, logCount, LogBytes(ToSet(logActive))}
    BY DEF LogStop, LogOpen, LogFlush, LogCleanup, LogThrows, LogStart, LogTick
  <2> QED BY <2>1, <2>2 DEF LogTyped
<1>4. logClock' \in Nat /\ logStarts' \in Nat
  BY DEF LogTyped, LogStop, LogOpen, LogFlush, LogCleanup, LogThrows, LogStart, LogTick
<1>5. /\ logActive' \in {logActive, logActive \o logBuffer} /\ logBuffer' \in {logBuffer, <<>>}
      /\ logTaken' = logTaken
  BY DEF LogStop, LogOpen, LogFlush, LogCleanup, LogThrows, LogStart, LogTick
<1>6. logSealed' \in Seq(LogFile)
  <2>1. CASE LogCleanup
    <3>1. PICK stuck : logSealed' = Cleanup(logSealed, stuck)
      BY <2>1 DEF LogCleanup
    <3> QED BY <1>1, <3>1, LogCleanupTyped
  <2>2. CASE UNCHANGED logSealed
    BY <1>1, <2>2
  <2> QED BY <2>1, <2>2 DEF LogStop, LogOpen, LogFlush, LogThrows, LogStart, LogTick
<1>7. logLost' \subseteq LogRec
  <2>1. ToSet(logBuffer) \subseteq LogRec
    BY <1>1, LogSeqSet DEF LogSet
  <2>2. logLost' \in {logLost, logLost \cup ToSet(logBuffer)}
    BY DEF LogStop, LogOpen, LogFlush, LogCleanup, LogThrows, LogStart, LogTick
  <2> QED BY <1>1, <2>1, <2>2
<1>8. logStuck' \in BOOLEAN
  BY DEF LogTyped, LogStop, LogOpen, LogFlush, LogCleanup, LogThrows, LogStart, LogTick
<1> QED
  BY <1>1, <1>2, <1>3, <1>4, <1>5, <1>6, <1>7, <1>8 DEF LogTyped

\* The log has its types, also when a file could not be deleted (RotatingSink).
LEMMA LogTypesHold == LogSpec => []LogTypeOK
<1>1. LogInit => LogTyped
  <2> SUFFICES ASSUME LogInit PROVE LogTyped
    OBVIOUS
  <2>1. <<>> \in Seq(LogRec) /\ <<>> \in Seq(LogFile)
    OBVIOUS
  <2> QED BY <2>1 DEF LogInit, LogTyped
<1>2. LogTyped /\ [LogNext]_logVars => LogTyped'
  <2>1. LogTyped /\ UNCHANGED logVars => LogTyped'
    BY DEF LogTyped, logVars
  <2> QED BY <2>1, LogSinkTyped, LogRenameTyped, LogOthersTyped, Zenon DEF LogNext
<1>3. LogTyped => LogTypeOK
  <2> SUFFICES ASSUME LogTyped PROVE LogTypeOK
    OBVIOUS
  <2>1. /\ ToSet(logActive) \subseteq LogRec /\ ToSet(logBuffer) \subseteq LogRec
        /\ ToSet(logTaken) \subseteq LogRec /\ logLost \subseteq LogRec
    BY LogSeqSet DEF LogTyped, LogSet
  <2>2. \A r \in LogRec : r.id \in Nat /\ r.size \in LogSizes
    BY DEF LogRec
  <2>3. \A f \in ToSet(logSealed) : f.second \in Nat
    <3>1. logSealed \in Seq(LogFile)
      BY DEF LogTyped
    <3>2. \A f \in ToSet(logSealed) : f \in LogFile
      BY <3>1 DEF ToSet
    <3> QED BY <3>2 DEF LogFile
  <2>4. {logCount, logClock, logStarts} \subseteq Nat
    BY DEF LogTyped
  <2> QED BY <2>1, <2>2, <2>3, <2>4 DEF LogTyped, LogTypeOK
<1> QED
  BY <1>1, <1>2, <1>3, PTL DEF LogSpec

-----------------------------------------------------------------------------
(* The types of the transcript *)

\* The lines of one more row.
ChatAdded(rows, wrapped, verbose, n, i) == n + MessageHeight(rows[i], wrapped[i], verbose)
ChatIndices(rows) == [i \in DOMAIN rows |-> i]
ChatHeights(rows, wrapped, verbose) ==
  FoldLeft(LAMBDA n, i : ChatAdded(rows, wrapped, verbose, n, i), 0, ChatIndices(rows))
ChatHigh(rows, wrapped, verbose) ==
  /\ Len(rows) \in Nat /\ DOMAIN rows = 1..Len(rows)
  /\ \A i \in DOMAIN rows : MessageHeight(rows[i], wrapped[i], verbose) \in Nat

\* The heights of rows add up to a number of lines.
LEMMA ChatHeightsNat ==
  ASSUME NEW rows, NEW wrapped, NEW verbose, ChatHigh(rows, wrapped, verbose)
  PROVE  ChatHeights(rows, wrapped, verbose) \in Nat
<1> DEFINE n == Len(rows)
           Added(acc, i) == ChatAdded(rows, wrapped, verbose, acc, i)
           step == [p \in (1..n) \X Nat |-> Added(p[2], p[1])]
           is == ChatIndices(rows)
<1>1. n \in Nat /\ DOMAIN is = 1..n /\ 0 \in Nat /\ \A i \in 1..n : is[i] = i
  BY DEF ChatHigh, ChatIndices
<1>2. \A i \in 1..n, acc \in Nat : Added(acc, i) \in Nat
  BY DEF ChatHigh, ChatAdded
<1> HIDE DEF Added
<1>3. /\ step \in [(1..n) \X Nat -> Nat]
      /\ \A i \in 1..n, acc \in Nat : step[<<i, acc>>] = Added(acc, i)
  BY <1>2
<1> HIDE DEF n, step
<1>4. PICK f : FoldsUpTo(f, n, Nat, 0, step)
  BY <1>1, <1>3, RecursionOnIntervals DEF CanFold
<1> DEFINE Rec(it) == it = [s \in SUBSET (1..n) |->
                        IF s = {} THEN 0
                        ELSE LET x == Max(s) IN Added(it[s \ {x}], is[x])]
           iter == CHOOSE it : Rec(it)
<1>5. ChatHeights(rows, wrapped, verbose) = iter[1..n]
  BY <1>1 DEF ChatHeights, FoldLeft, MapThenFoldSet, Added
<1> HIDE DEF is
<1>6. Rec(f)
  <2>1. ASSUME NEW s \in SUBSET (1..n), s # {}
        PROVE  f[s] = Added(f[s \ {Max(s)}], is[Max(s)])
    <3>1. Max(s) \in 1..n
      BY <1>4, <2>1 DEF FoldsUpTo
    <3>2. is[Max(s)] = Max(s)
      BY <1>1, <3>1
    <3> QED BY <1>3, <1>4, <2>1, <3>1, <3>2 DEF FoldsUpTo
  <2>2. f = [s \in SUBSET (1..n) |-> f[s]] /\ f[{}] = 0
    BY <1>4 DEF FoldsUpTo
  <2> QED BY <2>1, <2>2
<1>7. Rec(iter)
  <2> HIDE DEF Rec
  <2> QED BY <1>6
<1> HIDE DEF iter
<1>8. iter[1..n] = f[1..n]
  <2>1. iter[{}] = f[{}]
    BY <1>6, <1>7
  <2>2. ASSUME NEW s \in SUBSET (1..n), s # {}, iter[s \ {Max(s)}] = f[s \ {Max(s)}]
        PROVE  iter[s] = f[s]
    <3>1. f[s] = Added(f[s \ {Max(s)}], is[Max(s)])
      BY <1>6, <2>2
    <3>2. iter[s] = Added(iter[s \ {Max(s)}], is[Max(s)])
      BY <1>7, <2>2
    <3> QED BY <2>2, <3>1, <3>2, Zenon
  <2>3. Alike(n, iter, f)
    <3> HIDE DEF Rec
    <3> QED BY <1>1, <2>1, <2>2 DEF Alike
  <2> QED BY <2>3, FoldsAgree
<1>9. f[1..n] \in Nat
  <2> HIDE DEF Rec
  <2>1. n \in 0..n
    BY <1>1
  <2> QED BY <1>4, <2>1 DEF FoldsUpTo
<1> HIDE DEF Rec
<1> QED
  BY <1>5, <1>8, <1>9

\* Rows fit the bound, and what is folded of the stream is lines and a tail.
ChatTyped ==
  /\ ChatInv /\ Len(chatRows) <= ChatMaxRows /\ chatTop \in Nat /\ chatOpen \in Nat
  /\ chatFinal \in Seq(Nat) /\ chatTail \in ChatText

\* A text is wrapped into lines, at least one when there is a glyph or break.
LEMMA ChatWrapType ==
  ASSUME NEW text \in ChatText, NEW width \in Nat
  PROVE  /\ WrapByWidth(text, width) \in Seq(Nat)
         /\ text # <<>> /\ Last(text) # Break => WrapByWidth(text, width) # <<>>
<1>1. ChatEnd(text, width) \in ChatAccs
  BY ChatEndType
<1>2. ChatEnd(text, width).lines \in Seq(Nat) /\ ChatEnd(text, width).line \in Nat
  BY <1>1 DEF ChatAccs
<1>3. PICK lines \in Seq(Nat), line \in Nat :
        /\ lines = ChatEnd(text, width).lines /\ line = ChatEnd(text, width).line
  BY <1>2
<1>4. Append(lines, line) \in Seq(Nat) /\ Append(lines, line) # <<>>
  BY <1>3
<1> QED
  BY <1>3, <1>4, ChatWrapIs

\* Folding leaves lines, the length of the open one and a tail.
LEMMA ChatFoldTyped ==
  ASSUME NEW final \in Seq(Nat), NEW open \in Nat, NEW tail \in ChatText, NEW width \in Nat,
         FoldStreaming(final, open, tail, width)
  PROVE  chatFinal' \in Seq(Nat) /\ chatOpen' \in Nat /\ chatTail' \in ChatText
<1>1. CASE tail = <<>>
  BY <1>1 DEF FoldStreaming
<1>2. CASE tail # <<>>
  <2>1. PICK lines \in Seq(Nat) : lines = WrapByWidth(tail, width)
                                  /\ (Last(tail) # Break => lines # <<>>)
    BY <1>2, ChatWrapType
  <2>2. PICK m : m = SelectLastInSeq(tail, LAMBDA x : x = Break)
    OBVIOUS
  <2>3. m \in Nat
    <3>1. ChatLast(tail) \in 0..Len(tail)
      BY <1>2, ChatLastBreak DEF ChatText
    <3> QED BY <2>2, <3>1 DEF ChatLast
  <2>4. /\ chatFinal' = final \o (IF Last(tail) = Break THEN lines ELSE Front(lines))
        /\ chatOpen' = (IF Last(tail) = Break THEN 0 ELSE Last(lines))
        /\ chatTail' = SubSeq(tail, m + 1, Len(tail))
    BY <1>2, <2>1, <2>2 DEF FoldStreaming, FoldTail
  <2>5. lines # <<>> => Front(lines) \in Seq(Nat) /\ Last(lines) \in Nat
    BY <2>1 DEF Front, Last
  <2>6. chatFinal' \in Seq(Nat) /\ chatOpen' \in Nat
    BY <2>1, <2>4, <2>5
  <2>7. chatTail' \in ChatText
    BY <2>3, <2>4 DEF ChatText
  <2> QED BY <2>6, <2>7
<1> QED
  BY <1>1, <1>2

\* After a frame has wrapped the rows their lines can be counted.
LEMMA ChatTotalNat ==
  ASSUME ChatTyped, ChatInv', NEW width \in Nat, EnsureWrapped(width), UNCHANGED chatRows,
         chatFinal' \in Seq(Nat)
  PROVE  TotalLines \in Nat /\ MaxScroll \in Nat
<1>1. chatRows \in Seq(ChatRowSet)
  BY DEF ChatTyped, ChatInv
<1>2. DOMAIN chatWrapped' = DOMAIN chatRows
  BY DEF EnsureWrapped
<1>3. ASSUME NEW i \in DOMAIN chatRows
      PROVE  MessageHeight(chatRows[i], chatWrapped'[i], chatVerbose) \in Nat
  <2>1. PICK row \in ChatRowSet : row = chatRows[i]
    BY <1>1
  <2>2. chatWrapped'[i] = WrapByWidth(row.text, chatCached') /\ chatCached' \in Nat
    BY <1>2, <2>1 DEF ChatInv, ChatWrapsHold
  <2>3. row.text \in ChatText
    BY <2>1 DEF ChatRowSet
  <2>4. PICK lines \in Seq(Nat) : lines = chatWrapped'[i]
    BY <2>2, <2>3, ChatWrapType
  <2>5. row.role \in {"user", "assistant", "tool", "system"} /\ Len(lines) \in Nat
    BY <2>1, <2>4 DEF ChatRowSet
  <2>6. MessageHeight(row, lines, chatVerbose)
          \in {Len(lines) + 3, Len(lines) + 1, 4, 1, Len(lines)}
    BY <2>5 DEF MessageHeight
  <2>7. {Len(lines) + 3, Len(lines) + 1, 4, 1, Len(lines)} \subseteq Nat
    BY <2>5
  <2> QED BY <2>1, <2>4, <2>6, <2>7
<1>4. ChatHigh(chatRows, chatWrapped', chatVerbose)
  BY <1>1, <1>3 DEF ChatHigh
<1>5. PICK above \in Nat : above = ChatHeights(chatRows, chatWrapped', chatVerbose)
  BY <1>4, ChatHeightsNat
<1>6. StreamingHeight(chatFinal', chatOpen') \in Nat
  <2>1. Len(chatFinal') \in Nat
    OBVIOUS
  <2> QED BY <2>1 DEF StreamingHeight
<1>7. TotalLines = above + StreamingHeight(chatFinal', chatOpen')
  BY <1>5 DEF TotalLines, ChatHeights, ChatAdded, ChatIndices
<1>8. TotalLines \in Nat
  BY <1>5, <1>6, <1>7
<1>9. MaxScroll \in Nat
  <2>1. ChatViewport \in Nat
    BY ChatAssumption
  <2> QED BY <1>8, <2>1 DEF MaxScroll
<1> QED
  BY <1>8, <1>9

\* A frame keeps what is folded typed.
LEMMA ChatEnsureTyped ==
  ASSUME ChatTyped, NEW width \in Nat, EnsureWrapped(width)
  PROVE  chatFinal' \in Seq(Nat) /\ chatOpen' \in Nat /\ chatTail' \in ChatText
<1>1. UNCHANGED chatStreaming \/ FoldStreaming(<<>>, 0, chatStream, width)
  BY DEF EnsureWrapped
<1>2. CASE UNCHANGED chatStreaming
  BY <1>2 DEF chatStreaming, ChatTyped
<1>3. CASE FoldStreaming(<<>>, 0, chatStream, width)
  <2>1. <<>> \in Seq(Nat) /\ 0 \in Nat /\ chatStream \in ChatText
    BY DEF ChatTyped, ChatInv
  <2> QED BY <1>3, <2>1, ChatFoldTyped
<1> QED
  BY <1>1, <1>2, <1>3

\* The wheel and a frame: the top is one of the lines.
LEMMA ChatViewTyped ==
  ASSUME ChatTyped, ChatInv', NEW width \in Nat, EnsureWrapped(width), UNCHANGED chatRows,
         \/ chatTop' \in {chatTop, MaxScroll, 0}
         \/ \E n \in {chatTop, MaxScroll} : \/ n > ScrollStep /\ chatTop' = n - ScrollStep
                                            \/ chatTop' = n + ScrollStep
  PROVE  ChatTyped'
<1>1. chatFinal' \in Seq(Nat) /\ chatOpen' \in Nat /\ chatTail' \in ChatText
  BY ChatEnsureTyped
<1>2. MaxScroll \in Nat
  BY <1>1, ChatTotalNat
<1>3. PICK high \in Nat : high = MaxScroll
  BY <1>2
<1>4. PICK top \in Nat : top = chatTop
  BY DEF ChatTyped
<1>5. \/ chatTop' \in {top, high, 0}
      \/ \E n \in {top, high} : (n > 3 /\ chatTop' = n - 3) \/ chatTop' = n + 3
  BY <1>3, <1>4 DEF ScrollStep
<1>6. chatTop' \in Nat
  <2>1. top \in Nat /\ high \in Nat
    OBVIOUS
  <2> QED BY <1>5, <2>1
<1> QED
  BY <1>1, <1>6 DEF ChatTyped

\* A row that is added has room.
LEMMA ChatAppendTyped ==
  ASSUME ChatTyped, ChatInv', NEW role, NEW text, NEW said, ChatAppend(role, text, said),
         UNCHANGED chatTop,
         UNCHANGED chatStreaming \/ (chatTail' = <<>> /\ chatFinal' = <<>> /\ chatOpen' = 0)
  PROVE  ChatTyped'
<1>1. PICK row : row = ChatRow(role, text, said)
  OBVIOUS
<1>2. /\ chatRows \in Seq(ChatRowSet) /\ Len(chatRows) < ChatMaxRows
      /\ chatRows' = Append(chatRows, row)
  BY <1>1 DEF ChatAppend, ChatTyped, ChatInv
<1>3. Len(chatRows') = Len(chatRows) + 1 /\ Len(chatRows) \in Nat
  BY <1>2
<1>4. ChatMaxRows \in Nat
  BY ChatAssumption
<1>5. Len(chatRows') <= ChatMaxRows
  BY <1>2, <1>3, <1>4
<1>6. <<>> \in Seq(Nat) /\ <<>> \in ChatText /\ 0 \in Nat
  BY DEF ChatText
<1>7. \/ chatTail' = chatTail /\ chatFinal' = chatFinal /\ chatOpen' = chatOpen
      \/ chatTail' = <<>> /\ chatFinal' = <<>> /\ chatOpen' = 0
  BY Zenon DEF chatStreaming
<1>8. chatTop \in Nat /\ chatOpen \in Nat /\ chatFinal \in Seq(Nat) /\ chatTail \in ChatText
  BY DEF ChatTyped
<1>9. /\ chatTop' \in Nat /\ chatOpen' \in Nat
      /\ chatFinal' \in Seq(Nat) /\ chatTail' \in ChatText
  BY <1>6, <1>7, <1>8, Zenon
<1> QED
  BY <1>5, <1>9, Zenon DEF ChatTyped

\* Each step keeps the types.
LEMMA ChatStepTyped == ChatTyped /\ [ChatNext]_chatVars => ChatTyped'
<1> SUFFICES ASSUME ChatTyped, [ChatNext]_chatVars PROVE ChatTyped'
  OBVIOUS
<1>0. ChatInv'
  BY ChatStep DEF ChatTyped
<1>a. UNCHANGED chatVars => ChatTyped'
  BY <1>0 DEF ChatTyped, chatVars
<1>b. ASSUME NEW text, AppendUser(text) \/ AppendSystem(text) \/ AppendToolRow(text)
      PROVE  ChatTyped'
  <2>1. \E role : ChatAppend(role, text, FALSE)
    BY <1>b DEF AppendUser, AppendSystem, AppendToolRow
  <2>2. UNCHANGED chatStreaming /\ UNCHANGED chatTop
    BY <1>b DEF AppendUser, AppendSystem, AppendToolRow, chatView
  <2> QED BY <1>0, <2>1, <2>2, ChatAppendTyped
<1>c. ASSUME NEW text, NEW said, AppendAssistant(text, said) PROVE ChatTyped'
  <2>1. ChatAppend("assistant", text, said) /\ UNCHANGED chatStreaming /\ UNCHANGED chatTop
    BY <1>c DEF AppendAssistant, chatView
  <2> QED BY <1>0, <2>1, ChatAppendTyped
<1>d. ASSUME NEW text, NEW answer, RestoreHistory(text, answer) PROVE ChatTyped'
  <2>1. /\ ChatMaxRows >= 2 /\ UNCHANGED chatStreaming /\ UNCHANGED chatTop
        /\ \E one, two : chatRows' = <<one, two>>
    BY <1>d DEF RestoreHistory, chatView
  <2>2. Len(chatRows') = 2
    BY <2>1
  <2> QED BY <1>0, <2>1, <2>2 DEF ChatTyped, chatStreaming
<1>e. ASSUME NEW text \in ChatChunks, AppendStreamChunk(text) PROVE ChatTyped'
  <2>1. /\ FoldStreaming(chatFinal, chatOpen, chatTail \o text, chatWidth)
        /\ UNCHANGED <<chatRows, chatTop>>
    BY <1>e DEF AppendStreamChunk, chatView
  <2>2. chatTail \o text \in ChatText /\ chatWidth \in Nat
    <3>1. chatTail \in ChatText /\ text \in ChatText
      BY ChatTextsAreTexts DEF ChatTyped
    <3> QED BY <3>1 DEF ChatText, ChatTyped, ChatInv
  <2>3. chatFinal \in Seq(Nat) /\ chatOpen \in Nat
    BY DEF ChatTyped
  <2>4. chatFinal' \in Seq(Nat) /\ chatOpen' \in Nat /\ chatTail' \in ChatText
    BY <2>1, <2>2, <2>3, ChatFoldTyped
  <2> QED BY <1>0, <2>1, <2>4 DEF ChatTyped
<1>f. ASSUME FinishMessage PROVE ChatTyped'
  <2>1. UNCHANGED chatTop
    BY <1>f DEF FinishMessage, chatView
  <2>2. CASE chatStream = <<>>
    <3>1. UNCHANGED <<chatRows, chatStreaming>>
      BY <1>f, <2>2 DEF FinishMessage
    <3> QED BY <1>0, <2>1, <3>1 DEF ChatTyped, chatStreaming
  <2>3. CASE chatStream # <<>>
    <3>1. /\ ChatAppend("assistant", chatStream, TRUE)
          /\ chatTail' = <<>> /\ chatFinal' = <<>> /\ chatOpen' = 0
      BY <1>f, <2>3 DEF FinishMessage
    <3> QED BY <1>0, <2>1, <3>1, ChatAppendTyped
  <2> QED BY <2>2, <2>3
<1>g. ASSUME ChatClear PROVE ChatTyped'
  <2>1. /\ chatRows' = <<>> /\ chatTail' = <<>> /\ chatFinal' = <<>>
        /\ chatOpen' = 0 /\ chatTop' = 0
    BY <1>g DEF ChatClear
  <2>2. <<>> \in Seq(Nat) /\ <<>> \in ChatText /\ Len(<<>>) = 0 /\ ChatMaxRows \in Nat
    BY ChatAssumption DEF ChatText
  <2> QED BY <1>0, <2>1, <2>2 DEF ChatTyped
<1>h. CASE SetVerbose
  BY <1>0, <1>h DEF SetVerbose, ChatTyped, chatStreaming
<1>i. CASE WheelUp \/ WheelDown
  <2>1. EnsureWrapped(chatWidth) /\ UNCHANGED chatRows /\ chatWidth \in Nat
    BY <1>i DEF WheelUp, WheelDown, ChatTyped, ChatInv
  <2>2. WheelTop \in {chatTop, MaxScroll}
    BY DEF WheelTop
  <2>3. \/ chatTop' \in {chatTop, MaxScroll, 0}
        \/ \E n \in {chatTop, MaxScroll} : \/ n > ScrollStep /\ chatTop' = n - ScrollStep
                                           \/ chatTop' = n + ScrollStep
    BY <1>i, <2>2 DEF WheelUp, WheelDown
  <2> QED BY <1>0, <2>1, <2>3, ChatViewTyped
<1>j. ASSUME NEW width \in ChatWidths, ChatRender(width) PROVE ChatTyped'
  <2>1. EnsureWrapped(width) /\ UNCHANGED chatRows /\ width \in Nat
    BY <1>j, ChatAssumption DEF ChatRender
  <2>2. chatTop' \in {chatTop, MaxScroll, 0}
    BY <1>j DEF ChatRender, ChatClamped
  <2> QED BY <1>0, <2>1, <2>2, ChatViewTyped
<1>k. ASSUME NEW text, NEW type, OnEvent(type, text) PROVE ChatTyped'
  BY <1>a, <1>b, <1>k DEF OnEvent
<1>l. ASSUME NEW text \in ChatChunks, NEW kind, StreamFn(kind, text) PROVE ChatTyped'
  BY <1>a, <1>b, <1>e, <1>f, <1>l DEF StreamFn
<1> QED
  BY <1>a, <1>b, <1>c, <1>d, <1>g, <1>h, <1>i, <1>j, <1>k, <1>l DEF ChatNext

\* The transcript has its types: rows fit the bound, and the window begins at a line.
LEMMA ChatTypesHold == ChatSpec => []ChatTypeOK
<1>1. ChatInit => ChatTyped
  <2> SUFFICES ASSUME ChatInit PROVE ChatTyped
    OBVIOUS
  <2>1. chatRows = <<>> /\ chatTail = <<>> /\ chatFinal = <<>> /\ chatOpen = 0 /\ chatTop = 0
    BY DEF ChatInit
  <2>2. <<>> \in Seq(Nat) /\ <<>> \in ChatText /\ Len(<<>>) = 0 /\ ChatMaxRows \in Nat
    BY ChatAssumption DEF ChatText
  <2> QED BY <2>1, <2>2, ChatInitInv DEF ChatTyped
<1>2. ChatTyped => ChatTypeOK
  <2> SUFFICES ASSUME ChatTyped PROVE ChatTypeOK
    OBVIOUS
  <2>1. chatRows \in Seq(ChatRowSet)
    BY DEF ChatTyped, ChatInv
  <2>2. ASSUME NEW i \in DOMAIN chatRows
        PROVE  chatRows[i].role \in {"user", "assistant", "tool", "system"}
    <3>1. PICK row \in ChatRowSet : row = chatRows[i]
      BY <2>1
    <3>2. row.role \in {"user", "assistant", "tool", "system"}
      BY <3>1 DEF ChatRowSet
    <3> QED BY <3>1, <3>2
  <2> QED BY <2>2 DEF ChatTyped, ChatTypeOK
<1> QED
  BY <1>1, <1>2, ChatStepTyped, PTL DEF ChatSpec

-----------------------------------------------------------------------------
(* Plugins: each is there in full or not at all *)

PlgPcs == {"idle", "install", "remove", "probe", "clone", "cloning", "failed", "verify"}
PlgCallSet == [op : {"none", "install", "remove"}, target : PlgTargets \cup {""},
               pc : PlgPcs, sources : Nat]

\* What a call has on its way: from "probe" on it means to make the directory.
PlgMaking == {"probe", "clone", "cloning", "failed", "verify"}
PlgMade == {"cloning", "failed", "verify"}

PlgTypes ==
  /\ DOMAIN plgDirs \subseteq PlgTargets
  /\ plgCall \in [PlgThreads -> PlgCallSet]
  /\ \A t \in PlgThreads : ~PlgAt(t, "idle") => PlgTarget(t) \in PlgTargets
  /\ plgInstalled \subseteq PlgTargets

\* What holds of a target that one call works on at a time and no crash cuts short.
PlgAlone(x) ==
  \A t, u \in PlgThreads : PlgTarget(t) = x /\ PlgTarget(u) = x => t = u
PlgSettled(x) ==
  x \in plgInstalled =>
    /\ PlgThere(x) /\ plgDirs[x] = "whole"
    /\ \A t \in PlgThreads : PlgTarget(t) = x => plgCall[t].pc \notin PlgMaking
PlgOwned(x) ==
  PlgThere(x) /\ x \notin plgInstalled =>
    \E t \in PlgThreads : PlgTarget(t) = x /\ plgCall[t].pc \in PlgMade

PlgInv ==
  /\ PlgTypes
  /\ \A x \in PlgTargets \ plgContended : PlgAlone(x) /\ PlgSettled(x) /\ PlgOwned(x)

\* The invariant gives the property: a target nobody works on is owned by nobody.
LEMMA PlgInvImpliesWhole == PlgInv => PluginsAreWhole
BY DEF PlgInv, PluginsAreWhole, PlgAlone, PlgSettled, PlgOwned, SkillRoots, PlgThere

\* Nothing is installed, contended or under way at the start.
LEMMA PlgInitHolds == PlgInit => PlgInv
<1> SUFFICES ASSUME PlgInit PROVE PlgInv
  OBVIOUS
<1>1. PlgIdle \in PlgCallSet
  BY DEF PlgIdle, PlgCallSet, PlgPcs
<1>2. \A t \in PlgThreads : plgCall[t] = PlgIdle
  BY DEF PlgInit
<1>3. PlgTypes
  BY <1>1, <1>2 DEF PlgInit, PlgTypes, PlgAt, PlgIdle
<1>4. \A x \in PlgTargets : PlgAlone(x) /\ PlgSettled(x) /\ PlgOwned(x)
  BY <1>2, PlgAssumption DEF PlgInit, PlgAlone, PlgSettled, PlgOwned, PlgThere, PlgTarget, PlgIdle
<1> QED
  BY <1>3, <1>4 DEF PlgInv

\* A step of one call: the others stay, and it keeps its target.
PlgMoves(t, pc) ==
  /\ plgCall' \in [PlgThreads -> PlgCallSet]
  /\ \A u \in PlgThreads \ {t} : plgCall'[u] = plgCall[u]
  /\ plgCall'[t].target = plgCall[t].target /\ plgCall'[t].pc = pc
\* The end of a call.
PlgLeaves(t) ==
  /\ plgCall' \in [PlgThreads -> PlgCallSet]
  /\ \A u \in PlgThreads \ {t} : plgCall'[u] = plgCall[u]
  /\ plgCall'[t].target = "" /\ plgCall'[t].pc = "idle"

\* A call that is done goes.
LEMMA PlgIdleLeaves ==
  ASSUME PlgTypes, NEW t \in PlgThreads, PlgDone(t)
  PROVE  PlgLeaves(t)
<1>1. PlgIdle \in PlgCallSet /\ PlgIdle.target = "" /\ PlgIdle.pc = "idle"
  BY DEF PlgIdle, PlgCallSet, PlgPcs
<1> QED
  BY <1>1 DEF PlgTypes, PlgDone, PlgGo, PlgLeaves

\* A call that goes on keeps its target.
LEMMA PlgPcMoves ==
  ASSUME PlgTypes, NEW t \in PlgThreads, NEW pc \in PlgPcs, PlgGo(t, [plgCall[t] EXCEPT !.pc = pc])
  PROVE  PlgMoves(t, pc)
<1>1. plgCall[t] \in PlgCallSet
  BY DEF PlgTypes
<1>2. /\ [plgCall[t] EXCEPT !.pc = pc] \in PlgCallSet
      /\ [plgCall[t] EXCEPT !.pc = pc].target = plgCall[t].target
      /\ [plgCall[t] EXCEPT !.pc = pc].pc = pc
  BY <1>1 DEF PlgCallSet
<1> QED
  BY <1>2 DEF PlgTypes, PlgGo, PlgMoves

\* A source fewer.
LEMMA PlgOneLess == ASSUME NEW n \in Nat, n > 1 PROVE n - 1 \in Nat
OBVIOUS

\* The call that tries the next source.
LEMMA PlgInstallIsCall ==
  ASSUME NEW x \in PlgTargets \cup {""}, NEW pc \in PlgPcs, NEW n \in Nat
  PROVE  [op |-> "install", target |-> x, pc |-> pc, sources |-> n] \in PlgCallSet
BY DEF PlgCallSet

\* The next source keeps the target; without one the call ends.
LEMMA PlgNextSourceMoves ==
  ASSUME PlgTypes, NEW t \in PlgThreads, PlgNextSource(t)
  PROVE  PlgMoves(t, "probe") \/ PlgLeaves(t)
<1>1. CASE plgCall[t].sources > 1
  <2> DEFINE c == [op |-> "install", target |-> PlgTarget(t), pc |-> "probe",
                   sources |-> plgCall[t].sources - 1]
  <2>1. PlgTarget(t) \in PlgTargets \cup {""} /\ plgCall[t].sources - 1 \in Nat
    <3>1. plgCall[t] \in PlgCallSet
      BY DEF PlgTypes
    <3>2. plgCall[t].target \in PlgTargets \cup {""} /\ plgCall[t].sources \in Nat
      BY <3>1 DEF PlgCallSet
    <3> QED
      BY <1>1, <3>2, PlgOneLess DEF PlgTarget
  <2>2. c \in PlgCallSet /\ c.target = plgCall[t].target /\ c.pc = "probe"
    <3>1. "probe" \in PlgPcs
      BY DEF PlgPcs
    <3>2. c \in PlgCallSet
      BY ONLY <2>1, <3>1, PlgInstallIsCall
    <3> QED
      BY <3>2 DEF PlgTarget
  <2>3. plgCall' = [plgCall EXCEPT ![t] = c]
    BY <1>1 DEF PlgNextSource, PlgGo
  <2> HIDE DEF c
  <2> QED
    BY <2>2, <2>3 DEF PlgTypes, PlgMoves
<1>2. CASE ~(plgCall[t].sources > 1)
  BY <1>2, PlgIdleLeaves DEF PlgNextSource
<1> QED
  BY <1>1, <1>2

\* A directory is written, and the others stay.
LEMMA PlgPutChanges ==
  ASSUME NEW x \in PlgTargets, NEW state, PlgPut(x, state)
  PROVE  /\ DOMAIN plgDirs' = DOMAIN plgDirs \cup {x} /\ plgDirs'[x] = state
         /\ \A y \in DOMAIN plgDirs \ {x} : plgDirs'[y] = plgDirs[y]
BY DEF PlgPut

\* The other directories stay when one is taken away.
LEMMA PlgRemoveAllChanges ==
  ASSUME NEW x, PlgRemoveAll(x)
  PROVE  /\ DOMAIN plgDirs' = DOMAIN plgDirs \ {x}
         /\ \A y \in DOMAIN plgDirs \ {x} : plgDirs'[y] = plgDirs[y]
BY DEF PlgRemoveAll

\* A call begins: a target somebody works on becomes contended.
LEMMA PlgBeginKeeps ==
  ASSUME PlgInv, NEW t \in PlgThreads, NEW op \in {"install", "remove"}, NEW x \in PlgTargets,
         PlgBegin(t, op, x)
  PROVE  PlgInv'
<1> DEFINE c == [op |-> op, target |-> x, pc |-> op, sources |-> PlgSources]
<1>1. c \in PlgCallSet /\ c.target = x /\ c.pc = op /\ op \notin PlgMaking /\ c.pc # "idle"
  BY PlgAssumption DEF PlgCallSet, PlgPcs, PlgMaking
<1>2. plgCall' = [plgCall EXCEPT ![t] = c] /\ UNCHANGED <<plgDirs, plgInstalled>>
  BY DEF PlgBegin, PlgGo
<1>3. plgCall \in [PlgThreads -> PlgCallSet]
  BY DEF PlgInv, PlgTypes
<1>4. /\ plgCall'[t].target = x /\ plgCall'[t].pc \notin PlgMaking /\ plgCall'[t].pc # "idle"
      /\ \A u \in PlgThreads \ {t} : plgCall'[u] = plgCall[u]
  BY <1>1, <1>2, <1>3
<1>5. PlgTypes'
  BY <1>1, <1>2, <1>3, <1>4 DEF PlgInv, PlgTypes, PlgAt, PlgTarget
<1>6. plgCall[t].target = "" /\ plgCall[t].pc = "idle"
  <2>1. PlgIdle.target = "" /\ PlgIdle.pc = "idle"
    BY DEF PlgIdle
  <2> QED
    BY <2>1 DEF PlgBegin
<1>7. plgContended' = IF \E o \in PlgThreads : plgCall[o].target = x
                      THEN plgContended \cup {x} ELSE plgContended
  BY DEF PlgBegin
<1>8. ASSUME NEW y \in PlgTargets \ plgContended'
      PROVE  (PlgAlone(y) /\ PlgSettled(y) /\ PlgOwned(y))'
  <2>1. y \notin plgContended /\ (y = x => \A o \in PlgThreads : plgCall[o].target # x)
    BY <1>7, <1>8
  <2>2. PlgAlone(y) /\ PlgSettled(y) /\ PlgOwned(y)
    BY <2>1, <1>8 DEF PlgInv
  <2>3. PlgAlone(y)' /\ PlgSettled(y)'
    BY <1>2, <1>4, <2>1, <2>2 DEF PlgAlone, PlgSettled, PlgTarget, PlgThere
  <2>4. PlgOwned(y)'
    BY <1>2, <1>4, <1>6, <2>2 DEF PlgOwned, PlgTarget, PlgThere, PlgMade
  <2> QED
    BY <2>3, <2>4
<1> QED
  BY <1>5, <1>8 DEF PlgInv

\* A step that only moves a call: it ends, or has nothing made and goes on where nothing is.
LEMMA PlgMoveKeeps ==
  ASSUME PlgInv, NEW t \in PlgThreads, ~PlgAt(t, "idle"), NEW pc \in PlgPcs \ {"idle"},
         UNCHANGED <<plgDirs, plgInstalled, plgContended>>,
         PlgLeaves(t) \/ (PlgMoves(t, pc) /\ plgCall[t].pc # "remove"
                          /\ (plgCall[t].pc = "install" => ~PlgThere(PlgTarget(t)))),
         plgCall[t].pc \notin PlgMade
  PROVE  PlgInv'
<1>1. PlgTypes'
  BY DEF PlgInv, PlgTypes, PlgLeaves, PlgMoves, PlgAt, PlgTarget
<1>2. ASSUME NEW y \in PlgTargets \ plgContended'
      PROVE  (PlgAlone(y) /\ PlgSettled(y) /\ PlgOwned(y))'
  <2>1. PlgAlone(y) /\ PlgSettled(y) /\ PlgOwned(y)
    BY <1>2 DEF PlgInv
  <2>2. PlgAlone(y)'
    BY <1>2, <2>1, PlgAssumption DEF PlgAlone, PlgLeaves, PlgMoves, PlgTarget
  <2>3. plgCall[t].pc \in PlgPcs
    BY DEF PlgInv, PlgTypes, PlgCallSet
  <2>4. PlgSettled(y)'
    BY <1>2, <2>1, <2>3, PlgAssumption
       DEF PlgSettled, PlgLeaves, PlgMoves, PlgTarget, PlgThere, PlgMade, PlgMaking, PlgPcs, PlgAt
  <2>5. PlgOwned(y)'
    BY <1>2, <2>1 DEF PlgOwned, PlgLeaves, PlgMoves, PlgTarget, PlgThere
  <2> QED
    BY <2>2, <2>4, <2>5
<1> QED
  BY <1>1, <1>2 DEF PlgInv

\* A step of a call that makes a directory: only its target changes, which has no other call.
LEMMA PlgMakingKeeps ==
  ASSUME PlgInv, NEW t \in PlgThreads, plgCall[t].pc \in PlgMaking, UNCHANGED plgContended,
         NEW x \in PlgTargets, x = PlgTarget(t),
         \A y \in PlgTargets \ {x} :
           /\ PlgThere(y)' <=> PlgThere(y)
           /\ PlgThere(y) => plgDirs'[y] = plgDirs[y]
           /\ (y \in plgInstalled') <=> (y \in plgInstalled),
         DOMAIN plgDirs' \subseteq PlgTargets, plgInstalled' \subseteq PlgTargets,
         \/ PlgLeaves(t) /\ (x \notin plgContended =>
                               IF x \in plgInstalled'
                               THEN x \in DOMAIN plgDirs' /\ plgDirs'[x] = "whole"
                               ELSE x \notin DOMAIN plgDirs')
         \/ \E pc \in PlgMaking :
              /\ PlgMoves(t, pc) /\ plgInstalled' = plgInstalled
              /\ x \in DOMAIN plgDirs' => pc \in PlgMade
  PROVE  PlgInv'
<1>0. PlgMaking \subseteq PlgPcs \ {"idle"} /\ PlgMade \subseteq PlgMaking
  BY DEF PlgMaking, PlgMade, PlgPcs
<1>2. PlgTypes'
  BY <1>0 DEF PlgInv, PlgTypes, PlgLeaves, PlgMoves, PlgAt, PlgTarget
<1>3. ASSUME NEW y \in PlgTargets \ plgContended'
      PROVE  (PlgAlone(y) /\ PlgSettled(y) /\ PlgOwned(y))'
  <2>1. PlgAlone(y) /\ PlgSettled(y) /\ PlgOwned(y)
    BY <1>3 DEF PlgInv
  <2>2. PlgAlone(y)'
    BY ZenonT(30), <1>3, <2>1, PlgAssumption DEF PlgAlone, PlgLeaves, PlgMoves, PlgTarget
  <2>3. CASE y # x
    <3>1. /\ PlgThere(y)' <=> PlgThere(y) /\ (PlgThere(y) => plgDirs'[y] = plgDirs[y])
          /\ (y \in plgInstalled') <=> (y \in plgInstalled)
      BY <2>3
    <3>2. \A u \in PlgThreads : (PlgTarget(u)' = y) <=> (PlgTarget(u) = y)
      BY <1>3, <2>3, PlgAssumption DEF PlgLeaves, PlgMoves, PlgTarget
    <3>3. \A u \in PlgThreads : PlgTarget(u) = y => plgCall'[u] = plgCall[u]
      BY <2>3 DEF PlgLeaves, PlgMoves, PlgTarget
    <3> QED
      BY <2>1, <2>2, <3>1, <3>2, <3>3 DEF PlgSettled, PlgOwned
  <2>4. CASE y = x
    <3>1. y \notin plgInstalled
      BY <2>1, <2>4 DEF PlgSettled
    <3>2. \A u \in PlgThreads \ {t} : PlgTarget(u)' # y
      BY <2>1, <2>4 DEF PlgAlone, PlgLeaves, PlgMoves, PlgTarget
    <3>3. CASE PlgLeaves(t) /\ (x \notin plgContended =>
                                  IF x \in plgInstalled'
                                  THEN x \in DOMAIN plgDirs' /\ plgDirs'[x] = "whole"
                                  ELSE x \notin DOMAIN plgDirs')
      <4>1. PlgTarget(t)' # y
        BY <1>3, <2>4, <3>3, PlgAssumption DEF PlgLeaves, PlgTarget
      <4> QED
        BY <1>3, <2>2, <2>4, <3>2, <3>3, <4>1 DEF PlgSettled, PlgOwned, PlgThere
    <3>4. CASE \E pc \in PlgMaking :
                 /\ PlgMoves(t, pc) /\ plgInstalled' = plgInstalled
                 /\ x \in DOMAIN plgDirs' => pc \in PlgMade
      <4>1. PICK pc \in PlgMaking : /\ PlgMoves(t, pc) /\ plgInstalled' = plgInstalled
                                    /\ x \in DOMAIN plgDirs' => pc \in PlgMade
        BY <3>4
      <4>2. PlgTarget(t)' = y /\ plgCall'[t].pc = pc
        BY <2>4, <4>1 DEF PlgMoves, PlgTarget
      <4> QED
        BY <2>2, <2>4, <3>1, <4>1, <4>2 DEF PlgSettled, PlgOwned, PlgThere
    <3> QED
      BY <3>3, <3>4
  <2> QED
    BY <2>3, <2>4
<1> QED
  BY <1>2, <1>3 DEF PlgInv

\* install and add_marketplace go on only where nothing is.
LEMMA PlgInstallKeeps ==
  ASSUME PlgInv, NEW t \in PlgThreads, PlgInstall(t)
  PROVE  PlgInv'
<1>1. PlgTypes /\ plgCall[t].pc = "install" /\ UNCHANGED <<plgDirs, plgInstalled, plgContended>>
  BY DEF PlgInv, PlgInstall, PlgAt
<1>2. PlgDone(t) \/ (PlgGo(t, [plgCall[t] EXCEPT !.pc = "probe"]) /\ ~PlgThere(PlgTarget(t)))
  BY DEF PlgInstall
<1>3. PlgLeaves(t) \/ (PlgMoves(t, "probe") /\ ~PlgThere(PlgTarget(t)))
  BY <1>1, <1>2, PlgIdleLeaves, PlgPcMoves DEF PlgPcs
<1>4. "probe" \in PlgPcs \ {"idle"} /\ plgCall[t].pc \notin PlgMade /\ ~PlgAt(t, "idle")
  BY <1>1 DEF PlgPcs, PlgMade, PlgAt
<1> QED
  BY <1>1, <1>3, <1>4, PlgMoveKeeps

\* A source that answers is cloned; another one is tried if it does not.
LEMMA PlgProbeKeeps ==
  ASSUME PlgInv, NEW t \in PlgThreads, NEW reachable \in BOOLEAN, ProbeReachable(t, reachable)
  PROVE  PlgInv'
<1>1. PlgTypes /\ plgCall[t].pc = "probe" /\ UNCHANGED <<plgDirs, plgInstalled, plgContended>>
  BY DEF PlgInv, ProbeReachable, PlgAt
<1>2. PlgNextSource(t) \/ PlgGo(t, [plgCall[t] EXCEPT !.pc = "clone"])
  BY DEF ProbeReachable
<1>3. PlgLeaves(t) \/ PlgMoves(t, "probe") \/ PlgMoves(t, "clone")
  BY <1>1, <1>2, PlgNextSourceMoves, PlgPcMoves DEF PlgPcs
<1>4. /\ "probe" \in PlgPcs \ {"idle"} /\ "clone" \in PlgPcs \ {"idle"}
      /\ plgCall[t].pc \notin PlgMade /\ ~PlgAt(t, "idle")
  BY <1>1 DEF PlgPcs, PlgMade, PlgAt
<1> QED
  BY <1>1, <1>3, <1>4, PlgMoveKeeps

\* A call under way works on a known target.
LEMMA PlgMakerHasTarget ==
  ASSUME PlgTypes, NEW t \in PlgThreads, plgCall[t].pc # "idle"
  PROVE  PlgTarget(t) \in PlgTargets
BY DEF PlgTypes, PlgAt

\* git makes the directory, or refuses.
LEMMA PlgCloneStartsKeeps ==
  ASSUME PlgInv, NEW t \in PlgThreads, PlgCloneStarts(t)
  PROVE  PlgInv'
<1> SUFFICES ASSUME NEW x, x = PlgTarget(t) PROVE PlgInv'
  OBVIOUS
<1>1. /\ PlgTypes /\ plgCall[t].pc = "clone" /\ plgCall[t].pc # "idle"
      /\ plgCall[t].pc \in PlgMaking /\ UNCHANGED <<plgInstalled, plgContended>>
  BY DEF PlgInv, PlgCloneStarts, PlgAt, PlgMaking
<1>2. x \in PlgTargets
  BY <1>1, PlgMakerHasTarget
<1>3. \E pc \in PlgMade : PlgMoves(t, pc)
  BY <1>1, PlgPcMoves DEF PlgCloneStarts, PlgPcs, PlgMade
<1>4. UNCHANGED plgDirs \/ PlgPut(x, "partial")
  BY DEF PlgCloneStarts
<1>5. /\ DOMAIN plgDirs' \subseteq PlgTargets
      /\ \A y \in PlgTargets \ {x} : /\ PlgThere(y)' <=> PlgThere(y)
                                     /\ PlgThere(y) => plgDirs'[y] = plgDirs[y]
  BY ZenonT(30), <1>1, <1>2, <1>4, PlgPutChanges DEF PlgTypes, PlgThere
<1>6. plgInstalled \subseteq PlgTargets /\ PlgMade \subseteq PlgMaking
  BY <1>1 DEF PlgTypes, PlgMade, PlgMaking
<1> QED
  BY <1>1, <1>2, <1>3, <1>5, <1>6, PlgMakingKeeps

\* The clone is there in full, without skills, or in part.
LEMMA PlgCloneEndsKeeps ==
  ASSUME PlgInv, NEW t \in PlgThreads, NEW outcome \in {"partial", "whole", "bare"},
         PlgCloneEnds(t, outcome)
  PROVE  PlgInv'
<1> SUFFICES ASSUME NEW x, x = PlgTarget(t) PROVE PlgInv'
  OBVIOUS
<1>1. /\ PlgTypes /\ plgCall[t].pc = "cloning" /\ plgCall[t].pc # "idle"
      /\ plgCall[t].pc \in PlgMaking /\ UNCHANGED <<plgInstalled, plgContended>>
  BY DEF PlgInv, PlgCloneEnds, PlgAt, PlgMaking
<1>2. x \in PlgTargets
  BY <1>1, PlgMakerHasTarget
<1>3. \E pc \in PlgMade : PlgMoves(t, pc)
  BY <1>1, PlgPcMoves DEF PlgCloneEnds, PlgPcs, PlgMade
<1>4. PlgPut(x, outcome)
  BY DEF PlgCloneEnds
<1>5. /\ DOMAIN plgDirs' \subseteq PlgTargets
      /\ \A y \in PlgTargets \ {x} : /\ PlgThere(y)' <=> PlgThere(y)
                                     /\ PlgThere(y) => plgDirs'[y] = plgDirs[y]
  BY <1>1, <1>2, <1>4, PlgPutChanges DEF PlgTypes, PlgThere
<1>6. plgInstalled \subseteq PlgTargets /\ PlgMade \subseteq PlgMaking
  BY <1>1 DEF PlgTypes, PlgMade, PlgMaking
<1> QED
  BY <1>1, <1>2, <1>3, <1>5, <1>6, PlgMakingKeeps

\* What a failed clone has left goes, and nothing installed with it.
LEMMA PlgCleanupKeeps ==
  ASSUME PlgInv, NEW t \in PlgThreads, PlgCleanup(t)
  PROVE  PlgInv'
<1> SUFFICES ASSUME NEW x, x = PlgTarget(t) PROVE PlgInv'
  OBVIOUS
<1>1. /\ PlgTypes /\ plgCall[t].pc = "failed" /\ plgCall[t].pc # "idle"
      /\ plgCall[t].pc \in PlgMaking /\ UNCHANGED <<plgInstalled, plgContended>>
  BY DEF PlgInv, PlgCleanup, PlgAt, PlgMaking
<1>2. PlgMoves(t, "probe") \/ PlgLeaves(t)
  BY <1>1, PlgNextSourceMoves DEF PlgCleanup
<1>3. PlgRemoveAll(x)
  BY DEF PlgCleanup
<1>4. /\ DOMAIN plgDirs' \subseteq PlgTargets /\ x \notin DOMAIN plgDirs'
      /\ \A y \in PlgTargets \ {x} : /\ PlgThere(y)' <=> PlgThere(y)
                                     /\ PlgThere(y) => plgDirs'[y] = plgDirs[y]
  BY <1>1, <1>3, PlgRemoveAllChanges DEF PlgTypes, PlgThere
<1>5. x \in PlgTargets /\ plgInstalled \subseteq PlgTargets /\ "probe" \in PlgMaking
  BY <1>1, PlgMakerHasTarget DEF PlgTypes, PlgMaking
<1>6. x \notin plgContended => x \notin plgInstalled
  BY <1>1, <1>5 DEF PlgInv, PlgSettled
<1> QED
  BY <1>1, <1>2, <1>4, <1>5, <1>6, PlgMakingKeeps

\* A clone with skills is installed, any other taken away.
LEMMA PlgVerifyKeeps ==
  ASSUME PlgInv, NEW t \in PlgThreads, PlgVerify(t)
  PROVE  PlgInv'
<1> SUFFICES ASSUME NEW x, x = PlgTarget(t) PROVE PlgInv'
  OBVIOUS
<1>1. /\ PlgTypes /\ plgCall[t].pc = "verify" /\ plgCall[t].pc # "idle"
      /\ plgCall[t].pc \in PlgMaking /\ UNCHANGED plgContended /\ PlgDone(t)
  BY DEF PlgInv, PlgVerify, PlgAt, PlgMaking
<1>2. PlgLeaves(t) /\ x \in PlgTargets
  BY <1>1, PlgIdleLeaves, PlgMakerHasTarget
<1>3. x \notin plgContended => x \notin plgInstalled
  BY <1>1, <1>2 DEF PlgInv, PlgSettled
<1>4. plgInstalled \subseteq PlgTargets /\ DOMAIN plgDirs \subseteq PlgTargets
  BY <1>1 DEF PlgTypes
<1>5. CASE /\ x \in DOMAIN plgDirs /\ plgDirs[x] = "whole"
           /\ plgInstalled' = plgInstalled \cup {x} /\ UNCHANGED plgDirs
  BY <1>1, <1>2, <1>4, <1>5, PlgMakingKeeps DEF PlgThere
<1>6. CASE PlgRemoveAll(x) /\ UNCHANGED plgInstalled
  <2>1. /\ DOMAIN plgDirs' \subseteq PlgTargets /\ x \notin DOMAIN plgDirs'
        /\ \A y \in PlgTargets \ {x} : /\ PlgThere(y)' <=> PlgThere(y)
                                       /\ PlgThere(y) => plgDirs'[y] = plgDirs[y]
    BY <1>4, <1>6, PlgRemoveAllChanges DEF PlgThere
  <2> QED
    BY <1>1, <1>2, <1>3, <1>4, <1>6, <2>1, PlgMakingKeeps
<1> QED
  BY <1>5, <1>6 DEF PlgVerify, PlgThere

\* A removal takes its own target away.
LEMMA PlgRemoveKeeps ==
  ASSUME PlgInv, NEW t \in PlgThreads, PlgRemove(t)
  PROVE  PlgInv'
<1> SUFFICES ASSUME NEW x, x = PlgTarget(t) PROVE PlgInv'
  OBVIOUS
<1>1. /\ PlgTypes /\ plgCall[t].pc = "remove" /\ UNCHANGED plgContended /\ PlgDone(t)
      /\ PlgRemoveAll(x) /\ plgInstalled' = plgInstalled \ {x}
  BY DEF PlgInv, PlgRemove, PlgAt
<1>2. PlgLeaves(t)
  BY <1>1, PlgIdleLeaves
<1>3. /\ DOMAIN plgDirs' = DOMAIN plgDirs \ {x}
      /\ \A y \in DOMAIN plgDirs \ {x} : plgDirs'[y] = plgDirs[y]
  BY <1>1, PlgRemoveAllChanges
<1>4. PlgTypes'
  BY <1>1, <1>2, <1>3 DEF PlgTypes, PlgLeaves, PlgAt, PlgTarget
<1>5. plgCall[t].pc \notin PlgMade
  BY <1>1 DEF PlgMade
<1>6. ASSUME NEW y \in PlgTargets \ plgContended'
      PROVE  (PlgAlone(y) /\ PlgSettled(y) /\ PlgOwned(y))'
  <2>1. PlgAlone(y) /\ PlgSettled(y) /\ PlgOwned(y)
    BY <1>1, <1>6 DEF PlgInv
  <2>2. PlgAlone(y)'
    BY <1>2, <1>6, <2>1, PlgAssumption DEF PlgAlone, PlgLeaves, PlgTarget
  <2>3. PlgSettled(y)'
    BY <1>1, <1>2, <1>3, <1>6, <2>1, PlgAssumption DEF PlgSettled, PlgLeaves, PlgTarget, PlgThere
  <2>4. PlgOwned(y)'
    BY <1>1, <1>2, <1>3, <1>5, <2>1 DEF PlgOwned, PlgLeaves, PlgTarget, PlgThere
  <2> QED
    BY <2>2, <2>3, <2>4
<1> QED
  BY <1>4, <1>6 DEF PlgInv

\* A crash ends all calls; what they were making becomes contended.
LEMMA PlgCrashKeeps ==
  ASSUME PlgInv, PlgCrash
  PROVE  PlgInv'
<1>1. /\ plgCall' = [t \in PlgThreads |-> PlgIdle] /\ UNCHANGED <<plgDirs, plgInstalled>>
      /\ plgContended' = plgContended \cup {PlgTarget(t) : t \in {o \in PlgThreads :
                                            plgCall[o].pc \in {"cloning", "failed", "verify"}}}
  BY DEF PlgCrash
<1>2. PlgIdle \in PlgCallSet /\ PlgIdle.target = "" /\ PlgIdle.pc = "idle"
  BY DEF PlgIdle, PlgCallSet, PlgPcs
<1>3. PlgTypes'
  BY <1>1, <1>2 DEF PlgInv, PlgTypes, PlgAt, PlgTarget
<1>4. ASSUME NEW y \in PlgTargets \ plgContended'
      PROVE  (PlgAlone(y) /\ PlgSettled(y) /\ PlgOwned(y))'
  <2>1. /\ y \notin plgContended
        /\ \A o \in PlgThreads : plgCall[o].pc \in PlgMade => PlgTarget(o) # y
    BY <1>1, <1>4 DEF PlgMade
  <2>2. PlgSettled(y) /\ PlgOwned(y)
    BY <1>4, <2>1 DEF PlgInv
  <2>3. \A t \in PlgThreads : PlgTarget(t)' # y
    BY <1>1, <1>2, <1>4, PlgAssumption DEF PlgTarget
  <2> QED
    BY <1>1, <2>1, <2>2, <2>3 DEF PlgAlone, PlgSettled, PlgOwned, PlgThere
<1> QED
  BY <1>3, <1>4 DEF PlgInv

\* The invariant holds of every behaviour of the plugins.
LEMMA PlgInvHolds == PlgSpec => []PlgInv
<1>1. PlgInv /\ [PlgNext]_plgVars => PlgInv'
  <2> SUFFICES ASSUME PlgInv, [PlgNext]_plgVars PROVE PlgInv'
    OBVIOUS
  <2>1. CASE UNCHANGED plgVars
    BY <2>1 DEF plgVars, PlgInv, PlgTypes, PlgAlone, PlgSettled, PlgOwned, PlgThere, PlgTarget, PlgAt
  <2>2. ASSUME NEW t \in PlgThreads, NEW x \in PlgTargets,
               PluginInstallTool(t, x) \/ PluginMarketplaceTool(t, x) \/ PluginCommand(t, x)
        PROVE  PlgInv'
    BY <2>2, PlgBeginKeeps DEF PluginInstallTool, PluginMarketplaceTool, PluginCommand
  <2>3. ASSUME NEW t \in PlgThreads, PlgInstall(t) PROVE PlgInv'
    BY <2>3, PlgInstallKeeps
  <2>4. ASSUME NEW t \in PlgThreads, PlgCloneStarts(t) PROVE PlgInv'
    BY <2>4, PlgCloneStartsKeeps
  <2>5. ASSUME NEW t \in PlgThreads, PlgCleanup(t) PROVE PlgInv'
    BY <2>5, PlgCleanupKeeps
  <2>6. ASSUME NEW t \in PlgThreads, PlgVerify(t) PROVE PlgInv'
    BY <2>6, PlgVerifyKeeps
  <2>7. ASSUME NEW t \in PlgThreads, PlgRemove(t) PROVE PlgInv'
    BY <2>7, PlgRemoveKeeps
  <2>8. ASSUME NEW t \in PlgThreads, NEW reachable \in BOOLEAN, ProbeReachable(t, reachable)
        PROVE  PlgInv'
    BY <2>8, PlgProbeKeeps
  <2>9. ASSUME NEW t \in PlgThreads, NEW outcome \in {"partial", "whole", "bare"},
               PlgCloneEnds(t, outcome)
        PROVE  PlgInv'
    BY <2>9, PlgCloneEndsKeeps
  <2>10. CASE PlgCrash
    BY <2>10, PlgCrashKeeps
  <2> QED
    BY <2>1, <2>2, <2>3, <2>4, <2>5, <2>6, <2>7, <2>8, <2>9, <2>10 DEF PlgNext
<1> QED
  BY <1>1, PlgInitHolds, PTL DEF PlgSpec

(***************************************************************************)
(* Whatever installs and removals do on other targets, whichever sources   *)
(* fail and wherever the process dies, a target one call works on at a     *)
(* time is there in full exactly while it is installed                     *)
(* (PluginManager::install, add_marketplace, remove, clone_with_fallback). *)
(***************************************************************************)
THEOREM PluginsWhole == PlgSpec => []PluginsAreWhole
BY PlgInvHolds, PlgInvImpliesWhole, PTL

\* A step of a call is counted or not.
PlgCounted == plgOps \in 0..PlgMaxOps /\ plgContended \subseteq PlgTargets
              /\ \A x \in DOMAIN plgDirs : plgDirs[x] \in {"partial", "whole", "bare"}

\* Directories, reports and marks are of targets, and each directory is partial, whole
\* or bare (PluginManager).
LEMMA PlgTypesHold == PlgSpec => []PlgTypeOK
<1>0. PlgMaxOps \in Nat
  BY PlgAssumption
<1>1. PlgInit => PlgCounted
  BY <1>0 DEF PlgInit, PlgCounted
<1>2. PlgInv /\ PlgCounted /\ [PlgNext]_plgVars => PlgCounted'
  <2> SUFFICES ASSUME PlgInv, PlgCounted, [PlgNext]_plgVars PROVE PlgCounted'
    OBVIOUS
  <2>1. plgOps' \in 0..PlgMaxOps
    <3>1. plgOps' = plgOps \/ (plgOps < PlgMaxOps /\ plgOps' = plgOps + 1)
      BY DEF PlgNext, plgVars, PluginInstallTool, PluginMarketplaceTool, PluginCommand, PlgBegin,
             PlgInstall, PlgCloneStarts, PlgCleanup, PlgVerify, PlgRemove, ProbeReachable,
             PlgCloneEnds, PlgCrash
    <3>2. plgOps \in 0..PlgMaxOps
      BY DEF PlgCounted
    <3> QED BY ONLY <1>0, <3>1, <3>2
  <2>2. plgContended' \subseteq PlgTargets
    <3>1. \/ plgContended' = plgContended
          \/ PlgCrash
          \/ \E x \in PlgTargets : plgContended' \subseteq plgContended \cup {x}
      BY DEF PlgNext, plgVars, PluginInstallTool, PluginMarketplaceTool, PluginCommand, PlgBegin,
             PlgInstall, PlgCloneStarts, PlgCleanup, PlgVerify, PlgRemove, ProbeReachable,
             PlgCloneEnds
    <3>2. PlgCrash => plgContended' \subseteq PlgTargets
      BY DEF PlgCrash, PlgInv, PlgTypes, PlgAt, PlgCounted
    <3> QED BY <3>1, <3>2 DEF PlgCounted
  <2>3. \A x \in DOMAIN plgDirs' : plgDirs'[x] \in {"partial", "whole", "bare"}
    <3>1. \/ plgDirs' = plgDirs
          \/ \E x : PlgRemoveAll(x)
          \/ \E x : \E outcome \in {"partial", "whole", "bare"} : PlgPut(x, outcome)
      BY DEF PlgNext, plgVars, PluginInstallTool, PluginMarketplaceTool, PluginCommand, PlgBegin,
             PlgInstall, PlgCloneStarts, PlgCleanup, PlgVerify, PlgRemove, ProbeReachable,
             PlgCloneEnds, PlgCrash
    <3> QED BY <3>1 DEF PlgCounted, PlgPut, PlgRemoveAll
  <2> QED BY <2>1, <2>2, <2>3 DEF PlgCounted
<1>3. PlgInv /\ PlgCounted => PlgTypeOK
  BY DEF PlgInv, PlgTypes, PlgCounted, PlgTypeOK
<1> QED
  BY <1>1, <1>2, <1>3, PlgInvHolds, PTL DEF PlgSpec

-----------------------------------------------------------------------------
(* The curated memory: its file keeps what was saved *)

CurPcs == {"idle", "lock", "read", "write", "rename", "unlock"}
CurCallSet == [op : {"none", "add", "remove"}, entries : SUBSET CurEntries, pc : CurPcs]
CurLocked == {"read", "write", "rename", "unlock"}

\* What is under way has an operation, and an add has its one entry.
CurCallOK(c) ==
  /\ c \in CurCallSet
  /\ c.pc \in CurLocked \cup {"lock"} => c.op # "none"
  /\ c.op = "add" => \E e \in CurEntries : c.entries = {e}

CurTypes ==
  /\ curFile \in Seq(CurEntries) /\ curTmp \in Seq(CurEntries)
  /\ curList \in [CurProcesses -> Seq(CurEntries)]
  /\ curCall \in [CurProcesses -> CurCallSet]
  /\ \A p \in CurProcesses : CurCallOK(curCall[p])

\* A list that may replace a file: the change of an add or a remove, and nothing else.
CurFits(list, file, c) ==
  /\ IsInjective(list)
  /\ c.op = "add" => ToSet(list) = ToSet(file) \cup c.entries
  /\ c.op = "remove" => ToSet(list) \subseteq ToSet(file)

CurHeld == \A p \in CurProcesses : curCall[p].pc \in CurLocked <=> curLock = p
CurReady ==
  \A p \in CurProcesses :
    /\ curCall[p].pc \in {"write", "rename"} => CurFits(curList[p], curFile, curCall[p])
    /\ curCall[p].pc = "rename" => curTmp = curList[p]

CurInv == CurTypes /\ CurHeld /\ CurReady /\ FileKeepsWhatWasSaved

-----------------------------------------------------------------------------
\* A new entry at the end keeps a list free of repetitions.
LEMMA CurAppendIsInjective ==
  ASSUME NEW S, NEW s \in Seq(S), NEW x \in S, IsInjective(s), x \notin ToSet(s)
  PROVE  /\ Append(s, x) \in Seq(S) /\ IsInjective(Append(s, x))
         /\ ToSet(Append(s, x)) = ToSet(s) \cup {x}
<1> SUFFICES ASSUME NEW u, u = Append(s, x)
             PROVE  u \in Seq(S) /\ IsInjective(u) /\ ToSet(u) = ToSet(s) \cup {x}
  OBVIOUS
<1>0. Len(s) \in Nat /\ DOMAIN s = 1..Len(s)
  OBVIOUS
<1>1. /\ u \in Seq(S) /\ DOMAIN u = 1..Len(s) + 1
      /\ \A i \in 1..Len(s) : u[i] = s[i]
      /\ u[Len(s) + 1] = x
  OBVIOUS
<1>2. \A i \in 1..Len(s) : u[i] # x
  BY <1>0, <1>1 DEF ToSet
<1>3. IsInjective(u)
  BY <1>0, <1>1, <1>2 DEF IsInjective
<1>4. ToSet(u) = ToSet(s) \cup {x}
  BY <1>0, <1>1 DEF ToSet
<1> QED
  BY <1>1, <1>3, <1>4

\* The elements behind the one taken away move up.
LEMMA CurRemoveAtShape ==
  ASSUME NEW S, NEW s \in Seq(S), NEW i \in 1..Len(s)
  PROVE  /\ RemoveAt(s, i) \in Seq(S) /\ DOMAIN RemoveAt(s, i) = 1..Len(s) - 1
         /\ \A j \in 1..Len(s) - 1 : RemoveAt(s, i)[j] = IF j < i THEN s[j] ELSE s[j + 1]
<1>0. Len(s) \in Nat /\ i \in Int /\ i - 1 \in Int /\ i + 1 \in Int
  OBVIOUS
<1> SUFFICES ASSUME NEW a, a = SubSeq(s, 1, i - 1), NEW b, b = SubSeq(s, i + 1, Len(s)),
                    NEW u, u = RemoveAt(s, i)
             PROVE  /\ u \in Seq(S) /\ DOMAIN u = 1..Len(s) - 1
                    /\ \A j \in 1..Len(s) - 1 : u[j] = IF j < i THEN s[j] ELSE s[j + 1]
  OBVIOUS
<1>00. u = a \o b
  BY DEF RemoveAt
<1>1. \A j \in 1..Len(s) : s[j] \in S
  OBVIOUS
<1>2. a \in Seq(S) /\ Len(a) = i - 1 /\ \A j \in 1..i - 1 : a[j] = s[j]
  <2>1. \A j \in 1..i - 1 : s[j] \in S
    BY <1>0, <1>1
  <2> QED
    BY <1>0, <2>1, SubSeqProperties
<1>3. b \in Seq(S) /\ Len(b) = Len(s) - i /\ \A j \in 1..Len(s) - i : b[j] = s[i + j]
  <2>1. \A j \in i + 1..Len(s) : s[j] \in S
    BY <1>0, <1>1
  <2>2. /\ b \in Seq(S) /\ Len(b) = IF i + 1 <= Len(s) THEN Len(s) - (i + 1) + 1 ELSE 0
        /\ \A j \in 1..Len(s) - (i + 1) + 1 : b[j] = s[i + 1 + j - 1]
    BY <1>0, <2>1, SubSeqProperties
  <2> QED
    BY <1>0, <2>2
<1>4. /\ u \in Seq(S) /\ Len(u) = Len(s) - 1
      /\ \A j \in 1..Len(s) - 1 : u[j] = IF j <= i - 1 THEN a[j] ELSE b[j - (i - 1)]
  <2>1. /\ u \in Seq(S) /\ Len(u) = Len(a) + Len(b)
        /\ \A j \in 1..Len(a) + Len(b) : u[j] = IF j <= Len(a) THEN a[j] ELSE b[j - Len(a)]
    <3>1. a \in Seq(S) /\ b \in Seq(S)
      BY <1>2, <1>3, Zenon
    <3>2. /\ a \o b \in Seq(S) /\ Len(a \o b) = Len(a) + Len(b)
          /\ \A j \in 1..Len(a) + Len(b) :
               (a \o b)[j] = IF j <= Len(a) THEN a[j] ELSE b[j - Len(a)]
      BY <3>1, ConcatProperties, Zenon
    <3> QED
      BY ONLY <1>00, <3>2, Zenon
  <2>2. Len(a) = i - 1 /\ Len(a) + Len(b) = Len(s) - 1
    <3>1. Len(a) = i - 1 /\ Len(b) = Len(s) - i
      BY <1>2, <1>3, Zenon
    <3> QED
      BY ONLY <1>0, <3>1
  <2> QED
    BY <2>1, <2>2
<1>5. DOMAIN u = 1..Len(s) - 1
  <2>1. u \in Seq(S) /\ Len(u) = Len(s) - 1
    BY <1>4
  <2>2. DOMAIN u = 1..Len(u)
    BY <2>1, LenProperties, Zenon
  <2> QED
    BY <2>1, <2>2
<1>6. ASSUME NEW j \in 1..Len(s) - 1 PROVE u[j] = IF j < i THEN s[j] ELSE s[j + 1]
  <2>1. CASE j < i
    <3>1. j \in 1..i - 1 /\ j <= i - 1
      BY <1>0, <2>1
    <3> QED
      BY <1>2, <1>4, <2>1, <3>1
  <2>2. CASE ~(j < i)
    <3>1. /\ j - (i - 1) \in 1..Len(s) - i /\ i + (j - (i - 1)) = j + 1 /\ ~(j <= i - 1)
      BY <1>0, <2>2
    <3> QED
      BY <1>3, <1>4, <2>2, <3>1
  <2> QED
    BY <2>1, <2>2
<1> QED
  BY <1>4, <1>5, <1>6

\* Nothing appears twice, and nothing new, where an entry is taken away.
LEMMA CurRemoveAtIsInjective ==
  ASSUME NEW S, NEW s \in Seq(S), NEW i \in 1..Len(s), IsInjective(s)
  PROVE  /\ RemoveAt(s, i) \in Seq(S) /\ IsInjective(RemoveAt(s, i))
         /\ ToSet(RemoveAt(s, i)) \subseteq ToSet(s)
<1> SUFFICES ASSUME NEW u, u = RemoveAt(s, i)
             PROVE  u \in Seq(S) /\ IsInjective(u) /\ ToSet(u) \subseteq ToSet(s)
  OBVIOUS
<1>1. /\ u \in Seq(S) /\ DOMAIN u = 1..Len(s) - 1
      /\ \A j \in 1..Len(s) - 1 : u[j] = IF j < i THEN s[j] ELSE s[j + 1]
  BY CurRemoveAtShape
<1>2. Len(s) \in Nat /\ DOMAIN s = 1..Len(s)
  OBVIOUS
<1>3. \A j \in 1..Len(s) - 1 : j \in 1..Len(s) /\ j + 1 \in 1..Len(s)
  BY <1>2
<1>4. IsInjective(u)
  <2> SUFFICES ASSUME NEW j \in 1..Len(s) - 1, NEW k \in 1..Len(s) - 1, u[j] = u[k]
               PROVE  j = k
    BY <1>1 DEF IsInjective
  <2> DEFINE at(n) == IF n < i THEN n ELSE n + 1
  <2>1. /\ at(j) \in 1..Len(s) /\ at(k) \in 1..Len(s)
        /\ u[j] = s[at(j)] /\ u[k] = s[at(k)]
    BY <1>1, <1>3
  <2>2. at(j) = at(k)
    <3> HIDE DEF at
    <3> QED
      BY <1>2, <2>1 DEF IsInjective
  <2> QED
    BY <1>2, <2>2
<1>5. ToSet(u) \subseteq ToSet(s)
  BY <1>1, <1>2, <1>3 DEF ToSet
<1> QED
  BY <1>1, <1>4, <1>5

\* Whatever add or remove makes of the entries of the file may replace it.
LEMMA CurChangedFits ==
  ASSUME NEW file \in Seq(CurEntries), IsInjective(file),
         NEW c, CurCallOK(c), c.op \in {"add", "remove"}
  PROVE  CurChanged(file, c) \in Seq(CurEntries) /\ CurFits(CurChanged(file, c), file, c)
<1>1. CurHits(file, c) \subseteq 1..Len(file) /\ Len(file) \in Nat
  BY DEF CurHits
<1>2. CurHits(file, c) = {} <=> ToSet(file) \cap c.entries = {}
  BY DEF CurHits, ToSet
<1>3. CASE c.op = "add"
  <2>1. PICK e \in CurEntries : c.entries = {e}
    BY <1>3 DEF CurCallOK
  <2>2. (CHOOSE x \in c.entries : TRUE) = e
    BY <2>1
  <2>3. CASE CurHits(file, c) = {}
    <3>1. CurChanged(file, c) = Append(file, e) /\ e \notin ToSet(file)
      BY <1>2, <1>3, <2>1, <2>2, <2>3 DEF CurChanged
    <3> QED
      BY <1>3, <2>1, <3>1, CurAppendIsInjective DEF CurFits
  <2>4. CASE CurHits(file, c) # {}
    <3>1. CurChanged(file, c) = file /\ c.entries \subseteq ToSet(file)
      BY <1>2, <1>3, <2>1, <2>4 DEF CurChanged
    <3> QED
      BY <1>3, <3>1 DEF CurFits
  <2> QED
    BY <2>3, <2>4
<1>4. CASE c.op = "remove"
  <2>1. CASE CurHits(file, c) = {}
    BY <1>4, <2>1 DEF CurChanged, CurFits
  <2>2. CASE CurHits(file, c) # {}
    <3>1. Min(CurHits(file, c)) \in 1..Len(file)
      BY <1>1, <2>2, MinOfNaturals
    <3>2. CurChanged(file, c) = RemoveAt(file, Min(CurHits(file, c)))
      BY <1>4, <2>2 DEF CurChanged
    <3> QED
      BY <1>4, <3>1, <3>2, CurRemoveAtIsInjective DEF CurFits
  <2> QED
    BY <2>1, <2>2
<1> QED
  BY <1>3, <1>4

-----------------------------------------------------------------------------
\* The file is empty at the start and no call under way.
LEMMA CurInitHolds == CurInit => CurInv
<1> SUFFICES ASSUME CurInit PROVE CurInv
  OBVIOUS
<1>1. CurIdle \in CurCallSet /\ CurIdle.pc = "idle" /\ CurIdle.op = "none"
  BY DEF CurIdle, CurCallSet, CurPcs
<1>2. CurCallOK(CurIdle)
  BY <1>1 DEF CurCallOK, CurLocked
<1>3. /\ curFile = <<>> /\ curTmp = <<>> /\ curList = [p \in CurProcesses |-> <<>>]
      /\ curCall = [p \in CurProcesses |-> CurIdle] /\ curSaved = {}
  BY DEF CurInit
<1>4. CurTypes
  BY <1>1, <1>2, <1>3 DEF CurTypes
<1>5. CurHeld /\ CurReady
  BY <1>1, <1>3, CurAssumption DEF CurInit, CurHeld, CurReady, CurLocked
<1>6. FileKeepsWhatWasSaved
  BY <1>3 DEF FileKeepsWhatWasSaved, IsInjective, ToSet
<1> QED
  BY <1>4, <1>5, <1>6 DEF CurInv

\* A step of a call changes its place and leaves the other calls alone.
LEMMA CurPcChanges ==
  ASSUME CurTypes, NEW p \in CurProcesses, NEW pc \in CurPcs, CurGo(p, pc),
         curCall[p].op # "none"
  PROVE  /\ curCall' \in [CurProcesses -> CurCallSet]
         /\ \A q \in CurProcesses : CurCallOK(curCall'[q])
         /\ curCall'[p].pc = pc /\ curCall'[p].op = curCall[p].op
         /\ curCall'[p].entries = curCall[p].entries
         /\ \A q \in CurProcesses \ {p} : curCall'[q] = curCall[q]
<1> SUFFICES ASSUME NEW c, c = [curCall[p] EXCEPT !.pc = pc]
             PROVE  /\ curCall' \in [CurProcesses -> CurCallSet]
                    /\ \A q \in CurProcesses : CurCallOK(curCall'[q])
                    /\ curCall'[p].pc = pc /\ curCall'[p].op = curCall[p].op
                    /\ curCall'[p].entries = curCall[p].entries
                    /\ \A q \in CurProcesses \ {p} : curCall'[q] = curCall[q]
  OBVIOUS
<1>1. curCall[p] \in CurCallSet /\ CurCallOK(curCall[p])
  BY DEF CurTypes
<1>2. /\ c \in CurCallSet /\ c.pc = pc /\ c.op = curCall[p].op
      /\ c.entries = curCall[p].entries
  BY <1>1 DEF CurCallSet
<1>3. CurCallOK(c)
  BY <1>1, <1>2 DEF CurCallOK
<1>4. curCall' = [curCall EXCEPT ![p] = c]
  BY DEF CurGo
<1> QED
  BY <1>2, <1>3, <1>4 DEF CurTypes

\* The end of a call leaves the other calls alone.
LEMMA CurCallEnds ==
  ASSUME CurTypes, NEW p \in CurProcesses, CurDone(p)
  PROVE  /\ curCall' \in [CurProcesses -> CurCallSet]
         /\ \A q \in CurProcesses : CurCallOK(curCall'[q])
         /\ curCall'[p].pc = "idle"
         /\ \A q \in CurProcesses \ {p} : curCall'[q] = curCall[q]
<1>1. CurIdle \in CurCallSet /\ CurIdle.pc = "idle" /\ CurIdle.op = "none"
  BY DEF CurIdle, CurCallSet, CurPcs
<1>2. CurCallOK(CurIdle)
  BY <1>1 DEF CurCallOK, CurLocked
<1> QED
  BY <1>1, <1>2 DEF CurTypes, CurDone, CurGoWith

\* A call begins; it has no lock yet.
LEMMA CurBeginKeeps ==
  ASSUME CurInv, NEW p \in CurProcesses, NEW op \in {"add", "remove"},
         NEW E \in SUBSET CurEntries, op = "add" => \E e \in CurEntries : E = {e},
         CurBegin(p, op, E)
  PROVE  CurInv'
<1> SUFFICES ASSUME NEW c, c = [op |-> op, entries |-> E, pc |-> "lock"] PROVE CurInv'
  OBVIOUS
<1>1. c \in CurCallSet /\ c.pc = "lock" /\ c.op = op /\ c.entries = E
  BY DEF CurCallSet, CurPcs
<1>2. CurCallOK(c)
  BY <1>1 DEF CurCallOK
<1>3. /\ curCall' = [curCall EXCEPT ![p] = c]
      /\ UNCHANGED <<curFile, curTmp, curList, curLock, curSaved>>
  BY DEF CurBegin, CurGoWith
<1>4. CurTypes'
  BY <1>1, <1>2, <1>3 DEF CurInv, CurTypes
<1>5. curCall'[p].pc = "lock" /\ \A q \in CurProcesses \ {p} : curCall'[q] = curCall[q]
  BY <1>1, <1>3 DEF CurInv, CurTypes
<1>6. curCall[p].pc = "idle"
  <2>1. CurIdle.pc = "idle"
    BY DEF CurIdle
  <2> QED
    BY <2>1 DEF CurBegin
<1>7. CurHeld' /\ CurReady'
  BY <1>3, <1>5, <1>6 DEF CurInv, CurHeld, CurReady, CurLocked
<1> QED
  BY <1>3, <1>4, <1>7 DEF CurInv, FileKeepsWhatWasSaved

\* A step that leaves the file alone, of a process that has the lock or takes it.
LEMMA CurStepKeeps ==
  ASSUME CurInv, NEW p \in CurProcesses, curCall[p].pc \in CurLocked \cup {"lock"},
         NEW pc \in CurLocked, CurGo(p, pc), UNCHANGED <<curFile, curSaved>>,
         IF curCall[p].pc = "lock" THEN curLock = "none" /\ curLock' = p ELSE UNCHANGED curLock,
         curTmp' \in Seq(CurEntries), curList' \in [CurProcesses -> Seq(CurEntries)],
         \A q \in CurProcesses \ {p} : curList'[q] = curList[q],
         pc \in {"write", "rename"} => CurFits(curList'[p], curFile, curCall[p]),
         pc = "rename" => curTmp' = curList'[p]
  PROVE  CurInv'
<1>1. CurTypes /\ CurHeld /\ CurReady /\ FileKeepsWhatWasSaved
  BY DEF CurInv
<1>2. curCall[p].op # "none" /\ pc \in CurPcs
  BY <1>1 DEF CurTypes, CurCallOK, CurLocked, CurPcs
<1>3. /\ curCall' \in [CurProcesses -> CurCallSet]
      /\ \A q \in CurProcesses : CurCallOK(curCall'[q])
      /\ curCall'[p].pc = pc /\ curCall'[p].op = curCall[p].op
      /\ curCall'[p].entries = curCall[p].entries
      /\ \A q \in CurProcesses \ {p} : curCall'[q] = curCall[q]
  BY <1>1, <1>2, CurPcChanges
<1>4. CurTypes'
  BY <1>1, <1>3 DEF CurTypes
<1>5. \A q \in CurProcesses \ {p} : curCall[q].pc \notin CurLocked
  BY <1>1, CurAssumption DEF CurHeld
<1>6. curLock' = p
  BY <1>1 DEF CurHeld
<1>7. CurHeld'
  BY <1>3, <1>5, <1>6 DEF CurHeld
<1>8. CurReady'
  BY <1>3, <1>5 DEF CurReady, CurFits, CurLocked
<1> QED
  BY <1>1, <1>4, <1>7, <1>8 DEF CurInv, FileKeepsWhatWasSaved

\* The end of a call, which gives the lock back if it has it.
LEMMA CurEndKeeps ==
  ASSUME CurInv, NEW p \in CurProcesses, CurDone(p), UNCHANGED <<curFile, curTmp, curSaved>>,
         curLock' = IF curLock = p THEN "none" ELSE curLock,
         curList' \in [CurProcesses -> Seq(CurEntries)],
         \A q \in CurProcesses \ {p} : curList'[q] = curList[q]
  PROVE  CurInv'
<1>1. CurTypes /\ CurHeld /\ CurReady /\ FileKeepsWhatWasSaved
  BY DEF CurInv
<1>2. /\ curCall' \in [CurProcesses -> CurCallSet]
      /\ \A q \in CurProcesses : CurCallOK(curCall'[q])
      /\ curCall'[p].pc = "idle"
      /\ \A q \in CurProcesses \ {p} : curCall'[q] = curCall[q]
  BY <1>1, CurCallEnds
<1>3. CurTypes'
  BY <1>1, <1>2 DEF CurTypes
<1>4. CurHeld'
  BY <1>1, <1>2, CurAssumption DEF CurHeld, CurLocked
<1>5. CurReady'
  BY <1>1, <1>2 DEF CurReady
<1> QED
  BY <1>1, <1>3, <1>4, <1>5 DEF CurInv, FileKeepsWhatWasSaved

\* The lock is given to one process, or the call ends without it.
LEMMA CurLockKeeps ==
  ASSUME CurInv, NEW p \in CurProcesses, NEW valid \in BOOLEAN, FileLock(p, valid)
  PROVE  CurInv'
<1>1. /\ curCall[p].pc = "lock" /\ UNCHANGED <<curFile, curTmp, curList, curSaved>>
      /\ CurTypes /\ CurHeld
  BY DEF FileLock, CurAt, CurInv
<1>2. CASE valid
  <2>1. curLock = "none" /\ curLock' = p /\ CurGo(p, "read") /\ "read" \in CurLocked
    BY <1>2 DEF FileLock, CurLocked
  <2> QED
    BY <1>1, <2>1, CurStepKeeps DEF CurTypes
<1>3. CASE ~valid
  <2>1. CurDone(p) /\ UNCHANGED curLock
    BY <1>3 DEF FileLock
  <2>2. curLock # p
    BY <1>1 DEF CurHeld, CurLocked
  <2> QED
    BY <1>1, <2>1, <2>2, CurEndKeeps DEF CurTypes
<1> QED
  BY <1>2, <1>3

\* The list is the change of the file as it is, whatever the process had before.
LEMMA CurReadKeeps ==
  ASSUME CurInv, NEW p \in CurProcesses, CurRead(p)
  PROVE  CurInv'
<1> SUFFICES ASSUME NEW list, list = CurChanged(curFile, curCall[p]) PROVE CurInv'
  OBVIOUS
<1>1. /\ curCall[p].pc = "read" /\ curList' = [curList EXCEPT ![p] = list]
      /\ UNCHANGED <<curFile, curTmp, curLock, curSaved>> /\ CurTypes
      /\ FileKeepsWhatWasSaved
  BY DEF CurRead, CurAt, CurInv
<1>2. PICK pc \in {"write", "unlock"} : CurGo(p, pc)
  BY DEF CurRead
<1>3. CurCallOK(curCall[p]) /\ curCall[p].op \in {"add", "remove"}
  BY <1>1 DEF CurTypes, CurCallOK, CurCallSet, CurLocked
<1>4. list \in Seq(CurEntries) /\ CurFits(list, curFile, curCall[p])
  BY <1>1, <1>3, CurChangedFits DEF CurTypes, FileKeepsWhatWasSaved
<1>5. /\ curList' \in [CurProcesses -> Seq(CurEntries)] /\ curList'[p] = list
      /\ \A q \in CurProcesses \ {p} : curList'[q] = curList[q]
  BY <1>1, <1>4 DEF CurTypes
<1>6. pc \in CurLocked /\ curCall[p].pc \in CurLocked /\ pc # "rename"
  BY <1>1 DEF CurLocked
<1> QED
  BY <1>1, <1>2, <1>4, <1>5, <1>6, CurStepKeeps DEF CurTypes

\* The temporary file holds the whole list, or the call goes on to its end.
LEMMA CurWriteKeeps ==
  ASSUME CurInv, ~CurShortWrites, NEW p \in CurProcesses, NEW opened \in BOOLEAN,
         CurWriteFile(p, opened)
  PROVE  CurInv'
<1>1. /\ curCall[p].pc = "write" /\ UNCHANGED <<curFile, curList, curLock, curSaved>>
      /\ CurTypes /\ CurReady
  BY DEF CurWriteFile, CurAt, CurInv
<1>2. curList[p] \in Seq(CurEntries) /\ CurFits(curList[p], curFile, curCall[p])
  BY <1>1 DEF CurTypes, CurReady
<1>3. curCall[p].pc \in CurLocked /\ "rename" \in CurLocked /\ "unlock" \in CurLocked
  BY <1>1 DEF CurLocked
<1>4. CASE opened
  <2>1. curTmp' = SubSeq(curList[p], 1, Len(curList[p])) /\ CurGo(p, "rename")
    BY <1>4 DEF CurWriteFile
  <2>2. curTmp' = curList[p]
    BY <1>2, <2>1, SubSeqFull
  <2> QED
    BY <1>1, <1>2, <1>3, <2>1, <2>2, CurStepKeeps DEF CurTypes
<1>5. CASE ~opened
  <2>1. UNCHANGED curTmp /\ CurGo(p, "unlock")
    BY <1>5 DEF CurWriteFile
  <2> QED
    BY <1>1, <1>3, <2>1, CurStepKeeps DEF CurTypes
<1> QED
  BY <1>4, <1>5

\* The list of the process becomes the file; it fits what is saved with the rename.
LEMMA CurRenameKeeps ==
  ASSUME CurInv, NEW p \in CurProcesses, NEW renamed \in BOOLEAN, CurRename(p, renamed)
  PROVE  CurInv'
<1>1. /\ curCall[p].pc = "rename" /\ UNCHANGED <<curTmp, curList, curLock>>
      /\ CurGo(p, "unlock") /\ CurTypes /\ CurHeld /\ CurReady /\ FileKeepsWhatWasSaved
  BY DEF CurRename, CurAt, CurInv
<1>2. curCall[p].pc \in CurLocked /\ "unlock" \in CurLocked /\ "unlock" \in CurPcs
  BY <1>1 DEF CurLocked, CurPcs
<1>3. CASE ~renamed
  <2>1. UNCHANGED <<curFile, curSaved>>
    BY <1>3 DEF CurRename
  <2> QED
    BY <1>1, <1>2, <2>1, CurStepKeeps DEF CurTypes
<1>4. CASE renamed
  <2>1. /\ curFile' = curTmp
        /\ curSaved' = IF curCall[p].op = "add" THEN curSaved \cup curCall[p].entries
                       ELSE curSaved \ (ToSet(curFile) \ ToSet(curList[p]))
    BY <1>4 DEF CurRename
  <2>2. curTmp = curList[p] /\ CurFits(curList[p], curFile, curCall[p])
    BY <1>1 DEF CurReady
  <2>3. curCall[p].op \in {"add", "remove"}
    BY <1>1, <1>2 DEF CurTypes, CurCallOK, CurCallSet
  <2>4. ToSet(curFile) = curSaved
    BY <1>1 DEF FileKeepsWhatWasSaved
  <2>5. curSaved' = ToSet(curList[p])
    BY <2>1, <2>2, <2>3, <2>4 DEF CurFits
  <2>6. FileKeepsWhatWasSaved'
    BY <2>1, <2>2, <2>5 DEF FileKeepsWhatWasSaved, CurFits
  <2>7. /\ curCall' \in [CurProcesses -> CurCallSet]
        /\ \A q \in CurProcesses : CurCallOK(curCall'[q])
        /\ curCall'[p].pc = "unlock"
        /\ \A q \in CurProcesses \ {p} : curCall'[q] = curCall[q]
    BY <1>1, <1>2, <2>3, CurPcChanges
  <2>8. CurTypes'
    BY <1>1, <2>1, <2>7 DEF CurTypes
  <2>9. \A q \in CurProcesses \ {p} : curCall[q].pc \notin CurLocked
    BY <1>1, <1>2 DEF CurHeld
  <2>10. CurHeld'
    BY <1>1, <1>2, <2>7 DEF CurHeld
  <2>11. CurReady'
    BY <2>7, <2>9 DEF CurReady, CurLocked
  <2> QED
    BY <2>6, <2>8, <2>10, <2>11 DEF CurInv
<1> QED
  BY <1>3, <1>4

\* The call ends and the lock is free.
LEMMA CurUnlockKeeps ==
  ASSUME CurInv, NEW p \in CurProcesses, CurUnlock(p)
  PROVE  CurInv'
<1>1. /\ curCall[p].pc = "unlock" /\ curLock' = "none" /\ CurDone(p)
      /\ UNCHANGED <<curFile, curTmp, curList, curSaved>> /\ CurTypes /\ CurHeld
  BY DEF CurUnlock, CurAt, CurInv
<1>2. curLock = p
  BY <1>1 DEF CurHeld, CurLocked
<1> QED
  BY <1>1, <1>2, CurEndKeeps DEF CurTypes

\* A process that dies drops its lock and reads the file when it starts again.
LEMMA CurCrashKeeps ==
  ASSUME CurInv, NEW p \in CurProcesses, CurCrash(p)
  PROVE  CurInv'
<1>1. /\ curLock' = IF curLock = p THEN "none" ELSE curLock
      /\ CurDone(p) /\ curList' = [curList EXCEPT ![p] = curFile]
      /\ UNCHANGED <<curFile, curTmp, curSaved>> /\ CurTypes
  BY DEF CurCrash, CurOpen, CurInv
<1>2. /\ curList' \in [CurProcesses -> Seq(CurEntries)]
      /\ \A q \in CurProcesses \ {p} : curList'[q] = curList[q]
  BY <1>1 DEF CurTypes
<1> QED
  BY <1>1, <1>2, CurEndKeeps

(***************************************************************************)
(* While the disk does not fill up, the file holds what adds have written  *)
(* and no remove has taken away, each entry once, however old the list was *)
(* that a process tested its entry against, whatever fails and whichever   *)
(* process dies (CuratedMemoryStore::add, remove, write_file).             *)
(***************************************************************************)
THEOREM FileKept ==
  ASSUME ~CurShortWrites
  PROVE  CurSpec => []FileKeepsWhatWasSaved
<1>1. CurInv /\ [CurNext]_curVars => CurInv'
  <2> SUFFICES ASSUME CurInv, [CurNext]_curVars PROVE CurInv'
    OBVIOUS
  <2>1. CASE UNCHANGED curVars
    BY <2>1 DEF curVars, CurInv, CurTypes, CurHeld, CurReady, FileKeepsWhatWasSaved
  <2>2. ASSUME NEW p \in CurProcesses, CurMemoryTool(p) PROVE CurInv'
    <3>1. CASE \E e \in CurEntries : CurAdd(p, e)
      <4>1. PICK e \in CurEntries : CurBegin(p, "add", {e})
        BY <3>1 DEF CurAdd
      <4> QED
        BY <2>2, <4>1, CurBeginKeeps
    <3>2. CASE \E S \in SUBSET CurEntries : CurRemove(p, S)
      BY <2>2, <3>2, CurBeginKeeps DEF CurRemove
    <3> QED
      BY <2>2, <3>1, <3>2 DEF CurMemoryTool
  <2>3. ASSUME NEW p \in CurProcesses, CurRead(p) PROVE CurInv'
    BY <2>3, CurReadKeeps
  <2>4. ASSUME NEW p \in CurProcesses, CurUnlock(p) PROVE CurInv'
    BY <2>4, CurUnlockKeeps
  <2>5. ASSUME NEW p \in CurProcesses, CurCrash(p) PROVE CurInv'
    BY <2>5, CurCrashKeeps
  <2>6. ASSUME NEW p \in CurProcesses, NEW ok \in BOOLEAN,
               FileLock(p, ok) \/ CurWriteFile(p, ok) \/ CurRename(p, ok)
        PROVE  CurInv'
    BY <2>6, CurLockKeeps, CurWriteKeeps, CurRenameKeeps
  <2> QED
    BY <2>1, <2>2, <2>3, <2>4, <2>5, <2>6 DEF CurNext
<1>2. CurInv => FileKeepsWhatWasSaved
  BY DEF CurInv
<1> QED
  BY <1>1, <1>2, CurInitHolds, PTL DEF CurSpec

\* What a change makes of a list is a list.
LEMMA CurChangedTyped ==
  ASSUME NEW list \in Seq(CurEntries), NEW c, CurCallOK(c)
  PROVE  CurChanged(list, c) \in Seq(CurEntries)
<1>1. CurHits(list, c) \subseteq 1..Len(list) /\ Len(list) \in Nat
  BY DEF CurHits
<1>2. CASE c.op = "add"
  <2>1. PICK e \in CurEntries : c.entries = {e}
    BY <1>2 DEF CurCallOK
  <2>2. (CHOOSE x \in c.entries : TRUE) = e
    BY <2>1
  <2>3. CurChanged(list, c) = list \/ CurChanged(list, c) = Append(list, e)
    BY <1>2, <2>2 DEF CurChanged
  <2> QED BY <2>3
<1>3. CASE c.op # "add" /\ CurHits(list, c) = {}
  BY <1>3 DEF CurChanged
<1>4. CASE c.op # "add" /\ CurHits(list, c) # {}
  <2>1. PICK i : i = Min(CurHits(list, c)) /\ i \in 1..Len(list)
    BY <1>1, <1>4, MinOfNaturals
  <2>2. CurChanged(list, c) = RemoveAt(list, i)
    BY <1>4, <2>1 DEF CurChanged
  <2> QED BY <2>1, <2>2, CurRemoveAtShape
<1> QED
  BY <1>2, <1>3, <1>4

\* The lists, the lock and the counters.
CurTyped ==
  /\ CurTypes /\ curSaved \subseteq CurEntries /\ curLock \in CurProcesses \cup {"none"}
  /\ curOps \in 0..CurMaxOps /\ curCrashes \in 0..CurMaxCrashes

\* The calls of a step: one begins, goes on or ends.
LEMMA CurCallsTyped ==
  ASSUME CurTyped, NEW p \in CurProcesses,
         \/ CurMemoryTool(p) \/ CurRead(p) \/ CurUnlock(p) \/ CurCrash(p)
         \/ \E ok \in BOOLEAN : FileLock(p, ok) \/ CurWriteFile(p, ok) \/ CurRename(p, ok)
  PROVE  /\ curCall' \in [CurProcesses -> CurCallSet]
         /\ \A q \in CurProcesses : CurCallOK(curCall'[q])
<1>1. CASE CurMemoryTool(p)
  <2>1. PICK op \in {"add", "remove"}, E \in SUBSET CurEntries :
          (op = "add" => \E e \in CurEntries : E = {e}) /\ CurBegin(p, op, E)
    <3>1. CASE \E e \in CurEntries : CurAdd(p, e)
      <4>1. PICK e \in CurEntries : CurBegin(p, "add", {e})
        BY <3>1 DEF CurAdd
      <4> QED BY <4>1
    <3>2. CASE \E S \in SUBSET CurEntries : CurRemove(p, S)
      BY <3>2 DEF CurRemove
    <3> QED BY <1>1, <3>1, <3>2 DEF CurMemoryTool
  <2>2. PICK c : c = [op |-> op, entries |-> E, pc |-> "lock"]
    OBVIOUS
  <2>3. c \in CurCallSet /\ c.op = op /\ c.entries = E
    BY <2>2 DEF CurCallSet, CurPcs
  <2>4. CurCallOK(c)
    BY <2>1, <2>3 DEF CurCallOK
  <2>5. curCall' = [curCall EXCEPT ![p] = c]
    BY <2>1, <2>2 DEF CurBegin, CurGoWith
  <2> QED BY <2>3, <2>4, <2>5 DEF CurTyped, CurTypes
<1>2. CASE CurDone(p)
  BY <1>2, CurCallEnds DEF CurTyped
<1>3. CASE \E pc \in CurPcs : CurGo(p, pc) /\ curCall[p].pc \in CurLocked \cup {"lock"}
  <2>1. curCall[p].op # "none"
    BY <1>3 DEF CurTyped, CurTypes, CurCallOK
  <2> QED BY <1>3, <2>1, CurPcChanges DEF CurTyped
<1>4. \/ CurMemoryTool(p) \/ CurDone(p)
      \/ \E pc \in CurPcs : CurGo(p, pc) /\ curCall[p].pc \in CurLocked \cup {"lock"}
  <2>1. CASE CurRead(p) \/ CurUnlock(p) \/ CurCrash(p)
    BY <2>1 DEF CurRead, CurUnlock, CurCrash, CurPcs, CurLocked, CurAt
  <2>2. ASSUME NEW ok \in BOOLEAN, FileLock(p, ok) \/ CurWriteFile(p, ok) \/ CurRename(p, ok)
        PROVE  \/ CurDone(p)
               \/ \E pc \in CurPcs : CurGo(p, pc) /\ curCall[p].pc \in CurLocked \cup {"lock"}
    BY <2>2 DEF FileLock, CurWriteFile, CurRename, CurPcs, CurLocked, CurAt
  <2> QED BY <2>1, <2>2
<1> QED
  BY <1>1, <1>2, <1>3, <1>4

\* Entries, lock and bounds of a step.
LEMMA CurStepTyped ==
  ASSUME CurTyped, NEW p \in CurProcesses,
         \/ CurMemoryTool(p) \/ CurRead(p) \/ CurUnlock(p) \/ CurCrash(p)
         \/ \E ok \in BOOLEAN : FileLock(p, ok) \/ CurWriteFile(p, ok) \/ CurRename(p, ok)
  PROVE  CurTyped'
<1> DEFINE begins == \E op : \E E : CurBegin(p, op, E)
<1>0. CurMemoryTool(p) => begins
  BY DEF CurMemoryTool, CurAdd, CurRemove
<1>1. /\ curFile \in Seq(CurEntries) /\ curTmp \in Seq(CurEntries)
      /\ curList \in [CurProcesses -> Seq(CurEntries)] /\ curCall[p] \in CurCallSet
      /\ CurCallOK(curCall[p]) /\ curList[p] \in Seq(CurEntries)
  BY DEF CurTyped, CurTypes
<1>2. curList' \in [CurProcesses -> Seq(CurEntries)]
  <2>1. PICK list : list = CurChanged(curFile, curCall[p])
    OBVIOUS
  <2>2. list \in Seq(CurEntries)
    BY <1>1, <2>1, CurChangedTyped
  <2>3. \/ curList' = curList \/ curList' = [curList EXCEPT ![p] = list]
        \/ curList' = [curList EXCEPT ![p] = curFile]
    BY <1>0, <2>1 DEF CurBegin, CurRead, CurUnlock, CurCrash, CurOpen, FileLock,
           CurWriteFile, CurRename
  <2> QED BY <1>1, <2>2, <2>3
<1>3. curFile' \in {curFile, curTmp}
  BY <1>0 DEF CurBegin, CurRead, CurUnlock, CurCrash, FileLock, CurWriteFile, CurRename
<1>4. curTmp' \in Seq(CurEntries)
  <2>1. PICK list : list = curList[p] /\ list \in Seq(CurEntries) /\ Len(list) \in Nat
    BY <1>1
  <2>2. curTmp' = curTmp \/ \E n \in 0..Len(list) : curTmp' = SubSeq(list, 1, n)
    <3>1. CASE \E ok \in BOOLEAN : CurWriteFile(p, ok)
      <4>1. (IF CurShortWrites THEN 0..Len(list) ELSE {Len(list)}) \subseteq 0..Len(list)
        BY <2>1
      <4> QED BY <2>1, <3>1, <4>1 DEF CurWriteFile
    <3>2. CASE ~\E ok \in BOOLEAN : CurWriteFile(p, ok)
      BY <1>0, <3>2 DEF CurBegin, CurRead, CurUnlock, CurCrash, FileLock, CurRename
    <3> QED BY <3>1, <3>2
  <2>3. \A n \in 0..Len(list) : SubSeq(list, 1, n) \in Seq(CurEntries)
    BY <2>1
  <2> QED BY <1>1, <2>2, <2>3
<1>5. curSaved' \subseteq CurEntries
  <2>1. curCall[p].entries \subseteq CurEntries
    BY <1>1 DEF CurCallSet
  <2>2. curSaved' \subseteq curSaved \cup curCall[p].entries
    BY <1>0 DEF CurBegin, CurRead, CurUnlock, CurCrash, FileLock, CurWriteFile, CurRename
  <2> QED BY <2>1, <2>2 DEF CurTyped
<1>6. curLock' \in {curLock, p, "none"}
  BY <1>0 DEF CurBegin, CurRead, CurUnlock, CurCrash, FileLock, CurWriteFile, CurRename
<1>7. curOps' \in 0..CurMaxOps /\ curCrashes' \in 0..CurMaxCrashes
  <2>1. /\ curOps' = curOps \/ (curOps < CurMaxOps /\ curOps' = curOps + 1)
        /\ \/ curCrashes' = curCrashes
           \/ (curCrashes < CurMaxCrashes /\ curCrashes' = curCrashes + 1)
    BY <1>0 DEF CurBegin, CurRead, CurUnlock, CurCrash, FileLock, CurWriteFile, CurRename
  <2>2. /\ CurMaxOps \in Nat /\ CurMaxCrashes \in Nat
        /\ curOps \in 0..CurMaxOps /\ curCrashes \in 0..CurMaxCrashes
    BY CurAssumption DEF CurTyped
  <2> QED BY ONLY <2>1, <2>2
<1>8. CurTypes'
  <2>1. /\ curCall' \in [CurProcesses -> CurCallSet]
        /\ \A q \in CurProcesses : CurCallOK(curCall'[q])
    BY CurCallsTyped
  <2> QED BY <1>1, <1>2, <1>3, <1>4, <2>1 DEF CurTypes
<1>9. curLock' \in CurProcesses \cup {"none"}
  BY <1>6 DEF CurTyped
<1> QED
  BY <1>5, <1>7, <1>8, <1>9 DEF CurTyped

\* The curated memory has its types, also when the disk fills up (MemoryManager).
LEMMA CurTypesHold == CurSpec => []CurTypeOK
<1>1. CurInit => CurTyped
  <2> SUFFICES ASSUME CurInit PROVE CurTyped
    OBVIOUS
  <2>1. CurTypes
    BY CurInitHolds DEF CurInv
  <2>2. curOps \in 0..CurMaxOps /\ curCrashes \in 0..CurMaxCrashes
    <3>1. CurMaxOps \in Nat /\ CurMaxCrashes \in Nat /\ curOps = 0 /\ curCrashes = 0
      BY CurAssumption DEF CurInit
    <3> QED BY ONLY <3>1
  <2> QED BY <2>1, <2>2 DEF CurInit, CurTyped
<1>2. CurTyped /\ [CurNext]_curVars => CurTyped'
  <2>1. CurTyped /\ UNCHANGED curVars => CurTyped'
    BY DEF CurTyped, CurTypes, curVars
  <2>2. CurTyped /\ CurNext => CurTyped'
    <3> SUFFICES ASSUME CurTyped, CurNext PROVE CurTyped'
      OBVIOUS
    <3> QED BY CurStepTyped, Zenon DEF CurNext
  <2> QED BY <2>1, <2>2
<1>3. CurTyped => CurTypeOK
  BY DEF CurTyped, CurTypes, ToSet, CurTypeOK
<1> QED
  BY <1>1, <1>2, <1>3, PTL DEF CurSpec

-----------------------------------------------------------------------------
(* The configuration file: a save leaves it as the user wrote it *)

CfgLive == {p \in CfgProcesses : cfgProc[p].pc \in {"loaded", "offered", "saving"}}

CfgTypes ==
  /\ DOMAIN cfgProc = CfgProcesses /\ cfgOffers \in Nat
  /\ \A p \in CfgProcesses :
       /\ DOMAIN cfgProc[p] = DOMAIN CfgDown
       /\ DOMAIN cfgProc[p].config = DOMAIN CfgDefaults

\* What a configuration has kept of another, after a number of offers, in an environment.
CfgKept(is, was, offers, env) ==
  /\ is.build = was.build /\ is.servers = was.servers
  /\ (is.offered <=> was.offered \/ offers > 0)
  /\ is.model \in {was.model} \cup env
  /\ is.budget # was.budget =>
       CfgTrivial(was.budget) /\ offers > 0 /\ is.budget = CfgDefaults.budget

\* The file, before the offer or after it.
CfgFileKept(offers) ==
  CfgLoads(cfgFile) /\ CfgKept(CfgFrom(cfgFile), CfgFrom(cfgWritten), offers, cfgEnv)

\* The copy a process works on: the file, but for the model of the environment.
CfgCopy(p) ==
  LET copy == cfgProc[p].config
      file == CfgFrom(cfgFile)
  IN /\ copy.build = file.build /\ copy.servers = file.servers
     /\ (copy.offered <=> file.offered) /\ copy.budget = file.budget
     /\ copy.model \in {file.model, cfgProc[p].env}

\* Where the one process that may save is.
CfgStage(p) ==
  /\ cfgProc[p].pc = "loaded" => CfgFileKept(cfgOffers) /\ CfgCopy(p) /\ cfgOffers <= 1
  /\ cfgProc[p].pc = "offered" =>
       CfgFileKept(0) /\ CfgCopy(p) /\ cfgOffers = 1 /\ ~cfgProc[p].config.offered
  /\ cfgProc[p].pc = "saving" =>
       cfgOffers = 1 /\ CfgKept(cfgProc[p].config, CfgFrom(cfgWritten), 1, cfgEnv)

CfgInv ==
  /\ CfgTypes
  /\ ~cfgSpoilt =>
       /\ \A p, q \in CfgLive : p = q
       /\ CfgLoads(cfgWritten) =>
            /\ \A p \in CfgLive : CfgStage(p)
            /\ CfgLive = {} => CfgFileKept(cfgOffers) /\ cfgOffers <= 1

LEMMA CfgInvImpliesKept == CfgInv => ConfigIsKept
BY DEF CfgInv, ConfigIsKept, CfgSaving, CfgLive, CfgFileKept, CfgKept

\* A table that is not there is read as the default.
LEMMA CfgOrUnless ==
  ASSUME NEW value, NEW empty
  PROVE  CfgOr(CfgUnless(value, empty), empty) = value
<1>1. CASE value = empty
  BY <1>1 DEF CfgOr, CfgUnless
<1>2. CASE value # empty
  <2>1. CfgUnless(value, empty) = {value}
    BY <1>2 DEF CfgUnless
  <2> QED BY <2>1 DEF CfgOr
<1> QED
  BY <1>1, <1>2

\* What is read back of what was written.
LEMMA CfgFromInto ==
  ASSUME NEW config
  PROVE  LET back == CfgFrom(CfgInto(config))
         IN /\ CfgLoads(CfgInto(config))
            /\ back.build = config.build /\ back.offered = config.offered
            /\ back.model = config.model /\ back.servers = config.servers
            /\ back.budget = IF CfgTrivial(config.budget) THEN CfgDefaults.budget
                             ELSE config.budget
<1> DEFINE file == CfgInto(config)
           table == [build |-> config.build, offered |-> config.offered, whole |-> TRUE]
<1>1. /\ file.state = "toml" /\ file.onboarding = {table}
      /\ file.model = CfgUnless(config.model, "")
      /\ file.budget = CfgBudgetInto(config)
      /\ file.servers = CfgUnless(config.servers, {})
  BY DEF CfgInto, CfgOnboardingInto, CfgAgentInto, CfgServersInto
<1>2. CfgDefaults.model = "" /\ CfgDefaults.servers = {}
  BY DEF CfgDefaults
<1> HIDE DEF file
<1>3. CfgOnboardingFrom(file) = table
  BY <1>1 DEF CfgOnboardingFrom, CfgOr
<1>4. CfgAgentFrom(file) = config.model
  <2>1. CfgOr(CfgUnless(config.model, ""), "") = config.model
    BY CfgOrUnless
  <2> QED BY <1>1, <1>2, <2>1 DEF CfgAgentFrom
<1>5. CfgServersFrom(file) = config.servers
  <2>1. CfgOr(CfgUnless(config.servers, {}), {}) = config.servers
    BY CfgOrUnless
  <2> QED BY <1>1, <1>2, <2>1 DEF CfgServersFrom
<1>6. CfgBudgetFrom(file) = IF CfgTrivial(config.budget) THEN CfgDefaults.budget
                            ELSE config.budget
  <2>1. CASE CfgTrivial(config.budget)
    <3>1. file.budget = {}
      BY <1>1, <2>1 DEF CfgBudgetInto
    <3> QED BY <2>1, <3>1 DEF CfgBudgetFrom, CfgOr
  <2>2. CASE ~CfgTrivial(config.budget)
    <3>1. file.budget = {config.budget}
      BY <1>1, <2>2 DEF CfgBudgetInto
    <3> QED BY <2>2, <3>1 DEF CfgBudgetFrom, CfgOr
  <2> QED BY <2>1, <2>2
<1>7. table.whole /\ table.build = config.build /\ table.offered = config.offered
  OBVIOUS
<1>8. CfgLoads(file)
  BY <1>1, <1>7 DEF CfgLoads
<1>9. /\ CfgFrom(file).build = CfgOnboardingFrom(file).build
      /\ CfgFrom(file).offered = CfgOnboardingFrom(file).offered
      /\ CfgFrom(file).model = CfgAgentFrom(file)
      /\ CfgFrom(file).budget = CfgBudgetFrom(file)
      /\ CfgFrom(file).servers = CfgServersFrom(file)
  BY DEF CfgFrom
<1>10. /\ CfgFrom(file).build = config.build /\ CfgFrom(file).offered = config.offered
  BY <1>3, <1>7, <1>9
<1> QED
  BY <1>4, <1>5, <1>6, <1>8, <1>9, <1>10 DEF file

\* What was kept in the copy is kept in the file that is written from it.
LEMMA CfgWriteKept ==
  ASSUME NEW config, NEW was, NEW env, CfgKept(config, was, 1, env)
  PROVE  CfgLoads(CfgInto(config)) /\ CfgKept(CfgFrom(CfgInto(config)), was, 1, env)
<1>1. ~CfgTrivial(CfgDefaults.budget)
  BY DEF CfgTrivial, CfgDefaults
<1> DEFINE is == CfgFrom(CfgInto(config))
<1>2. /\ CfgLoads(CfgInto(config)) /\ is.build = config.build /\ is.offered = config.offered
      /\ is.model = config.model /\ is.servers = config.servers
      /\ is.budget = IF CfgTrivial(config.budget) THEN CfgDefaults.budget ELSE config.budget
  BY CfgFromInto
<1> HIDE DEF is
<1>3. is.budget # was.budget => CfgTrivial(was.budget) /\ is.budget = CfgDefaults.budget
  BY <1>1, <1>2 DEF CfgKept
<1> QED
  BY <1>2, <1>3 DEF CfgKept, is

\* A copy of a file that was kept is kept, whatever the environment gave.
LEMMA CfgCopyKept ==
  ASSUME NEW copy, NEW file, NEW was, NEW env, NEW model,
         CfgKept(file, was, 0, env),
         copy.build = file.build, copy.servers = file.servers, copy.budget = file.budget,
         copy.model \in {file.model, model}, copy.offered = TRUE
  PROVE  CfgKept(copy, was, 1, env \cup {model})
BY DEF CfgKept

\* A file is kept as it is.
LEMMA CfgSameKept ==
  ASSUME NEW was, NEW env
  PROVE  CfgKept(was, was, 0, env)
BY DEF CfgKept

LEMMA CfgInitHolds == CfgInit => CfgInv
<1> SUFFICES ASSUME CfgInit PROVE CfgInv
  OBVIOUS
<1>1. \A p \in CfgProcesses : cfgProc[p] = CfgDown
  BY DEF CfgInit
<1>2. CfgDown.pc = "down" /\ CfgDown.config = CfgDefaults
  BY DEF CfgDown
<1>3. CfgTypes
  BY <1>1, <1>2 DEF CfgInit, CfgTypes
<1>4. CfgLive = {}
  BY <1>1, <1>2 DEF CfgLive
<1>5. CfgLoads(cfgWritten) => CfgFileKept(cfgOffers)
  BY CfgSameKept DEF CfgInit, CfgFileKept
<1> QED
  BY <1>3, <1>4, <1>5 DEF CfgInv, CfgInit

\* The records a process may be.
LEMMA CfgGoes ==
  ASSUME CfgTypes, NEW p \in CfgProcesses, NEW pc, CfgGo(p, pc)
  PROVE  /\ cfgProc'[p].pc = pc /\ cfgProc'[p].config = cfgProc[p].config
         /\ cfgProc'[p].env = cfgProc[p].env
         /\ \A q \in CfgProcesses \ {p} : cfgProc'[q] = cfgProc[q]
         /\ cfgOffers' \in Nat => CfgTypes'
<1>1. cfgProc' = [cfgProc EXCEPT ![p].pc = pc]
  BY DEF CfgGo
<1>2. DOMAIN cfgProc = CfgProcesses /\ DOMAIN cfgProc[p] = {"pc", "config", "env"}
  BY DEF CfgTypes, CfgDown
<1>3. /\ cfgProc'[p].pc = pc /\ cfgProc'[p].config = cfgProc[p].config
      /\ cfgProc'[p].env = cfgProc[p].env /\ DOMAIN cfgProc'[p] = DOMAIN cfgProc[p]
      /\ \A q \in CfgProcesses \ {p} : cfgProc'[q] = cfgProc[q]
      /\ DOMAIN cfgProc' = CfgProcesses
  BY <1>1, <1>2
<1>4. cfgOffers' \in Nat => CfgTypes'
  BY <1>3 DEF CfgTypes
<1> QED
  BY <1>3, <1>4

LEMMA CfgMarks ==
  ASSUME CfgTypes, NEW p \in CfgProcesses, NEW pc,
         cfgProc' = [cfgProc EXCEPT ![p].config.offered = TRUE, ![p].pc = pc],
         cfgOffers' = cfgOffers
  PROVE  /\ cfgProc'[p].pc = pc /\ cfgProc'[p].config.offered = TRUE
         /\ cfgProc'[p].config.build = cfgProc[p].config.build
         /\ cfgProc'[p].config.servers = cfgProc[p].config.servers
         /\ cfgProc'[p].config.budget = cfgProc[p].config.budget
         /\ cfgProc'[p].config.model = cfgProc[p].config.model
         /\ \A q \in CfgProcesses \ {p} : cfgProc'[q] = cfgProc[q]
         /\ CfgTypes'
<1> DEFINE config == [cfgProc[p].config EXCEPT !.offered = TRUE]
           proc == [cfgProc[p] EXCEPT !.config = config]
           done == [proc EXCEPT !.pc = pc]
<1>1. /\ DOMAIN cfgProc = CfgProcesses /\ DOMAIN cfgProc[p] = {"pc", "config", "env"}
      /\ DOMAIN cfgProc[p].config = {"build", "offered", "model", "budget", "servers"}
  BY DEF CfgTypes, CfgDown, CfgDefaults
<1>2. cfgProc' = [cfgProc EXCEPT ![p] = done]
  BY <1>1
<1>3. /\ config.offered = TRUE /\ config.build = cfgProc[p].config.build
      /\ config.servers = cfgProc[p].config.servers
      /\ config.budget = cfgProc[p].config.budget
      /\ config.model = cfgProc[p].config.model
      /\ DOMAIN config = DOMAIN cfgProc[p].config
  BY <1>1
<1> HIDE DEF config
<1>4. proc.config = config /\ DOMAIN proc = DOMAIN cfgProc[p]
  BY <1>1
<1> HIDE DEF proc
<1>5. done.config = config /\ done.pc = pc /\ DOMAIN done = DOMAIN cfgProc[p]
  BY <1>1, <1>4
<1> HIDE DEF done
<1>6. /\ cfgProc'[p] = done /\ DOMAIN cfgProc' = CfgProcesses
      /\ \A q \in CfgProcesses \ {p} : cfgProc'[q] = cfgProc[q]
  BY <1>1, <1>2
<1>7. CfgTypes'
  BY <1>3, <1>5, <1>6 DEF CfgTypes
<1> QED
  BY <1>3, <1>5, <1>6, <1>7

LEMMA CfgLoadKeeps ==
  ASSUME CfgInv, NEW p \in CfgProcesses, NEW model \in CfgModels, CfgLoad(p, model)
  PROVE  CfgInv'
<1> DEFINE file == CfgFrom(cfgFile)
           copy == [file EXCEPT !.model = IF model = "" THEN @ ELSE model]
           proc == [pc |-> "loaded", env |-> model, config |-> copy]
<1>1. /\ cfgProc[p].pc = "down"
      /\ cfgProc' = IF ~CfgLoads(cfgFile) THEN cfgProc ELSE [cfgProc EXCEPT ![p] = proc]
      /\ (cfgSpoilt' <=> cfgSpoilt \/ CfgSaving)
      /\ cfgFile' = cfgFile /\ cfgWritten' = cfgWritten /\ cfgEnv' = cfgEnv
      /\ cfgOffers' = cfgOffers
  BY Zenon DEF CfgLoad
<1>2. /\ DOMAIN file = DOMAIN CfgDefaults
      /\ DOMAIN file = {"build", "offered", "model", "budget", "servers"}
  BY DEF CfgFrom, CfgDefaults
<1> HIDE DEF file
<1>3. /\ copy.build = file.build /\ copy.offered = file.offered /\ copy.budget = file.budget
      /\ copy.servers = file.servers /\ copy.model \in {file.model, model}
      /\ DOMAIN copy = DOMAIN CfgDefaults
  BY <1>2
<1> HIDE DEF copy
<1>4. proc.pc = "loaded" /\ proc.env = model /\ proc.config = copy
      /\ DOMAIN proc = DOMAIN CfgDown
  BY DEF CfgDown
<1> HIDE DEF proc
<1>5. CASE ~CfgLoads(cfgFile)
  <2>1. cfgProc' = cfgProc
    BY <1>1, <1>5
  <2>2. CfgTypes'
    BY <1>1, <2>1 DEF CfgInv, CfgTypes
  <2>3. CfgLive' = CfgLive
    BY <2>1 DEF CfgLive
  <2> QED
    BY <1>1, <2>1, <2>2, <2>3 DEF CfgInv, CfgStage, CfgFileKept, CfgCopy
<1>6. CASE CfgLoads(cfgFile)
  <2>1. /\ cfgProc'[p] = proc /\ DOMAIN cfgProc' = CfgProcesses
        /\ \A q \in CfgProcesses \ {p} : cfgProc'[q] = cfgProc[q]
    BY <1>1, <1>6 DEF CfgInv, CfgTypes
  <2>2. CfgTypes'
    BY <1>1, <1>3, <1>4, <2>1 DEF CfgInv, CfgTypes
  <2>3. SUFFICES ASSUME ~cfgSpoilt'
                 PROVE  /\ CfgLive' = {p}
                        /\ CfgLoads(cfgWritten) => CfgStage(p)'
    BY <1>1, <2>2 DEF CfgInv
  <2>4. ~cfgSpoilt /\ CfgLive = {}
    BY <1>1, <2>3 DEF CfgLive, CfgSaving
  <2>5. CfgLive' = {p}
    BY <1>4, <2>1, <2>4 DEF CfgLive
  <2>6. ASSUME CfgLoads(cfgWritten) PROVE CfgStage(p)'
    <3>1. CfgFileKept(cfgOffers) /\ cfgOffers <= 1
      BY <2>4, <2>6 DEF CfgInv
    <3>2. CfgFileKept(cfgOffers)'
      BY <1>1, <3>1 DEF CfgFileKept
    <3>3. CfgCopy(p)'
      BY <1>1, <1>3, <1>4, <2>1 DEF CfgCopy, file
    <3> QED BY <1>1, <1>4, <2>1, <3>1, <3>2, <3>3 DEF CfgStage
  <2> QED BY <2>5, <2>6
<1> QED
  BY <1>5, <1>6

\* A step of the one process that may save, after which it may no longer, or spoils it.
LEMMA CfgRunKeeps ==
  ASSUME CfgInv, NEW p \in CfgProcesses, NEW listed \in BOOLEAN, CfgRun(p, listed)
  PROVE  CfgInv'
<1>1. /\ cfgProc[p].pc = "loaded" /\ UNCHANGED <<cfgFile, cfgWritten, cfgEnv, cfgSpoilt>>
      /\ \/ /\ CfgOffered(p, listed) /\ CfgGo(p, "offered") /\ cfgOffers' = cfgOffers + 1
         \/ CfgGo(p, "running") /\ cfgOffers' = cfgOffers
  BY DEF CfgRun
<1>2. cfgOffers \in Nat /\ cfgOffers' \in Nat
  BY <1>1 DEF CfgInv, CfgTypes
<1>3. /\ cfgProc'[p].config = cfgProc[p].config /\ cfgProc'[p].env = cfgProc[p].env
      /\ \A q \in CfgProcesses \ {p} : cfgProc'[q] = cfgProc[q]
      /\ CfgTypes'
  BY <1>1, <1>2, CfgGoes DEF CfgInv
<1>4. SUFFICES ASSUME ~cfgSpoilt
               PROVE  /\ \A q, r \in CfgLive' : q = r
                      /\ CfgLoads(cfgWritten) =>
                           /\ \A q \in CfgLive' : CfgStage(q)'
                           /\ CfgLive' = {} => CfgFileKept(cfgOffers)' /\ cfgOffers' <= 1
  BY <1>1, <1>3 DEF CfgInv
<1>5. CfgLive = {p}
  BY <1>1, <1>4 DEF CfgInv, CfgLive
<1>6. CASE CfgOffered(p, listed) /\ CfgGo(p, "offered") /\ cfgOffers' = cfgOffers + 1
  <2>1. cfgProc'[p].pc = "offered"
    BY <1>2, <1>6, CfgGoes DEF CfgInv
  <2>2. CfgLive' = {p}
    BY <1>3, <1>5, <2>1 DEF CfgLive
  <2>3. ASSUME CfgLoads(cfgWritten) PROVE CfgStage(p)'
    <3>1. CfgFileKept(cfgOffers) /\ CfgCopy(p)
      BY <1>1, <1>4, <1>5, <2>3 DEF CfgInv, CfgStage
    <3>2. ~cfgProc[p].config.offered
      BY <1>6 DEF CfgOffered
    <3>3. ~(cfgOffers > 0)
      BY <3>1, <3>2 DEF CfgFileKept, CfgKept, CfgCopy
    <3>4. cfgOffers = 0
      BY <1>2, <3>3
    <3>5. CfgFileKept(0)'
      BY <1>1, <3>1, <3>4 DEF CfgFileKept
    <3>6. CfgCopy(p)'
      BY <1>1, <1>3, <3>1 DEF CfgCopy
    <3> QED BY <1>3, <1>6, <2>1, <3>2, <3>4, <3>5, <3>6 DEF CfgStage
  <2> QED BY <2>2, <2>3
<1>7. CASE CfgGo(p, "running") /\ cfgOffers' = cfgOffers
  <2>1. cfgProc'[p].pc = "running"
    BY <1>2, <1>7, CfgGoes DEF CfgInv
  <2>2. CfgLive' = {}
    BY <1>3, <1>5, <2>1 DEF CfgLive
  <2>3. CfgLoads(cfgWritten) => CfgFileKept(cfgOffers)' /\ cfgOffers' <= 1
    BY <1>1, <1>4, <1>5, <1>7 DEF CfgInv, CfgStage, CfgFileKept
  <2> QED BY <2>2, <2>3
<1> QED
  BY <1>1, <1>6, <1>7

LEMMA CfgMarkKeeps ==
  ASSUME CfgInv, NEW p \in CfgProcesses, MarkProfileOffered(p)
  PROVE  CfgInv'
<1>1. /\ cfgProc[p].pc = "offered" /\ cfgEnv' = cfgEnv \cup {cfgProc[p].env}
      /\ cfgProc' = [cfgProc EXCEPT ![p].config.offered = TRUE, ![p].pc = "saving"]
      /\ UNCHANGED <<cfgWritten, cfgOffers, cfgSpoilt>>
  BY DEF MarkProfileOffered
<1>2. /\ cfgProc'[p].pc = "saving" /\ cfgProc'[p].config.offered = TRUE
      /\ cfgProc'[p].config.build = cfgProc[p].config.build
      /\ cfgProc'[p].config.servers = cfgProc[p].config.servers
      /\ cfgProc'[p].config.budget = cfgProc[p].config.budget
      /\ cfgProc'[p].config.model = cfgProc[p].config.model
      /\ \A q \in CfgProcesses \ {p} : cfgProc'[q] = cfgProc[q]
      /\ CfgTypes'
  BY <1>1, CfgMarks DEF CfgInv
<1>3. SUFFICES ASSUME ~cfgSpoilt
               PROVE  CfgLive' = {p} /\ (CfgLoads(cfgWritten) => CfgStage(p)')
  BY <1>1, <1>2 DEF CfgInv
<1>4. CfgLive = {p}
  BY <1>1, <1>3 DEF CfgInv, CfgLive
<1>5. CfgLive' = {p}
  BY <1>2, <1>4 DEF CfgLive
<1>6. ASSUME CfgLoads(cfgWritten) PROVE CfgStage(p)'
  <2>1. CfgFileKept(0) /\ CfgCopy(p) /\ cfgOffers = 1
    BY <1>1, <1>3, <1>4, <1>6 DEF CfgInv, CfgStage
  <2>2. CfgKept(CfgFrom(cfgFile), CfgFrom(cfgWritten), 0, cfgEnv)
    BY <2>1 DEF CfgFileKept
  <2>3. CfgKept(cfgProc'[p].config, CfgFrom(cfgWritten), 1, cfgEnv')
    <3> DEFINE file == CfgFrom(cfgFile)
               copy == cfgProc'[p].config
    <3>1. /\ copy.build = file.build /\ copy.servers = file.servers
          /\ copy.budget = file.budget /\ copy.offered = TRUE
          /\ copy.model \in {file.model, cfgProc[p].env}
      BY <1>2, <2>1 DEF CfgCopy
    <3> HIDE DEF file, copy
    <3>2. CfgKept(file, CfgFrom(cfgWritten), 0, cfgEnv)
      BY <2>2 DEF file
    <3>3. CfgKept(copy, CfgFrom(cfgWritten), 1, cfgEnv \cup {cfgProc[p].env})
      BY <3>1, <3>2, CfgCopyKept
    <3> QED BY <1>1, <3>3 DEF copy
  <2> QED BY <1>1, <1>2, <2>1, <2>3 DEF CfgStage
<1> QED
  BY <1>5, <1>6

LEMMA CfgWriteKeeps ==
  ASSUME CfgInv, NEW p \in CfgProcesses, CfgWrite(p)
  PROVE  CfgInv'
<1>1. /\ cfgProc[p].pc = "saving" /\ cfgFile' = CfgInto(cfgProc[p].config)
      /\ CfgGo(p, "running") /\ UNCHANGED <<cfgWritten, cfgEnv, cfgOffers, cfgSpoilt>>
  BY DEF CfgWrite
<1>2. /\ cfgProc'[p].pc = "running"
      /\ \A q \in CfgProcesses \ {p} : cfgProc'[q] = cfgProc[q]
      /\ CfgTypes'
  <2>1. cfgOffers' \in Nat
    BY <1>1 DEF CfgInv, CfgTypes
  <2> QED BY <1>1, <2>1, CfgGoes DEF CfgInv
<1>3. SUFFICES ASSUME ~cfgSpoilt
               PROVE  /\ CfgLive' = {}
                      /\ CfgLoads(cfgWritten) => CfgFileKept(cfgOffers)' /\ cfgOffers <= 1
  BY <1>1, <1>2 DEF CfgInv
<1>4. CfgLive = {p}
  BY <1>1, <1>3 DEF CfgInv, CfgLive
<1>5. CfgLive' = {}
  BY <1>2, <1>4 DEF CfgLive
<1>6. ASSUME CfgLoads(cfgWritten) PROVE CfgFileKept(cfgOffers)' /\ cfgOffers <= 1
  <2>1. cfgOffers = 1 /\ CfgKept(cfgProc[p].config, CfgFrom(cfgWritten), 1, cfgEnv)
    BY <1>1, <1>3, <1>4, <1>6 DEF CfgInv, CfgStage
  <2>2. /\ CfgLoads(cfgFile') /\ CfgKept(CfgFrom(cfgFile'), CfgFrom(cfgWritten), 1, cfgEnv)
    BY <1>1, <2>1, CfgWriteKept
  <2> QED BY <1>1, <2>1, <2>2 DEF CfgFileKept
<1> QED
  BY <1>5, <1>6

LEMMA CfgSaveFailsKeeps ==
  ASSUME CfgInv, NEW p \in CfgProcesses, CfgSaveFails(p)
  PROVE  CfgInv'
<1>1. cfgSpoilt' = TRUE /\ cfgOffers' = cfgOffers
  BY DEF CfgSaveFails
<1>2. CfgTypes'
  <2>1. CASE cfgProc' = [cfgProc EXCEPT ![p].config.offered = TRUE, ![p].pc = "running"]
    BY <1>1, <2>1, CfgMarks DEF CfgInv
  <2>2. CASE CfgGo(p, "running")
    <3>1. cfgOffers' \in Nat
      BY <1>1 DEF CfgInv, CfgTypes
    <3> QED BY <2>2, <3>1, CfgGoes DEF CfgInv
  <2> QED BY <2>1, <2>2 DEF CfgSaveFails
<1> QED
  BY <1>1, <1>2 DEF CfgInv

LEMMA CfgEndKeeps ==
  ASSUME CfgInv, NEW p \in CfgProcesses, CfgEnd(p)
  PROVE  CfgInv'
<1>1. /\ cfgProc' = [cfgProc EXCEPT ![p] = CfgDown]
      /\ cfgFile' \in IF cfgProc[p].pc = "saving" THEN CfgCutOff(p) ELSE {cfgFile}
      /\ (cfgSpoilt' <=> cfgSpoilt \/ cfgProc[p].pc \in {"offered", "saving"})
      /\ UNCHANGED <<cfgWritten, cfgEnv, cfgOffers>>
  BY Zenon DEF CfgEnd
<1>2. CfgDown.pc = "down" /\ CfgDown.config = CfgDefaults
  BY DEF CfgDown
<1>3. /\ cfgProc'[p] = CfgDown /\ DOMAIN cfgProc' = CfgProcesses
      /\ \A q \in CfgProcesses \ {p} : cfgProc'[q] = cfgProc[q]
  BY <1>1 DEF CfgInv, CfgTypes
<1>4. CfgTypes'
  BY <1>1, <1>2, <1>3 DEF CfgInv, CfgTypes
<1>5. SUFFICES ASSUME ~cfgSpoilt'
               PROVE  /\ \A q, r \in CfgLive' : q = r
                      /\ CfgLoads(cfgWritten) =>
                           /\ \A q \in CfgLive' : CfgStage(q)'
                           /\ CfgLive' = {} => CfgFileKept(cfgOffers)' /\ cfgOffers' <= 1
  BY <1>1, <1>4 DEF CfgInv
<1>6. ~cfgSpoilt /\ cfgProc[p].pc \notin {"offered", "saving"} /\ cfgFile' = cfgFile
  BY <1>1, <1>5
<1>7. CfgLive' = CfgLive \ {p}
  BY <1>2, <1>3 DEF CfgLive
<1>8. \A q, r \in CfgLive' : q = r
  BY <1>6, <1>7 DEF CfgInv
<1>9. ASSUME CfgLoads(cfgWritten), NEW q \in CfgLive' PROVE CfgStage(q)'
  <2>1. CfgStage(q) /\ cfgProc'[q] = cfgProc[q]
    BY <1>3, <1>6, <1>7, <1>9 DEF CfgInv, CfgLive
  <2> QED BY <1>1, <1>6, <2>1 DEF CfgStage, CfgFileKept, CfgCopy
<1>10. ASSUME CfgLoads(cfgWritten), CfgLive' = {}
       PROVE  CfgFileKept(cfgOffers)' /\ cfgOffers' <= 1
  <2>1. CASE p \in CfgLive
    <3>1. CfgStage(p) /\ cfgProc[p].pc = "loaded"
      BY <1>6, <1>10, <2>1 DEF CfgInv, CfgLive
    <3> QED BY <1>1, <1>6, <3>1 DEF CfgStage, CfgFileKept
  <2>2. CASE p \notin CfgLive
    BY <1>1, <1>6, <1>7, <1>10, <2>2 DEF CfgInv, CfgFileKept
  <2> QED BY <2>1, <2>2
<1> QED
  BY <1>8, <1>9, <1>10

LEMMA CfgEditKeeps ==
  ASSUME CfgInv, NEW file \in CfgEdits, CfgEdit(file)
  PROVE  CfgInv'
<1>1. /\ cfgFile' = file /\ cfgWritten' = file /\ cfgEnv' = {} /\ cfgOffers' = 0
      /\ cfgSpoilt' = CfgSaving /\ cfgProc' = cfgProc
  BY DEF CfgEdit
<1>2. CfgTypes'
  BY <1>1 DEF CfgInv, CfgTypes
<1>3. ~cfgSpoilt' => CfgLive' = {}
  BY <1>1 DEF CfgLive, CfgSaving
<1>4. CfgLoads(cfgWritten') => CfgFileKept(cfgOffers)'
  BY <1>1, CfgSameKept DEF CfgFileKept
<1> QED
  BY <1>1, <1>2, <1>3, <1>4 DEF CfgInv

\* The invariant holds of every behaviour of the configuration.
LEMMA CfgInvHolds == CfgSpec => []CfgInv
<1>1. CfgInv /\ [CfgNext]_cfgVars => CfgInv'
  <2> SUFFICES ASSUME CfgInv, [CfgNext]_cfgVars PROVE CfgInv'
    OBVIOUS
  <2>1. ASSUME NEW p \in CfgProcesses, NEW model \in CfgModels, CfgLoad(p, model)
        PROVE  CfgInv'
    BY <2>1, CfgLoadKeeps
  <2>2. ASSUME NEW p \in CfgProcesses, NEW listed \in BOOLEAN, CfgRun(p, listed)
        PROVE  CfgInv'
    BY <2>2, CfgRunKeeps
  <2>3. ASSUME NEW p \in CfgProcesses,
               MarkProfileOffered(p) \/ CfgWrite(p) \/ CfgSaveFails(p) \/ CfgEnd(p)
        PROVE  CfgInv'
    BY <2>3, CfgMarkKeeps, CfgWriteKeeps, CfgSaveFailsKeeps, CfgEndKeeps
  <2>4. ASSUME NEW file \in CfgEdits, CfgEdit(file) PROVE CfgInv'
    BY <2>4, CfgEditKeeps
  <2>5. CASE CfgOther
    BY <2>5 DEF CfgOther, CfgInv, CfgTypes, CfgLive, CfgStage, CfgFileKept, CfgCopy
  <2>6. CASE UNCHANGED cfgVars
    BY <2>6 DEF cfgVars, CfgInv, CfgTypes, CfgLive, CfgStage, CfgFileKept, CfgCopy
  <2> QED
    BY <2>1, <2>2, <2>3, <2>4, <2>5, <2>6 DEF CfgNext
<1> QED
  BY <1>1, CfgInitHolds, PTL DEF CfgSpec

(***************************************************************************)
(* ConfigIsKept, for any number of processes, edits, starts and models of  *)
(* the environment: while nothing spoils it, one process at most has read  *)
(* the file and may still save, its copy is the file but for the model,    *)
(* and what is read back of a written copy is the copy, but for a trivial  *)
(* budget (TomlConversion.h, mark_profile_offered, save).                  *)
(***************************************************************************)
THEOREM ConfigKept == CfgSpec => []ConfigIsKept
BY CfgInvHolds, CfgInvImpliesKept, PTL

\* A file is one, whole, cut off, or not there, and the counters count.
CfgFileOK(file) == DOMAIN file = DOMAIN CfgEmpty /\ file.state \in {"toml", "absent", "torn"}
CfgPlaced ==
  /\ CfgFileOK(cfgFile)
  /\ \A p \in CfgProcesses : cfgProc[p].pc \in {"down", "loaded", "offered", "saving", "running"}
  /\ cfgStored \in BOOLEAN /\ cfgProfile \in BOOLEAN /\ cfgSpoilt \in BOOLEAN
  /\ cfgStarts \in Nat /\ cfgEdited \in Nat /\ cfgOther \in Nat

\* What is written, in full or not, is a file.
LEMMA CfgFilesOK ==
  ASSUME NEW p \in CfgProcesses
  PROVE  /\ CfgFileOK(CfgEmpty) /\ CfgFileOK(CfgAbsent) /\ CfgFileOK(CfgTorn)
         /\ CfgFileOK(CfgInto(cfgProc[p].config))
         /\ \A file \in CfgCutOff(p) : CfgFileOK(file)
<1>1. CfgFileOK(CfgEmpty) /\ CfgFileOK(CfgAbsent) /\ CfgFileOK(CfgTorn)
  BY DEF CfgFileOK, CfgEmpty, CfgAbsent, CfgTorn
<1>2. CfgFileOK(CfgInto(cfgProc[p].config))
  BY DEF CfgFileOK, CfgEmpty, CfgInto
<1>3. ASSUME NEW kept \in SUBSET CfgTables
      PROVE  CfgFileOK([x \in DOMAIN CfgEmpty |->
                         IF x \in kept THEN CfgInto(cfgProc[p].config)[x] ELSE CfgEmpty[x]])
  <2>1. "state" \in DOMAIN CfgEmpty /\ "state" \notin kept /\ CfgEmpty.state = "toml"
    BY DEF CfgTables, CfgEmpty
  <2> QED BY <2>1 DEF CfgFileOK
<1> QED
  BY <1>1, <1>2, <1>3 DEF CfgCutOff

\* A process is somewhere in its run.
LEMMA CfgProcsPlaced ==
  ASSUME CfgTypes, CfgPlaced, [CfgNext]_cfgVars
  PROVE  \A p \in CfgProcesses :
           cfgProc'[p].pc \in {"down", "loaded", "offered", "saving", "running"}
<1> DEFINE pcs == {"down", "loaded", "offered", "saving", "running"}
<1>1. /\ DOMAIN cfgProc = CfgProcesses
      /\ \A p \in CfgProcesses : DOMAIN cfgProc[p] = {"pc", "config", "env"}
      /\ \A p \in CfgProcesses : cfgProc[p].pc \in pcs
  BY DEF CfgTypes, CfgDown, CfgPlaced
<1>2. CfgDown.pc = "down"
  BY DEF CfgDown
<1>3. ASSUME NEW p \in CfgProcesses, NEW call, call.pc \in pcs,
             cfgProc' = [cfgProc EXCEPT ![p] = call]
      PROVE  \A q \in CfgProcesses : cfgProc'[q].pc \in pcs
  BY <1>1, <1>3
<1>4. ASSUME NEW p \in CfgProcesses, NEW pc \in pcs, CfgGo(p, pc)
      PROVE  \A q \in CfgProcesses : cfgProc'[q].pc \in pcs
  <2>1. PICK call : call = [cfgProc[p] EXCEPT !.pc = pc]
    OBVIOUS
  <2>2. call.pc \in pcs
    BY <1>1, <2>1
  <2>3. cfgProc' = [cfgProc EXCEPT ![p] = call]
    BY <1>4, <2>1 DEF CfgGo
  <2> HIDE DEF pcs
  <2> QED BY <1>3, <2>2, <2>3
<1>5. ASSUME NEW p \in CfgProcesses, NEW pc \in pcs,
             cfgProc' = [cfgProc EXCEPT ![p].config.offered = TRUE, ![p].pc = pc]
      PROVE  \A q \in CfgProcesses : cfgProc'[q].pc \in pcs
  BY <1>1, <1>5
<1>6. CASE UNCHANGED cfgVars \/ CfgOther \/ \E file \in CfgEdits : CfgEdit(file)
  <2>1. cfgProc' = cfgProc
    BY <1>6 DEF cfgVars, CfgOther, CfgEdit
  <2> QED BY <1>1, <2>1
<1>7. ASSUME NEW p \in CfgProcesses, NEW model \in CfgModels, CfgLoad(p, model)
      PROVE  \A q \in CfgProcesses : cfgProc'[q].pc \in pcs
  <2>1. PICK call : call = [pc |-> "loaded", env |-> model,
             config |-> [CfgFrom(cfgFile) EXCEPT !.model = IF model = "" THEN @ ELSE model]]
    OBVIOUS
  <2>2. call.pc = "loaded"
    BY <2>1
  <2>3. cfgProc' = cfgProc \/ cfgProc' = [cfgProc EXCEPT ![p] = call]
    BY <1>7, <2>1 DEF CfgLoad
  <2> QED BY <1>1, <1>3, <2>2, <2>3
<1>8. ASSUME NEW p \in CfgProcesses, NEW listed \in BOOLEAN, CfgRun(p, listed)
      PROVE  \A q \in CfgProcesses : cfgProc'[q].pc \in pcs
  <2>1. CfgGo(p, "offered") \/ CfgGo(p, "running")
    BY <1>8 DEF CfgRun
  <2> QED BY <1>4, <2>1
<1>9. ASSUME NEW p \in CfgProcesses,
             MarkProfileOffered(p) \/ CfgWrite(p) \/ CfgSaveFails(p) \/ CfgEnd(p)
      PROVE  \A q \in CfgProcesses : cfgProc'[q].pc \in pcs
  <2>1. \/ CfgGo(p, "running")
        \/ cfgProc' = [cfgProc EXCEPT ![p] = CfgDown]
        \/ \E pc \in {"saving", "running"} :
             cfgProc' = [cfgProc EXCEPT ![p].config.offered = TRUE, ![p].pc = pc]
    BY <1>9 DEF MarkProfileOffered, CfgWrite, CfgSaveFails, CfgEnd
  <2>2. "running" \in pcs /\ "down" \in pcs /\ \A pc \in {"saving", "running"} : pc \in pcs
    OBVIOUS
  <2> HIDE DEF pcs
  <2>3. CfgGo(p, "running") => \A q \in CfgProcesses : cfgProc'[q].pc \in pcs
    BY <1>4, <2>2
  <2>4. cfgProc' = [cfgProc EXCEPT ![p] = CfgDown]
         => \A q \in CfgProcesses : cfgProc'[q].pc \in pcs
    BY <1>2, <1>3, <2>2
  <2>5. ASSUME NEW pc \in {"saving", "running"},
               cfgProc' = [cfgProc EXCEPT ![p].config.offered = TRUE, ![p].pc = pc]
        PROVE  \A q \in CfgProcesses : cfgProc'[q].pc \in pcs
    BY <1>5, <2>2, <2>5
  <2> QED BY <2>1, <2>3, <2>4, <2>5
<1> QED
  BY <1>6, <1>7, <1>8, <1>9 DEF CfgNext

\* The configuration has its types: the file is one also when a save was cut off, and
\* what a process has read has every key (TomlConversion.h).
LEMMA CfgTypesHold == CfgSpec => []CfgTypeOK
<1>1. CfgInit => CfgPlaced
  <2> SUFFICES ASSUME CfgInit PROVE CfgPlaced
    OBVIOUS
  <2>1. CfgFileOK(cfgFile)
    <3>1. CfgFileOK(CfgAbsent)
      BY DEF CfgFileOK, CfgEmpty, CfgAbsent
    <3> QED BY <3>1, CfgEditsAreFiles DEF CfgInit, CfgFileOK
  <2>2. CfgDown.pc = "down"
    BY DEF CfgDown
  <2> QED BY <2>1, <2>2 DEF CfgInit, CfgPlaced
<1>2. CfgInv /\ CfgPlaced /\ [CfgNext]_cfgVars => CfgPlaced'
  <2> SUFFICES ASSUME CfgInv, CfgPlaced, [CfgNext]_cfgVars PROVE CfgPlaced'
    OBVIOUS
  <2>1. CfgFileOK(cfgFile')
    <3>1. \/ cfgFile' = cfgFile \/ cfgFile' = CfgEmpty \/ cfgFile' \in CfgEdits
          \/ \E p \in CfgProcesses : \/ cfgFile' = CfgInto(cfgProc[p].config)
                                     \/ cfgFile' \in CfgCutOff(p)
      BY DEF CfgNext, cfgVars, CfgLoad, CfgRun, MarkProfileOffered, CfgWrite, CfgSaveFails,
               CfgEnd,
             CfgEdit, CfgOther
    <3>2. CfgFileOK(CfgEmpty)
      BY DEF CfgFileOK, CfgEmpty
    <3> QED BY <3>1, <3>2, CfgFilesOK, CfgEditsAreFiles DEF CfgPlaced, CfgFileOK
  <2>2. \A p \in CfgProcesses :
          cfgProc'[p].pc \in {"down", "loaded", "offered", "saving", "running"}
    BY CfgProcsPlaced DEF CfgInv
  <2>3. cfgStored' \in BOOLEAN /\ cfgProfile' \in BOOLEAN
    <3>1. /\ cfgStored' = cfgStored \/ cfgStored' = ~cfgStored
          /\ cfgProfile' = cfgProfile \/ cfgProfile' = ~cfgProfile
      BY DEF CfgNext, cfgVars, CfgLoad, CfgRun, MarkProfileOffered, CfgWrite, CfgSaveFails,
               CfgEnd,
             CfgEdit, CfgOther
    <3> QED BY <3>1, Zenon DEF CfgPlaced
  <2>4. cfgSpoilt' \in BOOLEAN
    <3>1. CASE \E p \in CfgProcesses, model \in CfgModels : CfgLoad(p, model)
      <4>1. cfgSpoilt' = (cfgSpoilt \/ CfgSaving)
        BY <3>1, Zenon DEF CfgLoad
      <4> QED BY <4>1, Zenon DEF CfgPlaced
    <3>2. CASE \E file \in CfgEdits : CfgEdit(file)
      <4>1. cfgSpoilt' = CfgSaving
        BY <3>2, Zenon DEF CfgEdit
      <4> QED BY <4>1, Zenon DEF CfgSaving
    <3>3. CASE \E p \in CfgProcesses : CfgEnd(p)
      <4>1. PICK p \in CfgProcesses :
              cfgSpoilt' = (cfgSpoilt \/ cfgProc[p].pc \in {"offered", "saving"})
        BY <3>3, Zenon DEF CfgEnd
      <4> QED BY <4>1, Zenon DEF CfgPlaced
    <3>4. CASE \E p \in CfgProcesses : CfgSaveFails(p)
      BY <3>4, Zenon DEF CfgSaveFails
    <3>5. CASE \/ UNCHANGED cfgVars \/ CfgOther
               \/ \E p \in CfgProcesses : \/ \E listed \in BOOLEAN : CfgRun(p, listed)
                                          \/ MarkProfileOffered(p) \/ CfgWrite(p)
      <4>1. cfgSpoilt' = cfgSpoilt
        BY <3>5, Zenon DEF cfgVars, CfgOther, CfgRun, MarkProfileOffered, CfgWrite
      <4> QED BY <4>1, Zenon DEF CfgPlaced
    <3> QED BY <3>1, <3>2, <3>3, <3>4, <3>5, Zenon DEF CfgNext
  <2>5. cfgStarts' \in Nat /\ cfgEdited' \in Nat /\ cfgOther' \in Nat
    <3>1. /\ cfgStarts' \in {cfgStarts, cfgStarts + 1}
          /\ cfgEdited' \in {cfgEdited, cfgEdited + 1} /\ cfgOther' \in {cfgOther, cfgOther + 1}
      BY DEF CfgNext, cfgVars, cfgBounds, CfgLoad, CfgRun, MarkProfileOffered, CfgWrite,
             CfgSaveFails, CfgEnd, CfgEdit, CfgOther
    <3>2. cfgStarts \in Nat /\ cfgEdited \in Nat /\ cfgOther \in Nat
      BY DEF CfgPlaced
    <3> QED BY ONLY <3>1, <3>2
  <2> QED BY <2>1, <2>2, <2>3, <2>4, <2>5 DEF CfgPlaced
<1>3. CfgInv /\ CfgPlaced => CfgTypeOK
  <2> SUFFICES ASSUME CfgInv, CfgPlaced PROVE CfgTypeOK
    OBVIOUS
  <2>1. {cfgStored, cfgProfile, cfgSpoilt} \subseteq BOOLEAN
    BY Zenon DEF CfgPlaced
  <2>2. {cfgStarts, cfgEdited, cfgOther, cfgOffers} \subseteq Nat
    BY DEF CfgPlaced, CfgInv, CfgTypes
  <2> QED BY <2>1, <2>2 DEF CfgInv, CfgTypes, CfgPlaced, CfgFileOK, CfgTypeOK
<1> QED
  BY <1>1, <1>2, <1>3, CfgInvHolds, PTL DEF CfgSpec

-----------------------------------------------------------------------------
(* The trace file: what is left is the newest *)

\* What is left of a list when its first lines go.
LEMMA LastLinesShape ==
  ASSUME NEW s \in Seq(Nat), NEW skip \in 0..Len(s)
  PROVE  /\ LastLines(s, skip) \in Seq(Nat)
         /\ Len(LastLines(s, skip)) = Len(s) - skip
         /\ \A i \in 1..(Len(s) - skip) : LastLines(s, skip)[i] = s[i + skip]
<1>1. Len(s) \in Nat /\ skip \in Nat /\ skip + 1 \in Int
  BY LenProperties
<1>2. \A i \in (skip + 1)..Len(s) : s[i] \in Nat
  BY <1>1, ElementOfSeq
<1>3. /\ SubSeq(s, skip + 1, Len(s)) \in Seq(Nat)
      /\ Len(SubSeq(s, skip + 1, Len(s)))
           = IF skip + 1 <= Len(s) THEN Len(s) - (skip + 1) + 1 ELSE 0
      /\ \A i \in 1..(Len(s) - (skip + 1) + 1) :
           SubSeq(s, skip + 1, Len(s))[i] = s[(skip + 1) + i - 1]
  BY <1>1, <1>2, SubSeqProperties
<1>4. \A i \in 1..(Len(s) - skip) : i \in 1..(Len(s) - (skip + 1) + 1)
                                      /\ (skip + 1) + i - 1 = i + skip
  BY <1>1
<1> QED
  BY SMTT(30), <1>1, <1>3, <1>4 DEF LastLines

LEMMA LastLinesAll ==
  ASSUME NEW s \in Seq(Nat)
  PROVE  LastLines(s, 0) = s
BY SubSeqFull DEF LastLines

LEMMA LastLinesOfLast ==
  ASSUME NEW s \in Seq(Nat), NEW skip \in 0..Len(s), NEW more \in 0..(Len(s) - skip)
  PROVE  LastLines(LastLines(s, skip), more) = LastLines(s, skip + more)
<1> DEFINE last == LastLines(s, skip)
<1>1. /\ last \in Seq(Nat) /\ Len(last) = Len(s) - skip
      /\ \A i \in 1..(Len(s) - skip) : last[i] = s[i + skip]
  BY LastLinesShape
<1>2. Len(s) \in Nat /\ skip \in Nat /\ more \in 0..Len(last) /\ skip + more \in 0..Len(s)
  BY <1>1, LenProperties
<1> HIDE DEF last
<1>3. /\ LastLines(last, more) \in Seq(Nat)
      /\ Len(LastLines(last, more)) = Len(last) - more
      /\ \A i \in 1..(Len(last) - more) : LastLines(last, more)[i] = last[i + more]
  BY <1>1, <1>2, LastLinesShape
<1>4. /\ LastLines(s, skip + more) \in Seq(Nat)
      /\ Len(LastLines(s, skip + more)) = Len(s) - (skip + more)
      /\ \A i \in 1..(Len(s) - (skip + more)) :
           LastLines(s, skip + more)[i] = s[i + (skip + more)]
  BY <1>2, LastLinesShape
<1>5. Len(last) - more = Len(s) - (skip + more)
  BY <1>1, <1>2
<1>6. ASSUME NEW i \in 1..(Len(s) - (skip + more))
      PROVE  LastLines(last, more)[i] = LastLines(s, skip + more)[i]
  <2>1. i + more \in 1..(Len(s) - skip) /\ (i + more) + skip = i + (skip + more)
    BY <1>2
  <2>2. LastLines(last, more)[i] = last[i + more]
    BY <1>3, <1>5
  <2>3. last[i + more] = s[i + (skip + more)]
    BY <1>1, <2>1
  <2> QED BY <1>4, <2>2, <2>3
<1> QED
  BY <1>3, <1>4, <1>5, <1>6, SeqEqual DEF last

LEMMA LastLinesOfAppend ==
  ASSUME NEW s \in Seq(Nat), NEW skip \in 0..Len(s), NEW line \in Nat
  PROVE  LastLines(Append(s, line), skip) = Append(LastLines(s, skip), line)
<1> DEFINE last == LastLines(s, skip)
           all == Append(s, line)
<1>1. /\ last \in Seq(Nat) /\ Len(last) = Len(s) - skip
      /\ \A i \in 1..(Len(s) - skip) : last[i] = s[i + skip]
  BY LastLinesShape
<1>2. /\ all \in Seq(Nat) /\ Len(all) = Len(s) + 1 /\ all[Len(s) + 1] = line
      /\ \A i \in 1..Len(s) : all[i] = s[i]
  BY AppendProperties
<1>3. Len(s) \in Nat /\ skip \in Nat /\ skip \in 0..Len(all)
  BY <1>2, LenProperties
<1> HIDE DEF last, all
<1>4. /\ LastLines(all, skip) \in Seq(Nat)
      /\ Len(LastLines(all, skip)) = Len(all) - skip
      /\ \A i \in 1..(Len(all) - skip) : LastLines(all, skip)[i] = all[i + skip]
  BY <1>2, <1>3, LastLinesShape
<1>5. /\ Append(last, line) \in Seq(Nat) /\ Len(Append(last, line)) = Len(last) + 1
      /\ Append(last, line)[Len(last) + 1] = line
      /\ \A i \in 1..Len(last) : Append(last, line)[i] = last[i]
  BY <1>1, AppendProperties
<1>6. Len(all) - skip = Len(last) + 1
  BY <1>1, <1>2, <1>3
<1>7. ASSUME NEW i \in 1..(Len(last) + 1)
      PROVE  LastLines(all, skip)[i] = Append(last, line)[i]
  <2>0. i \in 1..(Len(last) + 1)
    OBVIOUS
  <2>1. LastLines(all, skip)[i] = all[i + skip]
    BY <1>4, <1>6
  <2>2. CASE i = Len(last) + 1
    <3>0. Len(last) = Len(s) - skip
      BY <1>1
    <3>1. i + skip = Len(s) + 1
      BY ONLY <1>3, <2>2, <3>0
    <3> QED BY <1>2, <1>5, <2>1, <2>2, <3>1
  <2>3. CASE i # Len(last) + 1
    <3>0. Len(last) = Len(s) - skip
      BY <1>1
    <3>1. i \in 1..Len(last) /\ i \in 1..(Len(s) - skip) /\ i + skip \in 1..Len(s)
      BY ONLY <1>3, <2>0, <2>3, <3>0
    <3> QED BY <1>1, <1>2, <1>5, <2>1, <3>1
  <2> QED BY <2>2, <2>3
<1> QED
  BY <1>4, <1>5, <1>6, <1>7, SeqEqual DEF last, all

-----------------------------------------------------------------------------
TrcActive == {"count", "copy", "rename"}
TrcCalls ==
  /\ DOMAIN trcCall = TrcWriters
  /\ \A w \in TrcWriters : trcCall[w] = TrcIdle \/ trcCall[w].pc \in TrcActive
  /\ trcStorage = "full" => \A w \in TrcWriters : trcCall[w] = TrcIdle
  /\ trcStorage \in {"rolling", "full"}

\* The file: the lines but for the first ones, of which none is missing too soon.
TrcNewest(file) ==
  \E skip \in 0..Len(trcLines) :
    /\ file = LastLines(trcLines, skip)
    /\ skip > 0 => trcStorage = "rolling" /\ Len(file) >= TrcMaxEntries

\* While writes do not overlap one process at most trims, and nothing is appended meanwhile.
TrcStep(w) ==
  /\ trcCall[w].pc = "copy" =>
       Len(trcFile) > TrcMaxEntries /\ trcCall[w].skip = Len(trcFile) - TrcMaxEntries
  /\ trcCall[w].pc = "rename" =>
       Len(trcTemp) = TrcMaxEntries /\ TrcNewest(trcTemp)

TrcOrdered ==
  /\ trcLines \in Seq(Nat) /\ trcLate \in Nat
  /\ \A v, w \in TrcWriters : trcCall[v] # TrcIdle /\ trcCall[w] # TrcIdle => v = w
  /\ TrcNewest(trcFile)
  /\ trcStorage = "rolling" => Len(trcFile) <= TrcMaxEntries + trcLate
  /\ \A w \in TrcWriters : TrcStep(w)

TrcInv == TrcCalls /\ (~trcOverlap => TrcOrdered)

LEMMA TrcIdleOrActive == TrcIdle.pc = "idle" /\ TrcIdle.pc \notin TrcActive
BY DEF TrcIdle, TrcActive

LEMMA TrcInitHolds == TrcInit => TrcInv
<1> SUFFICES ASSUME TrcInit PROVE TrcInv
  OBVIOUS
<1>1. \A w \in TrcWriters : trcCall[w] = TrcIdle
  BY DEF TrcInit
<1>2. TrcCalls
  BY <1>1, TrcAssumption DEF TrcInit, TrcCalls
<1>3. trcLines \in Seq(Nat) /\ Len(trcLines) = 0 /\ trcFile = trcLines
  BY EmptySeq DEF TrcInit
<1>4. TrcNewest(trcFile)
  <2>1. trcFile = LastLines(trcLines, 0)
    BY <1>3, LastLinesAll, Zenon
  <2>2. 0 \in 0..Len(trcLines) /\ ~(0 > 0)
    BY <1>3
  <2> QED BY <2>1, <2>2, Zenon DEF TrcNewest
<1>5. \A w \in TrcWriters : TrcStep(w)
  BY <1>1, TrcIdleOrActive DEF TrcStep, TrcActive
<1> QED
  BY <1>1, <1>2, <1>3, <1>4, <1>5, TrcAssumption DEF TrcInit, TrcInv, TrcOrdered

\* The file is a list, of a length that counts.
LEMMA TrcNewestShape ==
  ASSUME trcLines \in Seq(Nat), NEW file, TrcNewest(file)
  PROVE  file \in Seq(Nat) /\ Len(file) \in Nat
BY LastLinesShape, LenProperties DEF TrcNewest

\* A step of one call.
LEMMA TrcMoves ==
  ASSUME TrcCalls, NEW w \in TrcWriters, NEW pc, NEW skip, TrcGo(w, pc, skip)
  PROVE  /\ trcCall'[w].pc = pc /\ trcCall'[w].skip = skip /\ DOMAIN trcCall' = TrcWriters
         /\ trcCall'[w] = [pc |-> pc, skip |-> skip]
         /\ \A v \in TrcWriters \ {w} : trcCall'[v] = trcCall[v]
BY DEF TrcCalls, TrcGo

\* A step that moves a call of a rolling file, or ends one.
LEMMA TrcCallsMove ==
  ASSUME TrcCalls, NEW w \in TrcWriters, NEW pc, NEW skip, TrcGo(w, pc, skip),
         \/ pc \in TrcActive /\ trcStorage = "rolling"
         \/ pc = "idle" /\ skip = 0,
         trcStorage' = trcStorage
  PROVE  TrcCalls'
<1>1. /\ trcCall'[w].pc = pc /\ DOMAIN trcCall' = TrcWriters
      /\ trcCall'[w] = [pc |-> pc, skip |-> skip]
      /\ \A v \in TrcWriters \ {w} : trcCall'[v] = trcCall[v]
  BY TrcMoves
<1>2. pc = "idle" /\ skip = 0 => trcCall'[w] = TrcIdle
  BY <1>1 DEF TrcIdle
<1> QED
  BY <1>1, <1>2 DEF TrcCalls

\* The one call that is under way: after its step the others still do nothing.
LEMMA TrcStillAlone ==
  ASSUME TrcCalls, TrcOrdered, NEW w \in TrcWriters, trcCall[w] # TrcIdle,
         NEW pc, NEW skip, TrcGo(w, pc, skip)
  PROVE  /\ \A v \in TrcWriters \ {w} : trcCall'[v] = TrcIdle
         /\ \A u, v \in TrcWriters : trcCall'[u] # TrcIdle /\ trcCall'[v] # TrcIdle => u = v
<1>1. \A v \in TrcWriters \ {w} : trcCall'[v] = trcCall[v] /\ trcCall[v] = TrcIdle
  BY TrcMoves DEF TrcOrdered
<1> QED
  BY <1>1

\* When one more line is there, the file has it too.
LEMMA TrcAppendKeeps ==
  ASSUME TrcInv, NEW w \in TrcWriters, TrcAppend(w)
  PROVE  TrcInv'
<1> DEFINE line == Len(trcLines) + 1
           pc == IF trcStorage = "rolling" THEN "count" ELSE "idle"
<1>1. /\ trcCall[w] = TrcIdle /\ TrcGo(w, pc, 0)
      /\ trcFile' = Append(trcFile, line) /\ trcLines' = Append(trcLines, line)
      /\ (trcOverlap' <=> trcOverlap \/ TrcTrimming(w)) /\ trcLate' = trcLate + 1
      /\ UNCHANGED <<trcStorage, trcTemp>>
  BY Zenon DEF TrcAppend
<1>2. \/ pc \in TrcActive /\ trcStorage = "rolling"
      \/ pc = "idle" /\ trcStorage # "rolling"
  BY DEF TrcActive
<1>pc. pc \notin {"copy", "rename"}
  OBVIOUS
<1> HIDE DEF pc
<1>3. TrcCalls'
  BY <1>1, <1>2, TrcCallsMove DEF TrcInv
<1>4. SUFFICES ASSUME ~trcOverlap' PROVE TrcOrdered'
  BY <1>3 DEF TrcInv
<1>5. TrcOrdered /\ \A v \in TrcWriters \ {w} : trcCall[v] = TrcIdle
  BY <1>1, <1>4 DEF TrcInv, TrcTrimming, TrcCalls, TrcActive
<1>6. \A v \in TrcWriters \ {w} : trcCall'[v] = TrcIdle
  BY <1>1, <1>5, TrcMoves DEF TrcInv
<1>7. line \in Nat /\ trcLines \in Seq(Nat) /\ trcFile \in Seq(Nat) /\ Len(trcFile) \in Nat
  BY <1>5, TrcNewestShape, LenProperties DEF TrcOrdered
<1> HIDE DEF line
<1>8. /\ trcLines' \in Seq(Nat) /\ Len(trcLines') = Len(trcLines) + 1
      /\ Len(trcFile') = Len(trcFile) + 1
  BY <1>1, <1>7, AppendProperties
<1>9. TrcNewest(trcFile)'
  <2>1. PICK skip \in 0..Len(trcLines) :
          /\ trcFile = LastLines(trcLines, skip)
          /\ skip > 0 => trcStorage = "rolling" /\ Len(trcFile) >= TrcMaxEntries
    BY <1>5 DEF TrcOrdered, TrcNewest
  <2>2. trcFile' = LastLines(trcLines', skip)
    BY <1>1, <1>7, <2>1, LastLinesOfAppend
  <2>3. skip \in 0..Len(trcLines')
    BY <1>7, <1>8, <2>1, LenProperties
  <2>4. skip > 0 => trcStorage' = "rolling" /\ Len(trcFile') >= TrcMaxEntries
    BY <1>1, <1>7, <1>8, <2>1, TrcAssumption
  <2> QED BY <2>2, <2>3, <2>4 DEF TrcNewest
<1>10. trcLate' \in Nat
       /\ (trcStorage' = "rolling" => Len(trcFile') <= TrcMaxEntries + trcLate')
  BY <1>1, <1>5, <1>7, <1>8, TrcAssumption DEF TrcOrdered
<1>11. \A v \in TrcWriters : TrcStep(v)'
  <2>1. trcCall'[w].pc \notin {"copy", "rename"}
    BY <1>pc, <1>1, TrcMoves DEF TrcInv
  <2> QED BY <1>6, <2>1, TrcIdleOrActive DEF TrcStep, TrcActive
<1> QED
  BY <1>6, <1>8, <1>9, <1>10, <1>11 DEF TrcOrdered

LEMMA TrcAppendFailsKeeps ==
  ASSUME TrcInv, NEW w \in TrcWriters, TrcAppendFails(w)
  PROVE  TrcInv'
<1> DEFINE pc == IF trcStorage = "rolling" THEN "count" ELSE "idle"
<1>1. /\ trcCall[w] = TrcIdle /\ TrcGo(w, pc, 0)
      /\ (trcOverlap' <=> trcOverlap \/ TrcTrimming(w))
      /\ UNCHANGED <<trcStorage, trcFile, trcTemp, trcLines, trcLate>>
  BY Zenon DEF TrcAppendFails
<1>2. \/ pc \in TrcActive /\ trcStorage = "rolling"
      \/ pc = "idle" /\ trcStorage # "rolling"
  BY DEF TrcActive
<1>3. pc \notin {"copy", "rename"}
  OBVIOUS
<1> HIDE DEF pc
<1>4. TrcCalls'
  BY <1>1, <1>2, TrcCallsMove DEF TrcInv
<1>5. SUFFICES ASSUME ~trcOverlap' PROVE TrcOrdered'
  BY <1>4 DEF TrcInv
<1>6. TrcOrdered /\ \A v \in TrcWriters \ {w} : trcCall[v] = TrcIdle
  BY <1>1, <1>5 DEF TrcInv, TrcTrimming, TrcCalls, TrcActive
<1>7. trcCall'[w].pc \notin {"copy", "rename"}
      /\ \A v \in TrcWriters \ {w} : trcCall'[v] = TrcIdle
  BY <1>1, <1>3, <1>6, TrcMoves DEF TrcInv
<1>8. \A v \in TrcWriters : TrcStep(v)'
  BY <1>7, TrcIdleOrActive DEF TrcStep, TrcActive
<1> QED
  BY <1>1, <1>6, <1>7, <1>8 DEF TrcOrdered, TrcNewest

LEMMA TrcCountKeeps ==
  ASSUME TrcInv, NEW w \in TrcWriters, TrcCount(w)
  PROVE  TrcInv'
<1> DEFINE skip == Len(trcFile) - TrcMaxEntries
<1>1. /\ trcCall[w].pc = "count"
      /\ UNCHANGED <<trcStorage, trcFile, trcTemp, trcLines, trcOverlap>>
      /\ \/ Len(trcFile) <= TrcMaxEntries /\ TrcGo(w, "idle", 0) /\ trcLate' = 0
         \/ /\ ~(Len(trcFile) <= TrcMaxEntries) /\ TrcGo(w, "copy", skip)
            /\ trcLate' = trcLate
  BY DEF TrcCount, TrcDone
<1>2. trcCall[w] # TrcIdle /\ trcStorage = "rolling"
  BY <1>1, TrcIdleOrActive DEF TrcInv, TrcCalls
<1>3. TrcCalls'
  BY <1>1, <1>2, TrcCallsMove DEF TrcInv, TrcActive
<1>4. SUFFICES ASSUME ~trcOverlap PROVE TrcOrdered'
  BY <1>1, <1>3 DEF TrcInv
<1>5. TrcOrdered /\ TrcCalls
  BY <1>4 DEF TrcInv
<1>6. Len(trcFile) \in Nat /\ TrcMaxEntries \in Nat
  BY <1>5, TrcNewestShape, TrcAssumption DEF TrcOrdered
<1>7. /\ \A v \in TrcWriters \ {w} : trcCall'[v] = TrcIdle
      /\ \A u, v \in TrcWriters : trcCall'[u] # TrcIdle /\ trcCall'[v] # TrcIdle => u = v
  BY <1>1, <1>2, <1>5, TrcStillAlone
<1>8. TrcNewest(trcFile)' /\ trcLines' \in Seq(Nat)
  BY <1>1, <1>5 DEF TrcOrdered, TrcNewest
<1>9. trcLate' \in Nat /\ Len(trcFile') <= TrcMaxEntries + trcLate'
  BY <1>1, <1>2, <1>5, <1>6 DEF TrcOrdered
<1>10. TrcStep(w)'
  <2>1. CASE Len(trcFile) <= TrcMaxEntries
    <3>1. trcCall'[w].pc = "idle"
      BY <1>1, <1>5, <2>1, TrcMoves
    <3> QED BY <3>1 DEF TrcStep
  <2>2. CASE ~(Len(trcFile) <= TrcMaxEntries)
    <3>0. TrcGo(w, "copy", skip)
      BY <1>1, <2>2
    <3> HIDE DEF skip
    <3>1. trcCall'[w].pc = "copy" /\ trcCall'[w].skip = skip
      BY <1>5, <3>0 DEF TrcCalls, TrcGo
    <3>2. Len(trcFile) > TrcMaxEntries
      BY <1>6, <2>2
    <3> QED BY <1>1, <3>1, <3>2 DEF TrcStep, skip
  <2> QED BY <2>1, <2>2
<1>11. \A v \in TrcWriters : TrcStep(v)'
  BY <1>7, <1>10, TrcIdleOrActive DEF TrcStep, TrcActive
<1> QED
  BY <1>7, <1>8, <1>9, <1>11 DEF TrcOrdered

LEMMA TrcCopyKeeps ==
  ASSUME TrcInv, NEW w \in TrcWriters, TrcCopy(w)
  PROVE  TrcInv'
<1>1. /\ trcCall[w].pc = "copy" /\ trcTemp' = LastLines(trcFile, trcCall[w].skip)
      /\ TrcGo(w, "rename", 0)
      /\ UNCHANGED <<trcStorage, trcFile, trcLines, trcLate, trcOverlap>>
  BY DEF TrcCopy, Copied
<1>2. trcCall[w] # TrcIdle /\ trcStorage = "rolling"
  BY <1>1, TrcIdleOrActive DEF TrcInv, TrcCalls
<1>3. TrcCalls'
  BY <1>1, <1>2, TrcCallsMove DEF TrcInv, TrcActive
<1>4. SUFFICES ASSUME ~trcOverlap PROVE TrcOrdered'
  BY <1>1, <1>3 DEF TrcInv
<1>5. TrcOrdered /\ TrcCalls
  BY <1>4 DEF TrcInv
<1>6. /\ \A v \in TrcWriters \ {w} : trcCall'[v] = TrcIdle
      /\ \A u, v \in TrcWriters : trcCall'[u] # TrcIdle /\ trcCall'[v] # TrcIdle => u = v
  BY <1>1, <1>2, <1>5, TrcStillAlone
<1>7. PICK skip \in 0..Len(trcLines) : trcFile = LastLines(trcLines, skip)
  BY <1>5 DEF TrcOrdered, TrcNewest
<1> DEFINE more == trcCall[w].skip
<1>8. Len(trcFile) > TrcMaxEntries /\ more = Len(trcFile) - TrcMaxEntries
  BY <1>1, <1>5 DEF TrcOrdered, TrcStep
<1>9. /\ trcLines \in Seq(Nat) /\ Len(trcLines) \in Nat /\ TrcMaxEntries \in Nat
      /\ Len(trcFile) = Len(trcLines) - skip
  BY <1>5, <1>7, LastLinesShape, LenProperties, TrcAssumption DEF TrcOrdered
<1> HIDE DEF more
<1>10. more \in 0..(Len(trcLines) - skip) /\ skip + more \in 0..Len(trcLines)
       /\ Len(trcLines) - (skip + more) = TrcMaxEntries
  BY <1>8, <1>9
<1>11. trcTemp' = LastLines(trcLines, skip + more)
  BY <1>1, <1>7, <1>9, <1>10, LastLinesOfLast DEF more
<1>12. Len(trcTemp') = TrcMaxEntries
  BY <1>9, <1>10, <1>11, LastLinesShape
<1>13. Len(trcTemp') >= TrcMaxEntries
  BY <1>9, <1>12
<1>14. TrcNewest(trcTemp)'
  BY <1>1, <1>2, <1>10, <1>11, <1>13 DEF TrcNewest
<1>15. TrcStep(w)'
  <2>1. trcCall'[w].pc = "rename"
    BY <1>1, <1>5, TrcMoves
  <2> QED BY <1>12, <1>14, <2>1 DEF TrcStep
<1>16. \A v \in TrcWriters : TrcStep(v)'
  BY <1>6, <1>15, TrcIdleOrActive DEF TrcStep, TrcActive
<1> QED
  BY <1>1, <1>5, <1>6, <1>16 DEF TrcOrdered, TrcNewest

LEMMA TrcRenameKeeps ==
  ASSUME TrcInv, NEW w \in TrcWriters, TrcRename(w)
  PROVE  TrcInv'
<1>1. /\ trcCall[w].pc = "rename" /\ trcFile' = trcTemp /\ TrcGo(w, "idle", 0)
      /\ trcLate' = 0 /\ UNCHANGED <<trcStorage, trcLines, trcOverlap>>
  BY DEF TrcRename, TrcDone
<1>2. trcCall[w] # TrcIdle
  BY <1>1, TrcIdleOrActive
<1>3. TrcCalls'
  BY <1>1, TrcCallsMove DEF TrcInv
<1>4. SUFFICES ASSUME ~trcOverlap PROVE TrcOrdered'
  BY <1>1, <1>3 DEF TrcInv
<1>5. TrcOrdered /\ TrcCalls
  BY <1>4 DEF TrcInv
<1>6. /\ \A v \in TrcWriters \ {w} : trcCall'[v] = TrcIdle
      /\ \A u, v \in TrcWriters : trcCall'[u] # TrcIdle /\ trcCall'[v] # TrcIdle => u = v
  BY <1>1, <1>2, <1>5, TrcStillAlone
<1>7. TrcNewest(trcTemp) /\ Len(trcTemp) = TrcMaxEntries
  BY <1>1, <1>5 DEF TrcOrdered, TrcStep
<1>8. TrcNewest(trcFile)'
  BY <1>1, <1>7 DEF TrcNewest
<1>9. Len(trcFile') <= TrcMaxEntries + trcLate' /\ trcLate' \in Nat
  BY <1>1, <1>7, TrcAssumption
<1>10. trcCall'[w].pc = "idle"
  BY <1>1, <1>5, TrcMoves
<1>11. \A v \in TrcWriters : TrcStep(v)'
  BY <1>6, <1>10, TrcIdleOrActive DEF TrcStep, TrcActive
<1> QED
  BY <1>1, <1>5, <1>6, <1>8, <1>9, <1>11 DEF TrcOrdered

\* A call that is cut short leaves the file, whatever it leaves of the copy.
LEMMA TrcCutKeeps ==
  ASSUME TrcInv, NEW w \in TrcWriters, trcCall[w] # TrcIdle, TrcDone(w),
         UNCHANGED <<trcStorage, trcFile, trcLines, trcLate, trcOverlap>>
  PROVE  TrcInv'
<1>1. TrcGo(w, "idle", 0)
  BY DEF TrcDone
<1>2. TrcCalls'
  BY <1>1, TrcCallsMove DEF TrcInv
<1>3. SUFFICES ASSUME ~trcOverlap PROVE TrcOrdered'
  BY <1>2 DEF TrcInv
<1>4. TrcOrdered /\ TrcCalls
  BY <1>3 DEF TrcInv
<1>5. /\ \A v \in TrcWriters \ {w} : trcCall'[v] = TrcIdle
      /\ \A u, v \in TrcWriters : trcCall'[u] # TrcIdle /\ trcCall'[v] # TrcIdle => u = v
  BY <1>1, <1>4, TrcStillAlone
<1>6. trcCall'[w].pc = "idle"
  BY <1>1, <1>4, TrcMoves
<1>7. \A v \in TrcWriters : TrcStep(v)'
  BY <1>5, <1>6, TrcIdleOrActive DEF TrcStep, TrcActive
<1> QED
  BY <1>4, <1>5, <1>7 DEF TrcOrdered, TrcNewest

\* The invariant holds of every behaviour of the trace.
LEMMA TrcInvHolds == TrcSpec => []TrcInv
<1>1. TrcInv /\ [TrcNext]_trcVars => TrcInv'
  <2> SUFFICES ASSUME TrcInv, [TrcNext]_trcVars PROVE TrcInv'
    OBVIOUS
  <2>1. ASSUME NEW w \in TrcWriters,
               TrcAppend(w) \/ TrcAppendFails(w) \/ TrcCount(w) \/ TrcCopy(w) \/ TrcRename(w)
        PROVE  TrcInv'
    BY <2>1, TrcAppendKeeps, TrcAppendFailsKeeps, TrcCountKeeps, TrcCopyKeeps, TrcRenameKeeps
  <2>2. ASSUME NEW w \in TrcWriters, TrcTrimFails(w) PROVE TrcInv'
    <3>1. trcCall[w] # TrcIdle
      BY <2>2, TrcIdleOrActive DEF TrcTrimFails, TrcActive
    <3> QED BY <2>2, <3>1, TrcCutKeeps DEF TrcTrimFails
  <2>3. ASSUME NEW w \in TrcWriters, TrcCrash(w) PROVE TrcInv'
    BY <2>3, TrcCutKeeps DEF TrcCrash
  <2>4. CASE UNCHANGED trcVars
    BY <2>4 DEF trcVars, TrcInv, TrcCalls, TrcOrdered, TrcNewest, TrcStep
  <2> QED
    BY <2>1, <2>2, <2>3, <2>4 DEF TrcNext
<1> QED
  BY <1>1, TrcInitHolds, PTL DEF TrcSpec

(***************************************************************************)
(* TraceKeepsTheNewest, for any number of processes, lines, failing steps  *)
(* and crashes and any limit: while writes do not overlap nothing is       *)
(* appended between the count and the rename, so the copy is the newest    *)
(* max_entries lines (JsonlWriter::write, trim_to_last_entries).           *)
(***************************************************************************)
THEOREM TraceKept == TrcSpec => []TraceKeepsTheNewest
<1>1. TrcInv => TraceKeepsTheNewest
  BY DEF TrcInv, TrcOrdered, TrcNewest, TraceKeepsTheNewest
<1> QED
  BY <1>1, TrcInvHolds, PTL

\* What the trace's files and counters are made of, whether or not writes overlap.
TrcTyped ==
  /\ trcLines \in Seq(Nat)
  /\ trcFile \in Seq(ToSet(trcLines)) /\ trcTemp \in Seq(ToSet(trcLines))
  /\ trcStorage \in TrcStorage /\ trcFaults \in 0..TrcMaxFaults
  /\ trcLate \in 0..Len(trcLines) /\ trcOverlap \in BOOLEAN
  /\ DOMAIN trcCall = TrcWriters
  /\ \A w \in TrcWriters : trcCall[w].pc \in {"idle", "count", "copy", "rename"}
                           /\ trcCall[w].skip \in Nat

\* What is cut off a file is of the file.
LEMMA TrcCutTyped ==
  ASSUME NEW T, NEW file \in Seq(T), NEW skip \in Nat, NEW n \in Nat,
         n <= Len(LastLines(file, skip))
  PROVE  LastLines(file, skip) \in Seq(T) /\ SubSeq(LastLines(file, skip), 1, n) \in Seq(T)
<1>1. ASSUME NEW s \in Seq(T), NEW m \in Nat \ {0}, NEW k \in Nat, k <= Len(s)
      PROVE  SubSeq(s, m, k) \in Seq(T)
  BY <1>1
<1>2. LastLines(file, skip) \in Seq(T)
  BY DEF LastLines
<1>3. Len(LastLines(file, skip)) \in Nat
  BY <1>2
<1> QED
  BY <1>1, <1>2, <1>3

\* A call goes on with a number.
LEMMA TrcGoTyped ==
  ASSUME TrcTyped, NEW w \in TrcWriters, NEW pc \in {"idle", "count", "copy", "rename"},
         NEW skip \in Nat, TrcGo(w, pc, skip)
  PROVE  /\ DOMAIN trcCall' = TrcWriters
         /\ \A v \in TrcWriters : trcCall'[v].pc \in {"idle", "count", "copy", "rename"}
                                  /\ trcCall'[v].skip \in Nat
BY DEF TrcTyped, TrcGo

\* What was appended stays of the lines when there are more.
LEMMA TrcMoreLines ==
  ASSUME TrcTyped, NEW lines \in Seq(Nat), ToSet(trcLines) \subseteq ToSet(lines)
  PROVE  trcFile \in Seq(ToSet(lines)) /\ trcTemp \in Seq(ToSet(lines))
BY DEF TrcTyped

\* A line that is appended is one of the lines.
LEMMA TrcAppendTyped ==
  ASSUME TrcTyped, NEW w \in TrcWriters, TrcAppend(w)
  PROVE  TrcTyped'
<1>1. trcLines \in Seq(Nat) /\ Len(trcLines) + 1 \in Nat /\ trcFile \in Seq(ToSet(trcLines))
  BY DEF TrcTyped
<1> DEFINE lines == Append(trcLines, Len(trcLines) + 1)
<1>2. trcLines' = lines /\ trcFile' = Append(trcFile, Len(trcLines) + 1)
      /\ trcLate' = trcLate + 1 /\ UNCHANGED <<trcStorage, trcTemp, trcFaults>>
      /\ trcOverlap' = (trcOverlap \/ TrcTrimming(w))
  BY DEF TrcAppend
<1>3. lines \in Seq(Nat) /\ Len(lines) = Len(trcLines) + 1
  BY <1>1
<1>4. ToSet(trcLines) \subseteq ToSet(lines) /\ Len(trcLines) + 1 \in ToSet(lines)
  <2>1. lines[Len(trcLines) + 1] = Len(trcLines) + 1 /\ Len(trcLines) + 1 \in DOMAIN lines
        /\ \A i \in DOMAIN trcLines : i \in DOMAIN lines /\ lines[i] = trcLines[i]
    BY <1>1
  <2> HIDE DEF lines
  <2> QED BY <2>1 DEF ToSet
<1>5. trcFile \in Seq(ToSet(lines)) /\ trcTemp \in Seq(ToSet(lines))
  BY <1>3, <1>4, TrcMoreLines
<1>6. trcFile' \in Seq(ToSet(lines)) /\ trcTemp' \in Seq(ToSet(lines))
  <2> HIDE DEF lines
  <2> QED BY <1>2, <1>4, <1>5
<1>7. trcLate' \in 0..Len(lines)
  <2>1. trcLate \in 0..Len(trcLines) /\ Len(trcLines) \in Nat
    BY <1>1 DEF TrcTyped
  <2> QED BY <1>2, <1>3, <2>1
<1>8. /\ DOMAIN trcCall' = TrcWriters
      /\ \A v \in TrcWriters : trcCall'[v].pc \in {"idle", "count", "copy", "rename"}
                               /\ trcCall'[v].skip \in Nat
  BY TrcGoTyped DEF TrcAppend
<1>9. trcOverlap' \in BOOLEAN
  BY <1>2, Zenon DEF TrcTyped
<1> HIDE DEF lines
<1> QED
  BY <1>2, <1>3, <1>6, <1>7, <1>8, <1>9 DEF TrcTyped

\* A step that appends nothing.
LEMMA TrcOthersTyped ==
  ASSUME TrcTyped, NEW w \in TrcWriters,
         \/ TrcAppendFails(w) \/ TrcCount(w) \/ TrcCopy(w) \/ TrcRename(w)
         \/ TrcTrimFails(w) \/ TrcCrash(w)
  PROVE  TrcTyped'
<1>1. UNCHANGED <<trcStorage, trcLines>>
  BY DEF TrcAppendFails, TrcCount, TrcCopy, TrcRename, TrcTrimFails, TrcCrash
<1>2. trcFile \in Seq(ToSet(trcLines)) /\ trcTemp \in Seq(ToSet(trcLines))
      /\ <<>> \in Seq(ToSet(trcLines))
  BY DEF TrcTyped
<1>3. trcFile' \in {trcFile, trcTemp}
  BY DEF TrcAppendFails, TrcCount, TrcCopy, TrcRename, TrcTrimFails, TrcCrash
<1>4. trcTemp' \in Seq(ToSet(trcLines))
  <2>1. trcCall[w].skip \in Nat
    BY DEF TrcTyped
  <2>2. Len(Copied(w)) \in Nat /\ Copied(w) \in Seq(ToSet(trcLines))
    <3>1. LastLines(trcFile, trcCall[w].skip) \in Seq(ToSet(trcLines))
      BY <1>2, <2>1 DEF LastLines
    <3> QED BY <3>1 DEF Copied
  <2>3. \/ trcTemp' \in {trcTemp, <<>>, Copied(w)}
        \/ \E n \in 0..Len(Copied(w)) : trcTemp' = SubSeq(Copied(w), 1, n)
    BY DEF TrcAppendFails, TrcCount, TrcCopy, TrcRename, TrcTrimFails, TrcCrash
  <2>4. \A n \in 0..Len(Copied(w)) : SubSeq(Copied(w), 1, n) \in Seq(ToSet(trcLines))
    <3> TAKE n \in 0..Len(Copied(w))
    <3>1. n \in Nat /\ n <= Len(LastLines(trcFile, trcCall[w].skip))
      BY <2>2 DEF Copied
    <3> QED BY <1>2, <2>1, <3>1, TrcCutTyped DEF Copied
  <2> QED BY <1>2, <2>2, <2>3, <2>4
<1>5. trcFaults' \in 0..TrcMaxFaults
  <2>1. trcFaults' = trcFaults \/ (trcFaults < TrcMaxFaults /\ trcFaults' = trcFaults + 1)
    BY DEF TrcAppendFails, TrcCount, TrcCopy, TrcRename, TrcTrimFails, TrcCrash, TrcFault
  <2>2. TrcMaxFaults \in Nat /\ trcFaults \in 0..TrcMaxFaults
    BY TrcAssumption DEF TrcTyped
  <2> QED BY ONLY <2>1, <2>2
<1>6. trcLate' \in 0..Len(trcLines)
  <2>1. trcLate' \in {trcLate, 0}
    BY DEF TrcAppendFails, TrcCount, TrcCopy, TrcRename, TrcTrimFails, TrcCrash
  <2>2. trcLate \in 0..Len(trcLines) /\ Len(trcLines) \in Nat
    BY DEF TrcTyped
  <2> QED BY <2>1, <2>2
<1>7. trcOverlap' \in BOOLEAN
  <2>1. trcOverlap' = trcOverlap \/ trcOverlap' = (trcOverlap \/ TrcTrimming(w))
    BY Zenon DEF TrcAppendFails, TrcCount, TrcCopy, TrcRename, TrcTrimFails, TrcCrash
  <2> QED BY <2>1, Zenon DEF TrcTyped
<1>8. /\ DOMAIN trcCall' = TrcWriters
      /\ \A v \in TrcWriters : trcCall'[v].pc \in {"idle", "count", "copy", "rename"}
                               /\ trcCall'[v].skip \in Nat
  <2>1. \E pc \in {"idle", "count", "copy", "rename"}, skip \in Nat : TrcGo(w, pc, skip)
    <3>1. CASE TrcCount(w)
      <4>1. Len(trcFile) \in Nat /\ TrcMaxEntries \in Nat
        BY <1>2, TrcAssumption
      <4>2. \/ TrcGo(w, "idle", 0)
            \/ Len(trcFile) > TrcMaxEntries /\ TrcGo(w, "copy", Len(trcFile) - TrcMaxEntries)
        BY <3>1, <4>1 DEF TrcCount, TrcDone
      <4>3. Len(trcFile) > TrcMaxEntries => Len(trcFile) - TrcMaxEntries \in Nat
        BY <4>1
      <4> QED BY <4>2, <4>3
    <3>2. TrcGo(w, "idle", 0) \/ TrcGo(w, "count", 0) \/ TrcGo(w, "rename", 0) \/ TrcCount(w)
      BY DEF TrcAppendFails, TrcCopy, TrcRename, TrcTrimFails, TrcCrash, TrcDone
    <3> QED BY <3>1, <3>2
  <2> QED BY <2>1, TrcGoTyped
<1> QED
  BY <1>1, <1>2, <1>3, <1>4, <1>5, <1>6, <1>7, <1>8 DEF TrcTyped

\* Both files hold lines that were written, also while writes overlap (JsonlWriter).
LEMMA TrcTypesHold == TrcSpec => []TrcTypeOK
<1>1. TrcInit => TrcTyped
  <2> SUFFICES ASSUME TrcInit PROVE TrcTyped
    OBVIOUS
  <2>1. TrcIdle.pc = "idle" /\ TrcIdle.skip = 0
    BY DEF TrcIdle
  <2>2. /\ DOMAIN trcCall = TrcWriters
        /\ \A w \in TrcWriters : trcCall[w].pc \in {"idle", "count", "copy", "rename"}
                                 /\ trcCall[w].skip \in Nat
    BY <2>1 DEF TrcInit
  <2>3. /\ trcFaults \in 0..TrcMaxFaults /\ trcLate \in 0..Len(trcLines)
        /\ trcLines \in Seq(Nat)
    <3>1. TrcMaxFaults \in Nat /\ trcFaults = 0 /\ trcLate = 0 /\ trcLines = <<>>
      BY TrcAssumption DEF TrcInit
    <3> QED BY ONLY <3>1
  <2>4. trcFile \in Seq(ToSet(trcLines)) /\ trcTemp \in Seq(ToSet(trcLines))
    BY DEF TrcInit
  <2> QED BY <2>2, <2>3, <2>4 DEF TrcInit, TrcTyped
<1>2. TrcTyped /\ [TrcNext]_trcVars => TrcTyped'
  <2>1. TrcTyped /\ UNCHANGED trcVars => TrcTyped'
    BY DEF TrcTyped, trcVars
  <2> QED BY <2>1, TrcAppendTyped, TrcOthersTyped, Zenon DEF TrcNext
<1>3. TrcTyped => TrcTypeOK
  <2> SUFFICES ASSUME TrcTyped PROVE TrcTypeOK
    OBVIOUS
  <2>1. \A s \in Seq(ToSet(trcLines)) : ToSet(s) \subseteq ToSet(trcLines)
    BY DEF ToSet
  <2> QED BY <2>1 DEF TrcTyped, TrcTypeOK
<1> QED
  BY <1>1, <1>2, <1>3, PTL DEF TrcSpec

=============================================================================
