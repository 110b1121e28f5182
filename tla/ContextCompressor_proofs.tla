---------------------- MODULE ContextCompressor_proofs ----------------------
(***************************************************************************)
(* Proofs about ContextCompressor: what its two searches return, what the   *)
(* stretch it replaces looks like, that nothing said is forgotten, that the *)
(* last messages survive word for word, and that all stay in order.         *)
(***************************************************************************)
EXTENDS ContextCompressor, NaturalSets, SequenceTheorems, TLAPS

------------------------------------------------------------------------------
(* What the two searches return *)

\* The head holds the system prompt and does not end before a tool result.
LEMMA HeadRange ==
  ASSUME NEW msgs \in Seq(Message), msgs # << >>
  PROVE  LET head == ProtectHeadSize(msgs)
         IN  /\ head \in 0..Len(msgs)
             /\ head = Len(msgs) \/ msgs[head + 1].role # "tool"
             /\ msgs[1].role = "system" => head >= 1
<1> DEFINE system == IF msgs[1].role = "system" THEN 1 ELSE 0
           kept == IF compression_count = 0 /\ previous_summary = {}
                   THEN Least(system + ProtectFirstN, Len(msgs))
                   ELSE system
           heads == {head \in kept..Len(msgs) :
                       head = Len(msgs) \/ msgs[head + 1].role # "tool"}
<1>1. Len(msgs) \in Nat \ {0}
  BY EmptySeq
<1>2. system \in 0..1 /\ (msgs[1].role = "system" => system = 1)
  OBVIOUS
<1>3. kept \in system..Len(msgs)
  <2> HIDE DEF system
  <2>1. Least(system + ProtectFirstN, Len(msgs)) \in system..Len(msgs)
    BY <1>1, <1>2, SizesAreNaturals DEF Least
  <2>2. system \in system..Len(msgs)
    BY <1>1, <1>2
  <2> QED BY <2>1, <2>2
<1>4. heads \subseteq Nat /\ Len(msgs) \in heads
  <2> HIDE DEF kept, system
  <2> QED BY <1>1, <1>2, <1>3
<1>5. Min(heads) \in heads
  <2> HIDE DEF heads
  <2> QED BY <1>4, MinOfNaturals
<1>6. ProtectHeadSize(msgs) = Min(heads)
  BY DEF ProtectHeadSize
<1>7. /\ ProtectHeadSize(msgs) \in kept..Len(msgs)
      /\ \/ ProtectHeadSize(msgs) = Len(msgs)
         \/ msgs[ProtectHeadSize(msgs) + 1].role # "tool"
  BY <1>5, <1>6
<1> HIDE DEF kept, system, heads
<1> QED
  BY <1>1, <1>2, <1>3, <1>7

LEMMA BudgetCutRange ==
  ASSUME NEW msgs \in Seq(Message), NEW head \in 0..Len(msgs), NEW min_tail
  PROVE  BudgetCut(msgs, head, min_tail) \in head..Len(msgs)
<1> DEFINE soft_ceiling == Greatest(1, (TailTokenBudget * 3) \div 2)
           Stops(cut) == /\ TailWeight(msgs, cut) > soft_ceiling
                         /\ Len(msgs) - cut >= min_tail
           cuts == {cut \in head..Len(msgs) :
                      \A c \in cut..Len(msgs) - 1 : ~Stops(c)}
<1>1. Len(msgs) \in Nat
  OBVIOUS
<1>2. cuts \subseteq Nat /\ Len(msgs) \in cuts /\ cuts \subseteq head..Len(msgs)
  <2> HIDE DEF Stops
  <2> QED BY <1>1
<1>3. BudgetCut(msgs, head, min_tail) = Min(cuts)
  BY DEF BudgetCut
<1> HIDE DEF cuts
<1> QED
  BY <1>2, <1>3, MinOfNaturals

\* The tail keeps at least the messages it must, and the newest dialogue
\* message unless the middle is a single message.
LEMMA CutRange ==
  ASSUME NEW msgs \in Seq(Message), NEW head \in 0..Len(msgs)
  PROVE  LET n == Len(msgs)
             cut == FindTailCut(msgs, head)
         IN  /\ cut \in 0..n
             /\ head < n => head < cut
             /\ n > head + 1 => cut <= n - Least(ProtectLastN, n - head - 1)
             /\ \/ cut <= head + 1
                \/ \E i \in cut + 1..n : IsDialogue(msgs[i])
                \/ \A i \in head + 1..n : ~IsDialogue(msgs[i])
<1> DEFINE n == Len(msgs)
           min_tail == Least(ProtectLastN, n - head - 1)
           fallback == n - min_tail
           reach == BudgetCut(msgs, head, min_tail)
           budget == Least(reach, fallback)
           split == IF budget <= head THEN Greatest(fallback, head + 1)
                    ELSE budget
           dialogue == {i \in head..n - 1 : IsDialogue(msgs[i + 1])}
           newest == Max(dialogue)
           kept == IF dialogue = {} THEN split ELSE Least(split, newest)
           cut == FindTailCut(msgs, head)
<1>1. n \in Nat /\ head \in Nat /\ head <= n
  OBVIOUS
<1>2. cut = IF n <= head + 1 THEN n ELSE Greatest(kept, head + 1)
  BY DEF FindTailCut
<1>3. CASE n <= head + 1
  <2>1. cut = n
    BY <1>2, <1>3
  <2> HIDE DEF cut, n
  <2> QED BY <1>1, <1>3, <2>1 DEF n, cut
<1>4. CASE n > head + 1
  <2>1. /\ min_tail \in 0..n - head - 1
        /\ fallback \in head + 1..n
    <3> HIDE DEF n
    <3> QED BY <1>1, <1>4, SizesAreNaturals DEF Least
  <2>2. reach \in head..n
    BY BudgetCutRange
  <2>3. split \in head + 1..fallback
    <3> HIDE DEF n, min_tail, fallback, reach
    <3> QED BY <1>1, <2>1, <2>2 DEF Least, Greatest
  <2>4. dialogue # {} => /\ newest \in dialogue
                         /\ newest \in head..n - 1
                         /\ \A i \in dialogue : i <= newest
    <3>1. dialogue \subseteq 0..n - 1 /\ n - 1 \in Nat
      BY <1>1, <1>4
    <3>2. dialogue \subseteq head..n - 1
      OBVIOUS
    <3> HIDE DEF dialogue, n
    <3> QED BY <3>1, <3>2, MaxOfNaturals
  <2>5. cut = Greatest(kept, head + 1)
    BY <1>1, <1>2, <1>4
  <2>6. CASE dialogue = {}
    <3>1. cut = split
      <4>1. kept = split BY <2>6
      <4> HIDE DEF kept, split, cut, n, fallback
      <4> QED BY <4>1, <2>3, <2>5, <1>1, <2>1 DEF Greatest
    <3>2. \A i \in head + 1..n : ~IsDialogue(msgs[i])
      <4> TAKE i \in head + 1..n
      <4>1. i - 1 \in head..n - 1 /\ (i - 1) + 1 = i
        BY <1>1
      <4>2. i - 1 \notin dialogue
        BY <2>6
      <4> QED BY <4>1, <4>2
    <3> HIDE DEF cut, split, fallback, n, min_tail
    <3>3. cut \in head + 1..n - min_tail
      BY <3>1, <2>3, <2>1, <1>1 DEF fallback
    <3> QED BY <3>2, <3>3, <2>1, <1>1, <1>4 DEF n, cut, min_tail
  <2>7. CASE dialogue # {}
    <3>1. /\ newest \in head..n - 1
          /\ IsDialogue(msgs[newest + 1])
      BY <2>4, <2>7
    <3>2. kept = Least(split, newest)
      BY <2>7
    <3>3. /\ cut \in head + 1..n - min_tail
          /\ cut = head + 1 \/ cut <= newest
      <4> HIDE DEF kept, split, cut, n, newest, min_tail
      <4> QED BY <1>1, <1>4, <2>1, <2>3, <2>5, <3>1, <3>2
              DEF Least, Greatest, fallback
    <3>4. cut <= newest => newest + 1 \in cut + 1..n
      <4> HIDE DEF cut, n, newest, min_tail
      <4> QED BY <1>1, <3>1, <3>3, <2>1
    <3> HIDE DEF cut, n, newest, min_tail, dialogue
    <3> QED BY <1>1, <1>4, <2>1, <3>1, <3>3, <3>4 DEF n, cut, min_tail
  <2> QED BY <2>6, <2>7
<1> QED
  BY <1>1, <1>3, <1>4

------------------------------------------------------------------------------
(* Types *)

\* Pruning replaces no message and touches neither its role nor its identity
\* nor what it covers.
LEMMA PruneShape ==
  ASSUME NEW msgs \in Seq(Message)
  PROVE  LET pruned == PruneOldToolResults(msgs)
         IN  /\ pruned \in Seq(Message)
             /\ Len(pruned) = Len(msgs)
             /\ \A i \in 1..Len(msgs) : /\ pruned[i].role = msgs[i].role
                                        /\ pruned[i].id = msgs[i].id
                                        /\ pruned[i].covers = msgs[i].covers
<1> DEFINE pruned == PruneOldToolResults(msgs)
           cut == FindTailCut(msgs, ProtectHeadSize(msgs))
           Row(i) == IF i <= cut /\ Prunable(msgs[i])
                     THEN [msgs[i] EXCEPT !.pruned = TRUE] ELSE msgs[i]
<1>1. pruned = [i \in 1..Len(msgs) |-> Row(i)]
  BY DEF PruneOldToolResults
<1>2. Len(msgs) \in Nat
  OBVIOUS
<1>3. ASSUME NEW i \in 1..Len(msgs)
      PROVE  /\ Row(i) \in Message
             /\ Row(i).role = msgs[i].role /\ Row(i).id = msgs[i].id
             /\ Row(i).covers = msgs[i].covers
  <2>1. msgs[i] \in Message
    OBVIOUS
  <2>2. CASE i <= cut /\ Prunable(msgs[i])
    <3> DEFINE row == msgs[i]
    <3>1. Row(i) = [row EXCEPT !.pruned = TRUE]
      BY <2>2
    <3>2. row \in Message /\ Prunable(row)
      BY <2>1, <2>2
    <3> HIDE DEF row, Row
    <3>3. /\ [row EXCEPT !.pruned = TRUE] \in Message
          /\ [row EXCEPT !.pruned = TRUE].role = row.role
          /\ [row EXCEPT !.pruned = TRUE].id = row.id
          /\ [row EXCEPT !.pruned = TRUE].covers = row.covers
      BY <3>2 DEF Message, Prunable
    <3> QED BY <3>1, <3>3 DEF row
  <2>3. CASE ~(i <= cut /\ Prunable(msgs[i]))
    BY <2>1, <2>3
  <2> QED BY <2>2, <2>3
<1> HIDE DEF Row
<1>4. pruned \in Seq(Message)
  BY <1>1, <1>2, <1>3, IsASeq
<1>5. Len(pruned) = Len(msgs)
  BY <1>1, <1>2
<1> QED
  BY <1>1, <1>3, <1>4, <1>5

LEMMA SummaryType ==
  ASSUME NEW before, NEW after, NEW covers \in SUBSET Nat
  PROVE  SummaryMessage(SummaryRole(before, after), covers) \in Message
BY DEF SummaryMessage, SummaryRole, Message, Roles, Prunable

LEMMA CoveredType ==
  ASSUME NEW msgs \in Seq(Message)
  PROVE  Covered(msgs) \in SUBSET Nat
<1>1. \A i \in 1..Len(msgs) : msgs[i] \in Message
  BY ElementOfSeq
<1>2. \A i \in 1..Len(msgs) : msgs[i].covers \in SUBSET Nat
  BY <1>1 DEF Message
<1> QED
  BY <1>2 DEF Covered

LEMMA SliceType ==
  ASSUME NEW msgs \in Seq(Message), NEW from \in Nat \ {0}, NEW to \in 0..Len(msgs)
  PROVE  /\ SubSeq(msgs, from, to) \in Seq(Message)
         /\ Len(SubSeq(msgs, from, to)) = IF from <= to THEN to - from + 1 ELSE 0
         /\ \A i \in 1..to - from + 1 :
              SubSeq(msgs, from, to)[i] = msgs[from + i - 1]
<1>1. \A i \in from..to : msgs[i] \in Message
  <2> TAKE i \in from..to
  <2>1. i \in 1..Len(msgs)
    OBVIOUS
  <2> QED BY <2>1, ElementOfSeq
<1> QED
  BY <1>1, SubSeqProperties

LEMMA SummaryCoversType ==
  ASSUME NEW middle \in Seq(Message), NEW answered,
         previous_summary \in SUBSET Nat
  PROVE  SummaryCovers(middle, answered) \in SUBSET Nat
<1> DEFINE from == Greatest(1, Len(middle) - FallbackShown + 1)
<1>1. from \in Nat \ {0}
  BY SizesAreNaturals DEF Greatest
<1>2. Len(middle) \in 0..Len(middle)
  OBVIOUS
<1> HIDE DEF from
<1>3. Covered(SubSeq(middle, from, Len(middle))) \in SUBSET Nat
  BY <1>1, <1>2, SliceType, CoveredType
<1>4. Covered(middle) \in SUBSET Nat
  BY CoveredType
<1> QED
  BY <1>3, <1>4 DEF SummaryCovers, from

------------------------------------------------------------------------------
(* What compress() returns *)

\* The rebuilt list: head, summary, tail.
LEMMA RebuiltShape ==
  ASSUME NEW pruned \in Seq(Message), NEW given \in SUBSET Nat,
         NEW head \in Nat \ {0}, NEW cut \in Nat, head < cut, cut <= Len(pruned)
  PROVE  /\ Rebuilt(pruned, head, cut, given) \in Seq(Message)
         /\ Len(Rebuilt(pruned, head, cut, given)) = head + 1 + Len(pruned) - cut
         /\ \A i \in 1..head + 1 + Len(pruned) - cut :
              Rebuilt(pruned, head, cut, given)[i] =
                IF i <= head THEN pruned[i]
                ELSE IF i = head + 1
                THEN SummaryMessage(SummaryRole(RoleAt(pruned, head),
                                                RoleAt(pruned, cut + 1)), given)
                ELSE pruned[cut + (i - (head + 1))]
<1> DEFINE role == SummaryRole(RoleAt(pruned, head), RoleAt(pruned, cut + 1))
           summary == SummaryMessage(role, given)
           front == SubSeq(pruned, 1, head)
           tail == SubSeq(pruned, cut + 1, Len(pruned))
           rebuilt == Rebuilt(pruned, head, cut, given)
<1>1. Len(pruned) \in Nat
  OBVIOUS
<1>2. summary \in Message /\ summary.covers = given
  <2> HIDE DEF role
  <2>1. summary \in Message
    BY SummaryType DEF role
  <2> QED BY <2>1 DEF SummaryMessage
<1>3. /\ front \in Seq(Message) /\ Len(front) = head
      /\ \A i \in 1..head : front[i] = pruned[i]
  <2>1. head \in 0..Len(pruned) /\ 1 \in Nat \ {0} /\ head - 1 + 1 = head
    BY <1>1
  <2>2. \A i \in 1..head : 1 + i - 1 = i
    OBVIOUS
  <2> QED BY <2>1, <2>2, SliceType
<1>4. /\ tail \in Seq(Message) /\ Len(tail) = Len(pruned) - cut
      /\ \A i \in 1..Len(pruned) - cut : tail[i] = pruned[cut + i]
  <2>1. cut + 1 \in Nat \ {0} /\ Len(pruned) \in 0..Len(pruned)
    BY <1>1
  <2>2. /\ tail \in Seq(Message)
        /\ Len(tail) = IF cut + 1 <= Len(pruned)
                       THEN Len(pruned) - (cut + 1) + 1 ELSE 0
        /\ \A i \in 1..Len(pruned) - (cut + 1) + 1 :
             tail[i] = pruned[(cut + 1) + i - 1]
    BY <2>1, SliceType
  <2>3. Len(pruned) - (cut + 1) + 1 = Len(pruned) - cut
    BY <1>1
  <2>4. \A i \in 1..Len(pruned) - cut : (cut + 1) + i - 1 = cut + i
    BY <1>1
  <2>5. cut + 1 <= Len(pruned) \/ Len(pruned) - cut = 0
    BY <1>1
  <2> HIDE DEF tail
  <2>6. Len(tail) = Len(pruned) - cut
    BY <1>1, <2>2, <2>3, <2>5
  <2>7. ASSUME NEW i \in 1..Len(pruned) - cut
        PROVE  tail[i] = pruned[cut + i]
    <3>1. tail[i] = pruned[(cut + 1) + i - 1]
      BY <2>2, <2>3
    <3> QED BY <2>4, <3>1
  <2> QED BY <2>2, <2>6, <2>7
<1>5. rebuilt = front \o <<summary>> \o tail
  BY DEF Rebuilt
<1> HIDE DEF role, summary, front, tail, rebuilt
<1> DEFINE headed == front \o <<summary>>
<1>6. /\ headed \in Seq(Message) /\ Len(headed) = head + 1
      /\ \A i \in 1..head : headed[i] = pruned[i]
      /\ headed[head + 1] = summary
  <2>1. /\ <<summary>> \in Seq(Message) /\ Len(<<summary>>) = 1
        /\ <<summary>>[1] = summary
    BY <1>2
  <2>2. /\ headed \in Seq(Message)
        /\ Len(headed) = Len(front) + Len(<<summary>>)
        /\ \A i \in 1..Len(front) + Len(<<summary>>) :
             headed[i] = IF i <= Len(front) THEN front[i]
                         ELSE <<summary>>[i - Len(front)]
    BY <1>3, <2>1, ConcatProperties
  <2> HIDE DEF headed
  <2> QED BY <1>3, <2>1, <2>2
<1> HIDE DEF headed
<1>7. /\ headed \o tail \in Seq(Message)
      /\ Len(headed \o tail) = Len(headed) + Len(tail)
      /\ \A i \in 1..Len(headed) + Len(tail) :
           (headed \o tail)[i] = IF i <= Len(headed) THEN headed[i]
                                 ELSE tail[i - Len(headed)]
  BY <1>4, <1>6, ConcatProperties
<1>8. rebuilt = headed \o tail
  BY <1>5 DEF headed
<1>9. ASSUME NEW i \in 1..head + 1 + Len(pruned) - cut
      PROVE  rebuilt[i] = IF i <= head THEN pruned[i]
                          ELSE IF i = head + 1 THEN summary
                          ELSE pruned[cut + (i - (head + 1))]
  <2>1. i \in 1..Len(headed) + Len(tail)
    BY <1>1, <1>4, <1>6
  <2>2. CASE i <= head
    BY <1>1, <1>6, <1>7, <1>8, <2>1, <2>2
  <2>3. CASE i = head + 1
    BY <1>1, <1>6, <1>7, <1>8, <2>1, <2>3
  <2>4. CASE i > head + 1
    <3>1. /\ ~(i <= Len(headed)) /\ ~(i <= head) /\ i # head + 1
          /\ i - (head + 1) \in 1..Len(pruned) - cut
      BY <1>1, <1>6, <2>4
    <3>2. rebuilt[i] = tail[i - (head + 1)]
      BY <1>6, <1>7, <1>8, <2>1, <3>1
    <3> QED BY <1>4, <3>1, <3>2
  <2>5. i <= head \/ i = head + 1 \/ i > head + 1
    BY <1>1
  <2> QED BY <2>2, <2>3, <2>4, <2>5, Zenon
<1>10. Len(rebuilt) = head + 1 + Len(pruned) - cut
  BY <1>1, <1>4, <1>6, <1>7, <1>8
<1> QED
  BY <1>7, <1>8, <1>9, <1>10 DEF rebuilt, summary, role

LEMMA CoveredMembers ==
  ASSUME NEW msgs, NEW x
  PROVE  x \in Covered(msgs) <=> \E i \in 1..Len(msgs) : x \in msgs[i].covers
BY DEF Covered

\* A summary that covers the middle leaves nothing uncovered.
LEMMA RebuiltCovers ==
  ASSUME NEW pruned \in Seq(Message), NEW given \in SUBSET Nat,
         NEW head \in Nat \ {0}, NEW cut \in Nat, head < cut, cut <= Len(pruned),
         Covered(SubSeq(pruned, head + 1, cut)) \subseteq given
  PROVE  Covered(pruned) \subseteq Covered(Rebuilt(pruned, head, cut, given))
<1> DEFINE rebuilt == Rebuilt(pruned, head, cut, given)
           middle == SubSeq(pruned, head + 1, cut)
           summary == SummaryMessage(SummaryRole(RoleAt(pruned, head),
                                                 RoleAt(pruned, cut + 1)), given)
<1>1. /\ Len(rebuilt) = head + 1 + Len(pruned) - cut
      /\ \A i \in 1..head + 1 + Len(pruned) - cut :
           rebuilt[i] = IF i <= head THEN pruned[i]
                        ELSE IF i = head + 1 THEN summary
                        ELSE pruned[cut + (i - (head + 1))]
  BY RebuiltShape
<1>10. summary.covers = given
  BY DEF SummaryMessage
<1>2. Len(pruned) \in Nat
  OBVIOUS
<1>3. /\ Len(middle) = cut - head
      /\ \A i \in 1..cut - head : middle[i] = pruned[head + i]
  <2>1. /\ Len(middle) = IF head + 1 <= cut THEN cut - (head + 1) + 1 ELSE 0
        /\ \A i \in 1..cut - (head + 1) + 1 :
             middle[i] = pruned[(head + 1) + i - 1]
    <3>1. head + 1 \in Nat \ {0} /\ cut \in 0..Len(pruned)
      BY <1>2
    <3> QED BY <3>1, SliceType
  <2>2. cut - (head + 1) + 1 = cut - head
    OBVIOUS
  <2>3. \A i \in 1..cut - head : (head + 1) + i - 1 = head + i
    OBVIOUS
  <2> HIDE DEF middle
  <2> QED BY <2>1, <2>2, <2>3
<1>4. Covered(middle) \subseteq given
  OBVIOUS
<1> HIDE DEF rebuilt, middle, summary
<1> SUFFICES ASSUME NEW x \in Covered(pruned)
             PROVE  x \in Covered(rebuilt)
  BY DEF rebuilt
<1>5. PICK i \in 1..Len(pruned) : x \in pruned[i].covers
  BY CoveredMembers
<1>6. CASE i <= head
  <2>1. i \in 1..head + 1 + Len(pruned) - cut
    BY <1>2, <1>6
  <2>2. rebuilt[i] = pruned[i]
    BY <1>1, <1>6, <2>1
  <2> QED BY <1>1, <1>5, <2>1, <2>2, CoveredMembers
<1>7. CASE head < i /\ i <= cut
  <2>1. i - head \in 1..cut - head /\ head + (i - head) = i
    BY <1>2, <1>7
  <2>2. middle[i - head] = pruned[i]
    BY <1>3, <2>1
  <2>3. x \in Covered(middle)
    BY <1>3, <1>5, <2>1, <2>2, CoveredMembers
  <2>4. head + 1 \in 1..head + 1 + Len(pruned) - cut /\ ~(head + 1 <= head)
    BY <1>2
  <2>5. rebuilt[head + 1] = summary
    BY <1>1, <2>4
  <2> QED BY <1>1, <1>4, <1>10, <2>3, <2>4, <2>5, CoveredMembers
<1>8. CASE cut < i
  <2> DEFINE j == head + 1 + i - cut
  <2>1. /\ j \in 1..head + 1 + Len(pruned) - cut
        /\ ~(j <= head) /\ j # head + 1
        /\ cut + (j - (head + 1)) = i
    BY <1>2, <1>8
  <2> HIDE DEF j
  <2>2. rebuilt[j] = pruned[i]
    BY <1>1, <2>1
  <2> QED BY <1>1, <1>5, <2>1, <2>2, CoveredMembers
<1> QED
  BY <1>2, <1>6, <1>7, <1>8

\* compress() returns a list that still starts with the system prompt; unless a
\* fallback summary was needed, it covers what the given list covers.
LEMMA CompressShape ==
  ASSUME NEW msgs \in Seq(Message), msgs # << >>, msgs[1].role = "system",
         NEW answered \in BOOLEAN, previous_summary \in SUBSET Nat
  PROVE  LET result == Compress(msgs, answered)
         IN  /\ result.messages \in Seq(Message) /\ result.messages # << >>
             /\ result.messages[1].covers = msgs[1].covers
             /\ result.compressed \in BOOLEAN /\ result.fallback \in BOOLEAN
             /\ result.previous \in SUBSET Nat
             /\ answered \/ ~result.compressed
                  => Covered(msgs) \subseteq Covered(result.messages)
             /\ result.fallback <=> result.compressed /\ ~answered
<1> DEFINE pruned == PruneOldToolResults(msgs)
           head == ProtectHeadSize(pruned)
           cut == FindTailCut(pruned, head)
           middle == SubSeq(pruned, head + 1, cut)
           covers == SummaryCovers(middle, answered)
           rebuilt == Rebuilt(pruned, head, cut, covers)
           result == Compress(msgs, answered)
<1>1. Len(msgs) \in Nat \ {0}
  BY EmptySeq
<1>2. /\ pruned \in Seq(Message) /\ Len(pruned) = Len(msgs)
      /\ \A i \in 1..Len(msgs) : /\ pruned[i].role = msgs[i].role
                                 /\ pruned[i].covers = msgs[i].covers
  BY PruneShape
<1> HIDE DEF pruned
<1>3. pruned # << >> /\ pruned[1].role = "system"
      /\ pruned[1].covers = msgs[1].covers
  <2>1. 1 \in 1..Len(msgs)
    BY <1>1
  <2> QED BY <1>1, <1>2, <2>1
<1>4. head \in 0..Len(pruned) /\ head >= 1
  BY <1>2, <1>3, HeadRange
<1> HIDE DEF head
<1>5. cut \in 0..Len(pruned)
  BY <1>2, <1>4, CutRange
<1> HIDE DEF cut
<1>6. Covered(pruned) = Covered(msgs)
  BY <1>2 DEF Covered
<1>7. middle \in Seq(Message)
  <2>1. head + 1 \in Nat \ {0}
    BY <1>2, <1>4
  <2> QED BY <1>2, <1>5, <2>1, SliceType
<1> HIDE DEF middle
<1>8. covers \in SUBSET Nat
  BY <1>7, SummaryCoversType
<1>9. answered => Covered(middle) \subseteq covers
  BY DEF SummaryCovers
<1> HIDE DEF covers
<1>10. head < cut =>
         /\ rebuilt \in Seq(Message) /\ rebuilt # << >>
         /\ rebuilt[1] = pruned[1]
         /\ Covered(middle) \subseteq covers
              => Covered(pruned) \subseteq Covered(rebuilt)
  <2> SUFFICES ASSUME head < cut
               PROVE  /\ rebuilt \in Seq(Message) /\ rebuilt # << >>
                      /\ rebuilt[1] = pruned[1]
                      /\ Covered(middle) \subseteq covers
                           => Covered(pruned) \subseteq Covered(rebuilt)
    OBVIOUS
  <2>1. /\ head \in Nat \ {0} /\ cut \in Nat /\ cut <= Len(pruned)
        /\ pruned \in Seq(Message) /\ covers \in SUBSET Nat
    BY <1>2, <1>4, <1>5, <1>8
  <2>2. /\ rebuilt \in Seq(Message)
        /\ Len(rebuilt) = head + 1 + Len(pruned) - cut
        /\ rebuilt[1] = pruned[1]
    <3>1. /\ 1 \in 1..head + 1 + Len(pruned) - cut
          /\ 1 <= head
      BY <2>1
    <3> QED BY <2>1, <3>1, RebuiltShape
  <2>3. Covered(middle) \subseteq covers
          => Covered(pruned) \subseteq Covered(rebuilt)
    BY <2>1, RebuiltCovers DEF middle
  <2> HIDE DEF rebuilt
  <2> QED BY <1>2, <2>1, <2>2, <2>3
<1> HIDE DEF rebuilt
<1>11. \/ result = NotCompressed(msgs)
       \/ result = NotCompressed(pruned)
       \/ /\ head < cut
          /\ result = [messages |-> rebuilt, compressed |-> TRUE,
                       fallback |-> ~answered,
                       previous |-> IF answered THEN covers
                                    ELSE previous_summary]
  <2>1. head >= cut \/ head < cut
    BY <1>2, <1>4, <1>5
  <2> QED BY <2>1 DEF Compress, CompressPruned, CompressAt, pruned, head, cut, middle,
                  covers, rebuilt
<1> HIDE DEF result
<1>12. CASE result = NotCompressed(msgs)
  BY <1>12 DEF NotCompressed, result
<1>13. CASE result = NotCompressed(pruned)
  BY <1>2, <1>3, <1>6, <1>13 DEF NotCompressed, result
<1>14. CASE /\ head < cut
            /\ result = [messages |-> rebuilt, compressed |-> TRUE,
                         fallback |-> ~answered,
                         previous |-> IF answered THEN covers
                                      ELSE previous_summary]
  <2>1. /\ result.messages = rebuilt /\ result.compressed = TRUE
        /\ result.previous \in SUBSET Nat
        /\ result.fallback \in BOOLEAN /\ (result.fallback <=> ~answered)
    BY <1>8, <1>14
  <2>2. answered => Covered(msgs) \subseteq Covered(rebuilt)
    BY <1>6, <1>9, <1>10, <1>14
  <2> QED BY <1>3, <1>10, <1>14, <2>1, <2>2 DEF result
<1> QED
  BY <1>11, <1>12, <1>13, <1>14

------------------------------------------------------------------------------
(* The list compress() is given, and what a step makes of the history *)

LEMMA MessagesShape ==
  ASSUME history \in Seq(Message)
  PROVE  /\ Messages \in Seq(Message) /\ Messages # << >>
         /\ Len(Messages) = Len(history) + 1
         /\ Messages[1] = SystemPrompt
         /\ \A i \in 1..Len(history) : Messages[i + 1] = history[i]
         /\ Covered(history) \subseteq Covered(Messages)
<1>1. SystemPrompt \in Message
  BY DEF SystemPrompt, Message, Roles, Prunable
<1>2. /\ <<SystemPrompt>> \in Seq(Message) /\ Len(<<SystemPrompt>>) = 1
      /\ <<SystemPrompt>>[1] = SystemPrompt
  BY <1>1
<1>3. /\ Messages \in Seq(Message)
      /\ Len(Messages) = 1 + Len(history)
      /\ \A i \in 1..1 + Len(history) :
           Messages[i] = IF i <= 1 THEN <<SystemPrompt>>[i] ELSE history[i - 1]
  <2>1. /\ <<SystemPrompt>> \o history \in Seq(Message)
        /\ Len(<<SystemPrompt>> \o history)
             = Len(<<SystemPrompt>>) + Len(history)
        /\ \A i \in 1..Len(<<SystemPrompt>>) + Len(history) :
             (<<SystemPrompt>> \o history)[i] =
               IF i <= Len(<<SystemPrompt>>) THEN <<SystemPrompt>>[i]
               ELSE history[i - Len(<<SystemPrompt>>)]
    BY <1>2, ConcatProperties
  <2> QED BY <1>2, <2>1 DEF Messages
<1>4. Len(history) \in Nat
  OBVIOUS
<1>5. Messages[1] = SystemPrompt
  BY <1>2, <1>3, <1>4
<1>6. ASSUME NEW i \in 1..Len(history)
      PROVE  Messages[i + 1] = history[i]
  <2>1. i + 1 \in 1..1 + Len(history) /\ ~(i + 1 <= 1) /\ (i + 1) - 1 = i
    BY <1>4
  <2> QED BY <1>3, <2>1
<1>7. Covered(history) \subseteq Covered(Messages)
  <2> SUFFICES ASSUME NEW x \in Covered(history)
               PROVE  x \in Covered(Messages)
    OBVIOUS
  <2>1. PICK i \in 1..Len(history) : x \in history[i].covers
    BY CoveredMembers
  <2>2. i + 1 \in 1..Len(Messages)
    BY <1>3, <1>4
  <2> QED BY <1>6, <2>1, <2>2, CoveredMembers
<1> QED
  BY <1>3, <1>4, <1>5, <1>6, <1>7

LEMMA CoveredConcat ==
  ASSUME NEW s \in Seq(Message), NEW t \in Seq(Message)
  PROVE  Covered(s) \cup Covered(t) \subseteq Covered(s \o t)
<1> DEFINE st == s \o t
<1>1. /\ Len(st) = Len(s) + Len(t)
      /\ \A i \in 1..Len(s) + Len(t) :
           st[i] = IF i <= Len(s) THEN s[i] ELSE t[i - Len(s)]
  BY ConcatProperties
<1>2. Len(s) \in Nat /\ Len(t) \in Nat
  OBVIOUS
<1> HIDE DEF st
<1>3. ASSUME NEW x \in Covered(s) PROVE x \in Covered(st)
  <2>1. PICK i \in 1..Len(s) : x \in s[i].covers
    BY <1>3, CoveredMembers
  <2>2. i \in 1..Len(st) /\ st[i] = s[i]
    BY <1>1, <1>2
  <2> QED BY <2>1, <2>2, CoveredMembers
<1>4. ASSUME NEW x \in Covered(t) PROVE x \in Covered(st)
  <2>1. PICK i \in 1..Len(t) : x \in t[i].covers
    BY <1>4, CoveredMembers
  <2>2. /\ Len(s) + i \in 1..Len(s) + Len(t) /\ ~(Len(s) + i <= Len(s))
        /\ (Len(s) + i) - Len(s) = i
    BY <1>2
  <2>3. Len(s) + i \in 1..Len(st) /\ st[Len(s) + i] = t[i]
    BY <1>1, <2>2
  <2> QED BY <2>1, <2>3, CoveredMembers
<1> QED
  BY <1>3, <1>4 DEF st

\* The list behind the system prompt covers what the whole list covers.
LEMMA CoveredTail ==
  ASSUME NEW msgs \in Seq(Message), msgs # << >>, msgs[1].covers = {}
  PROVE  Tail(msgs) \in Seq(Message) /\ Covered(msgs) \subseteq Covered(Tail(msgs))
<1> DEFINE rest == Tail(msgs)
<1>1. /\ rest \in Seq(Message) /\ Len(rest) = Len(msgs) - 1
      /\ \A i \in 1..Len(rest) : rest[i] = msgs[i + 1]
  BY HeadTailProperties
<1>2. Len(msgs) \in Nat \ {0}
  BY EmptySeq
<1> HIDE DEF rest
<1>3. ASSUME NEW x \in Covered(msgs) PROVE x \in Covered(rest)
  <2>1. PICK i \in 1..Len(msgs) : x \in msgs[i].covers
    BY <1>3, CoveredMembers
  <2>2. i # 1
    BY <2>1
  <2>3. i - 1 \in 1..Len(rest) /\ (i - 1) + 1 = i
    BY <1>1, <1>2, <2>2
  <2>4. rest[i - 1] = msgs[i]
    BY <1>1, <2>3
  <2> QED BY <2>1, <2>3, <2>4, CoveredMembers
<1> QED
  BY <1>1, <1>3 DEF rest

------------------------------------------------------------------------------
(* Nothing said is forgotten: with the types, an inductive invariant *)

Remembered ==
  ~fell_back => session_start..next_id - 1 \subseteq Covered(history)

\* A reply to a call: new messages that speak for themselves.
IsReply(reply) ==
  /\ reply \in Seq(Message)
  /\ next_id..next_id + Len(reply) - 1 \subseteq Covered(reply)

LEMMA SaidType ==
  ASSUME NEW role \in Roles, NEW id \in Nat, NEW calls \in BOOLEAN,
         NEW long \in BOOLEAN
  PROVE  Said(role, id, calls, long) \in Message
BY DEF Said, Message

LEMMA OneReply ==
  ASSUME NEW msg \in Message, msg.covers = {next_id}, next_id \in Nat
  PROVE  IsReply(<<msg>>)
<1>1. <<msg>> \in Seq(Message) /\ Len(<<msg>>) = 1 /\ <<msg>>[1] = msg
  OBVIOUS
<1>2. next_id \in Covered(<<msg>>)
  BY <1>1, CoveredMembers
<1>3. next_id..next_id + 1 - 1 = {next_id}
  OBVIOUS
<1> QED
  BY <1>1, <1>2, <1>3 DEF IsReply

LEMMA ToolReply ==
  ASSUME next_id \in Nat, NEW n \in Nat, NEW long \in BOOLEAN,
         NEW results \in [1..n -> BOOLEAN]
  PROVE  IsReply(<<Said("assistant", next_id, TRUE, long)>>
                   \o [k \in 1..n |-> Said("tool", next_id + k, FALSE, results[k])])
<1> DEFINE call == <<Said("assistant", next_id, TRUE, long)>>
           Row(k) == Said("tool", next_id + k, FALSE, results[k])
           rows == [k \in 1..n |-> Row(k)]
<1>1. /\ call \in Seq(Message) /\ Len(call) = 1
      /\ call[1].covers = {next_id}
  <2>1. Said("assistant", next_id, TRUE, long) \in Message
    BY SaidType DEF Roles
  <2> QED BY <2>1 DEF Said
<1>2. \A k \in 1..n : Row(k) \in Message /\ Row(k).covers = {next_id + k}
  <2> TAKE k \in 1..n
  <2>1. next_id + k \in Nat /\ results[k] \in BOOLEAN
    OBVIOUS
  <2>2. Row(k) \in Message
    BY <2>1, SaidType DEF Roles
  <2> QED BY <2>2 DEF Said
<1> HIDE DEF Row
<1>3. rows \in Seq(Message)
  BY <1>2, IsASeq
<1>4. Len(rows) = n /\ \A k \in 1..n : rows[k] = Row(k)
  OBVIOUS
<1> HIDE DEF call, rows
<1>5. /\ call \o rows \in Seq(Message) /\ Len(call \o rows) = 1 + n
      /\ Covered(call) \cup Covered(rows) \subseteq Covered(call \o rows)
  <2>1. call \in Seq(Message) /\ Len(call) = 1
    BY <1>1
  <2>2. call \o rows \in Seq(Message) /\ Len(call \o rows) = Len(call) + Len(rows)
    BY <1>3, <2>1, ConcatProperties
  <2>3. Covered(call) \cup Covered(rows) \subseteq Covered(call \o rows)
    BY <1>3, <2>1, CoveredConcat
  <2> QED
    BY <1>4, <2>1, <2>2, <2>3
<1>6. next_id \in Covered(call)
  BY <1>1, CoveredMembers
<1>7. ASSUME NEW k \in 1..n PROVE next_id + k \in Covered(rows)
  BY <1>2, <1>4, CoveredMembers
<1>8. ASSUME NEW id \in next_id..next_id + (1 + n) - 1
      PROVE  id \in Covered(call) \cup Covered(rows)
  <2>1. id = next_id \/ (id - next_id \in 1..n /\ next_id + (id - next_id) = id)
    OBVIOUS
  <2> QED BY <1>6, <1>7, <2>1
<1> QED
  BY <1>5, <1>8 DEF IsReply, call, rows, Row

\* What both callers of compress() make of its result.
LEMMA AfterCompressInv ==
  ASSUME TypeOK, Remembered, NEW reply, IsReply(reply),
         NEW answered \in BOOLEAN, NEW taken \in BOOLEAN,
         taken => Compress(Messages, answered).compressed,
         AfterCompress(Compress(Messages, answered), taken, reply)
  PROVE  /\ history' \in Seq(Message) /\ compression_count' \in 0..1
         /\ previous_summary' \in SUBSET Nat /\ abort_on_failure' \in BOOLEAN
         /\ next_id' \in Nat \ {0} /\ session_start' \in Nat \ {0}
         /\ fell_back' \in BOOLEAN
         /\ Remembered'
<1> DEFINE result == Compress(Messages, answered)
           kept == IF taken THEN Tail(result.messages) ELSE history
<1>1. /\ Messages \in Seq(Message) /\ Messages # << >>
      /\ Messages[1].role = "system" /\ Messages[1].covers = {}
      /\ Covered(history) \subseteq Covered(Messages)
  BY MessagesShape DEF TypeOK, SystemPrompt
<1>2. /\ result.messages \in Seq(Message) /\ result.messages # << >>
      /\ result.messages[1].covers = {}
      /\ result.compressed \in BOOLEAN /\ result.fallback \in BOOLEAN
      /\ result.previous \in SUBSET Nat
      /\ answered \/ ~result.compressed
           => Covered(Messages) \subseteq Covered(result.messages)
      /\ result.fallback <=> result.compressed /\ ~answered
  BY <1>1, CompressShape DEF TypeOK
<1>3. /\ history' = kept \o reply
      /\ compression_count' = IF result.compressed THEN 1 ELSE compression_count
      /\ previous_summary' = result.previous
      /\ fell_back' = (fell_back \/ (taken /\ result.fallback))
      /\ next_id' = next_id + Len(reply)
      /\ abort_on_failure' = abort_on_failure /\ session_start' = session_start
      /\ taken => result.compressed
  BY DEF AfterCompress
<1>4. reply \in Seq(Message) /\ Len(reply) \in Nat
  BY DEF IsReply
<1> HIDE DEF result
<1>5. /\ Tail(result.messages) \in Seq(Message)
      /\ Covered(result.messages) \subseteq Covered(Tail(result.messages))
  BY <1>2, CoveredTail
<1>6. kept \in Seq(Message)
  BY <1>5 DEF TypeOK
<1>7. ~fell_back' => Covered(history) \subseteq Covered(kept)
  <2> SUFFICES ASSUME ~fell_back' PROVE Covered(history) \subseteq Covered(kept)
    OBVIOUS
  <2>1. CASE taken
    <3>1. answered
      BY <1>2, <1>3, <2>1
    <3>2. kept = Tail(result.messages)
      BY <2>1
    <3> QED BY <1>1, <1>2, <1>5, <3>1, <3>2
  <2>2. CASE ~taken
    BY <2>2
  <2> QED BY <2>1, <2>2
<1> HIDE DEF kept
<1>8. /\ kept \o reply \in Seq(Message)
      /\ Covered(kept) \cup Covered(reply) \subseteq Covered(kept \o reply)
  BY <1>4, <1>6, ConcatProperties, CoveredConcat
<1>9. Remembered'
  <2> SUFFICES ASSUME ~fell_back', NEW id \in session_start'..next_id' - 1
               PROVE  id \in Covered(history')
    BY DEF Remembered, Covered
  <2>1. /\ next_id \in Nat /\ session_start \in Nat /\ id \in Nat
        /\ session_start <= id /\ id <= next_id + Len(reply) - 1
    BY <1>3, <1>4 DEF TypeOK
  <2>2. CASE id < next_id
    <3>1. id \in session_start..next_id - 1
      BY <2>1, <2>2
    <3>2. ~fell_back
      BY <1>3
    <3>3. id \in Covered(history)
      BY <3>1, <3>2 DEF Remembered
    <3> QED BY <1>3, <1>7, <1>8, <3>3
  <2>3. CASE id >= next_id
    <3>1. id \in next_id..next_id + Len(reply) - 1
      BY <1>4, <2>1, <2>3
    <3>2. id \in Covered(reply)
      BY <3>1 DEF IsReply
    <3> QED BY <1>3, <1>8, <3>2
  <2> QED BY <2>1, <2>2, <2>3
<1>10. history' \in Seq(Message)
  BY <1>3, <1>8
<1>11. next_id' \in Nat \ {0} /\ session_start' \in Nat \ {0}
  BY <1>3, <1>4 DEF TypeOK
<1>12. compression_count' \in 0..1 /\ previous_summary' \in SUBSET Nat
  BY <1>2, <1>3 DEF TypeOK
<1>13. abort_on_failure' \in BOOLEAN /\ fell_back' \in BOOLEAN
  BY <1>2, <1>3 DEF TypeOK
<1> QED
  BY <1>9, <1>10, <1>11, <1>12, <1>13

\* A call of the provider, and the one of /compact, are steps of this kind.
LEMMA CallProviderInv ==
  ASSUME TypeOK, Remembered, NEW reply, IsReply(reply), CallProvider(reply)
  PROVE  /\ history' \in Seq(Message) /\ compression_count' \in 0..1
         /\ previous_summary' \in SUBSET Nat /\ abort_on_failure' \in BOOLEAN
         /\ next_id' \in Nat \ {0} /\ session_start' \in Nat \ {0}
         /\ fell_back' \in BOOLEAN
         /\ Remembered'
<1>1. PICK answered \in BOOLEAN :
        LET result == Compress(Messages, answered)
        IN  AfterCompress(result, /\ result.compressed
                                  /\ Len(result.messages) < Len(Messages),
                          reply)
  BY DEF CallProvider
<1> DEFINE result == Compress(Messages, answered)
           taken == result.compressed /\ Len(result.messages) < Len(Messages)
<1>2. taken \in BOOLEAN /\ (taken => result.compressed)
  OBVIOUS
<1>3. AfterCompress(result, taken, reply)
  BY <1>1
<1> HIDE DEF taken
<1> QED
  BY <1>2, <1>3, AfterCompressInv

LEMMA NoReply ==
  ASSUME next_id \in Nat
  PROVE  IsReply(<< >>)
<1>1. << >> \in Seq(Message) /\ Len(<< >>) = 0
  OBVIOUS
<1>2. next_id..next_id + 0 - 1 = {}
  OBVIOUS
<1> QED
  BY <1>1, <1>2 DEF IsReply

IInv == TypeOK /\ Remembered

LEMMA InitInv == Init => IInv
<1> SUFFICES ASSUME Init PROVE IInv
  OBVIOUS
<1>1. << >> \in Seq(Message)
  OBVIOUS
<1>2. TypeOK
  <2>1. compression_count \in 0..1 /\ previous_summary \in SUBSET Nat
        /\ next_id \in Nat \ {0} /\ session_start \in Nat \ {0}
    BY DEF Init
  <2>2. abort_on_failure \in BOOLEAN /\ running \in BOOLEAN
        /\ fell_back \in BOOLEAN /\ history = << >>
    BY DEF Init
  <2> QED BY <1>1, <2>1, <2>2 DEF TypeOK
<1>3. 1..1 - 1 = {}
  OBVIOUS
<1> QED
  BY <1>2, <1>3 DEF Init, IInv, Remembered

LEMMA UserSaysInv == IInv /\ UserSays => IInv'
<1> SUFFICES ASSUME TypeOK, Remembered, UserSays PROVE IInv'
  BY DEF IInv
<1>1. PICK long \in BOOLEAN :
        history' = Append(history, Said("user", next_id, FALSE, long))
  BY DEF UserSays
<1> DEFINE msg == Said("user", next_id, FALSE, long)
<1>2. next_id \in Nat /\ session_start \in Nat /\ history \in Seq(Message)
  BY DEF TypeOK
<1>3. msg \in Message /\ msg.covers = {next_id}
  <2>1. msg \in Message
    BY <1>2, SaidType DEF Roles
  <2> QED BY <2>1 DEF Said
<1> HIDE DEF msg
<1>4. IsReply(<<msg>>)
  BY <1>2, <1>3, OneReply
<1>5. <<msg>> \in Seq(Message) /\ Len(<<msg>>) = 1
  BY <1>3
<1>6. history' = history \o <<msg>>
  <2>1. history' = Append(history, msg)
    BY <1>1 DEF msg
  <2>2. Append(history, msg) = history \o <<msg>>
    BY <1>2, <1>3, AppendIsConcat
  <2> QED BY <2>1, <2>2
<1>7. history' \in Seq(Message)
  BY <1>2, <1>5, <1>6, ConcatProperties
<1>8. Covered(history) \cup Covered(<<msg>>) \subseteq Covered(history')
  BY <1>2, <1>5, <1>6, CoveredConcat
<1>9. /\ next_id' = next_id + 1 /\ session_start' = session_start
      /\ fell_back' = fell_back
  BY DEF UserSays
<1>10. TypeOK'
  <2>1. next_id' \in Nat \ {0} /\ session_start' \in Nat \ {0}
    BY <1>9 DEF TypeOK
  <2>2. compression_count' \in 0..1 /\ previous_summary' \in SUBSET Nat
    BY DEF TypeOK, UserSays
  <2>3. abort_on_failure' \in BOOLEAN /\ running' \in BOOLEAN
        /\ fell_back' \in BOOLEAN
    BY DEF TypeOK, UserSays
  <2> QED BY <1>7, <2>1, <2>2, <2>3 DEF TypeOK
<1>11. Remembered'
  <2> SUFFICES ASSUME ~fell_back', NEW id \in session_start'..next_id' - 1
               PROVE  id \in Covered(history')
    BY DEF Remembered, Covered
  <2>1. id \in session_start..next_id - 1 \/ id \in next_id..next_id + 1 - 1
    BY <1>2, <1>9
  <2>2. CASE id \in session_start..next_id - 1
    BY <1>8, <1>9, <2>2 DEF Remembered
  <2>3. CASE id \in next_id..next_id + 1 - 1
    BY <1>4, <1>5, <1>8, <2>3 DEF IsReply
  <2> QED BY <2>1, <2>2, <2>3
<1> QED
  BY <1>10, <1>11 DEF IInv

LEMMA AnswerInv == IInv /\ Answer => IInv'
<1> SUFFICES ASSUME TypeOK, Remembered, Answer PROVE IInv'
  BY DEF IInv
<1>1. PICK long \in BOOLEAN, fails \in BOOLEAN :
        CallProvider(IF fails THEN << >>
                     ELSE <<Said("assistant", next_id, FALSE, long)>>)
  BY DEF Answer
<1> DEFINE msg == Said("assistant", next_id, FALSE, long)
           reply == IF fails THEN << >> ELSE <<msg>>
<1>2. next_id \in Nat
  BY DEF TypeOK
<1>3. msg \in Message /\ msg.covers = {next_id}
  <2>1. msg \in Message
    BY <1>2, SaidType DEF Roles
  <2> QED BY <2>1 DEF Said
<1>4. CallProvider(reply)
  BY <1>1
<1> HIDE DEF msg
<1>5. IsReply(reply)
  <2>1. CASE fails
    BY <1>2, <2>1, NoReply
  <2>2. CASE ~fails
    BY <1>2, <1>3, <2>2, OneReply
  <2> QED BY <2>1, <2>2
<1> HIDE DEF reply
<1>6. /\ history' \in Seq(Message) /\ compression_count' \in 0..1
      /\ previous_summary' \in SUBSET Nat /\ abort_on_failure' \in BOOLEAN
      /\ next_id' \in Nat \ {0} /\ session_start' \in Nat \ {0}
      /\ fell_back' \in BOOLEAN
      /\ Remembered'
  BY <1>4, <1>5, CallProviderInv
<1>7. running' \in BOOLEAN
  BY DEF Answer
<1> QED
  BY <1>6, <1>7 DEF IInv, TypeOK

LEMMA ToolTurnInv == IInv /\ ToolTurn => IInv'
<1> SUFFICES ASSUME TypeOK, Remembered, ToolTurn PROVE IInv'
  BY DEF IInv
<1>1. PICK long \in BOOLEAN,
           results \in UNION {[1..n -> BOOLEAN] : n \in 1..MaxResults} :
        CallProvider(<<Said("assistant", next_id, TRUE, long)>>
                       \o [k \in 1..Len(results) |->
                             Said("tool", next_id + k, FALSE, results[k])])
  BY DEF ToolTurn
<1>2. PICK n \in 1..MaxResults : results \in [1..n -> BOOLEAN]
  OBVIOUS
<1>3. n \in Nat /\ Len(results) = n /\ next_id \in Nat
  BY <1>2 DEF TypeOK
<1> DEFINE reply == <<Said("assistant", next_id, TRUE, long)>>
                      \o [k \in 1..n |->
                            Said("tool", next_id + k, FALSE, results[k])]
<1>4. CallProvider(reply)
  BY <1>1, <1>3
<1>5. IsReply(reply)
  BY <1>2, <1>3, ToolReply
<1> HIDE DEF reply
<1>6. /\ history' \in Seq(Message) /\ compression_count' \in 0..1
      /\ previous_summary' \in SUBSET Nat /\ abort_on_failure' \in BOOLEAN
      /\ next_id' \in Nat \ {0} /\ session_start' \in Nat \ {0}
      /\ fell_back' \in BOOLEAN
      /\ Remembered'
  BY <1>4, <1>5, CallProviderInv
<1>7. running' \in BOOLEAN
  BY DEF ToolTurn
<1> QED
  BY <1>6, <1>7 DEF IInv, TypeOK

LEMMA CompressContextInv == IInv /\ CompressContext => IInv'
<1> SUFFICES ASSUME TypeOK, Remembered, CompressContext PROVE IInv'
  BY DEF IInv
<1>1. PICK answered \in BOOLEAN :
        AfterCompress(Compress(Messages, answered),
                      Compress(Messages, answered).compressed, << >>)
  BY DEF CompressContext
<1>2. IsReply(<< >>)
  BY NoReply DEF TypeOK
<1>3. Compress(Messages, answered).compressed \in BOOLEAN
  BY MessagesShape, CompressShape DEF TypeOK, SystemPrompt
<1>4. /\ history' \in Seq(Message) /\ compression_count' \in 0..1
      /\ previous_summary' \in SUBSET Nat /\ abort_on_failure' \in BOOLEAN
      /\ next_id' \in Nat \ {0} /\ session_start' \in Nat \ {0}
      /\ fell_back' \in BOOLEAN
      /\ Remembered'
  BY <1>1, <1>2, <1>3, AfterCompressInv
<1>5. running' \in BOOLEAN
  BY DEF CompressContext, TypeOK
<1> QED
  BY <1>4, <1>5 DEF IInv, TypeOK

LEMMA NextInv == IInv /\ [Next]_vars => IInv'
<1> SUFFICES ASSUME IInv, [Next]_vars PROVE IInv'
  OBVIOUS
<1>1. CASE UserSays
  BY <1>1, UserSaysInv
<1>2. CASE Answer
  BY <1>2, AnswerInv
<1>3. CASE ToolTurn
  BY <1>3, ToolTurnInv
<1>4. CASE EndRun
  BY <1>4 DEF EndRun, IInv, TypeOK, Remembered, Covered
<1>5. CASE CompressContext
  BY <1>5, CompressContextInv
<1>6. CASE NewSession
  <2>1. << >> \in Seq(Message)
    OBVIOUS
  <2>2. TypeOK'
    BY <1>6, <2>1 DEF NewSession, IInv, TypeOK
  <2>3. session_start'..next_id' - 1 = {}
    BY <1>6 DEF NewSession, IInv, TypeOK
  <2> QED BY <2>2, <2>3 DEF IInv, Remembered
<1>7. CASE UNCHANGED vars
  BY <1>7 DEF vars, IInv, TypeOK, Remembered, Covered
<1> QED
  BY <1>1, <1>2, <1>3, <1>4, <1>5, <1>6, <1>7 DEF Next

THEOREM SpecInv == Spec => []IInv
<1> QED
  BY InitInv, NextInv, PTL DEF Spec

\* The history and the state of the compressor keep their types, for every
\* size of the context and every number of messages.
THEOREM TypeCorrect == Spec => []TypeOK
<1>1. IInv => TypeOK
  BY DEF IInv
<1> QED
  BY <1>1, SpecInv, PTL

\* Until a fallback summary is made, each message of the session is in the
\* history or in a summary, before and after a further compress().
THEOREM NothingIsForgotten == Spec => []NothingForgotten
<1>1. IInv => NothingForgotten
  <2> SUFFICES ASSUME TypeOK, Remembered, ~fell_back
               PROVE  /\ session_start..next_id - 1 \subseteq Covered(history)
                      /\ session_start..next_id - 1
                           \subseteq Covered(Compress(Messages, TRUE).messages)
    BY DEF IInv, NothingForgotten
  <2>1. session_start..next_id - 1 \subseteq Covered(history)
    BY DEF Remembered
  <2>2. /\ Messages \in Seq(Message) /\ Messages # << >>
        /\ Messages[1].role = "system"
        /\ Covered(history) \subseteq Covered(Messages)
    BY MessagesShape DEF TypeOK, SystemPrompt
  <2>3. TRUE \in BOOLEAN /\ previous_summary \in SUBSET Nat
    BY DEF TypeOK
  <2>4. Covered(Messages) \subseteq Covered(Compress(Messages, TRUE).messages)
    BY <2>2, <2>3, CompressShape
  <2> QED BY <2>1, <2>2, <2>4
<1> QED
  BY <1>1, SpecInv, PTL

\* What compress() replaces is a stretch AgentLoop allows for.
THEOREM CutsAreAllowed == Spec => []CutIsAllowed
<1>1. IInv => CutIsAllowed
  <2> DEFINE pruned == PruneOldToolResults(Messages)
             head == ProtectHeadSize(pruned)
             cut == FindTailCut(pruned, head)
             n == Len(history)
  <2> SUFFICES ASSUME TypeOK, head < cut
               PROVE  <<head - 1, cut - 1>> \in Cuts(history)
    BY DEF IInv, CutIsAllowed
  <2>1. /\ Messages \in Seq(Message) /\ Len(Messages) = n + 1
        /\ Messages[1].role = "system"
        /\ \A i \in 1..n : Messages[i + 1] = history[i]
        /\ n \in Nat
    BY MessagesShape DEF TypeOK, SystemPrompt
  <2>2. /\ pruned \in Seq(Message) /\ Len(pruned) = n + 1
        /\ \A i \in 1..n + 1 : pruned[i].role = Messages[i].role
    BY <2>1, PruneShape
  <2> HIDE DEF pruned
  <2>3. pruned # << >> /\ pruned[1].role = "system"
    <3>1. 1 \in 1..n + 1
      BY <2>1
    <3> QED BY <2>1, <2>2, <3>1
  <2>4. /\ head \in 1..n + 1
        /\ head = n + 1 \/ pruned[head + 1].role # "tool"
    BY <2>1, <2>2, <2>3, HeadRange
  <2> HIDE DEF head
  <2>5. /\ cut \in 0..n + 1
        /\ \/ cut <= head + 1
           \/ \E i \in cut + 1..n + 1 : IsDialogue(pruned[i])
           \/ \A i \in head + 1..n + 1 : ~IsDialogue(pruned[i])
    <3>1. head \in 0..Len(pruned)
      BY <2>2, <2>4
    <3> HIDE DEF cut
    <3> QED BY <2>2, <3>1, CutRange DEF cut
  <2> HIDE DEF cut, n
  <2>6. ASSUME NEW i \in 1..n PROVE pruned[i + 1].role = history[i].role
    <3>1. i + 1 \in 1..n + 1
      BY <2>1
    <3> QED BY <2>1, <2>2, <3>1
  <2>7. /\ head - 1 \in 0..n /\ cut - 1 \in 1..n /\ head - 1 < cut - 1
        /\ head \in 1..n
    BY <2>1, <2>4, <2>5
  <2>8. history[(head - 1) + 1].role # "tool"
    <3>1. head # n + 1 /\ (head - 1) + 1 = head
      BY <2>1, <2>7
    <3> QED BY <2>4, <2>6, <2>7, <3>1
  <2>9. \/ cut - 1 = (head - 1) + 1
        \/ \E i \in (cut - 1) + 1..n : IsDialogue(history[i])
        \/ \A i \in (head - 1) + 1..n : ~IsDialogue(history[i])
    <3>1. CASE cut <= head + 1
      <4>1. cut - 1 = (head - 1) + 1
        BY <2>1, <2>4, <2>5, <3>1
      <4> QED BY <4>1
    <3>2. ASSUME NEW i \in cut + 1..n + 1, IsDialogue(pruned[i])
          PROVE  \E j \in (cut - 1) + 1..n : IsDialogue(history[j])
      <4>1. i - 1 \in (cut - 1) + 1..n /\ i - 1 \in 1..n /\ (i - 1) + 1 = i
        BY <2>1, <2>5, <2>7
      <4>2. IsDialogue(history[i - 1])
        BY <2>6, <3>2, <4>1 DEF IsDialogue
      <4> QED BY <4>1, <4>2
    <3>3. CASE \A i \in head + 1..n + 1 : ~IsDialogue(pruned[i])
      <4>1. ASSUME NEW j \in (head - 1) + 1..n
            PROVE  ~IsDialogue(history[j])
        <5>1. j \in 1..n /\ j + 1 \in head + 1..n + 1
          BY <2>1, <2>4
        <5> QED BY <2>6, <3>3, <5>1 DEF IsDialogue
      <4> QED BY <4>1
    <3> QED BY <2>5, <3>1, <3>2, <3>3
  <2> DEFINE pair == <<head - 1, cut - 1>>
  <2>10. pair \in (0..n) \X (1..n) /\ pair[1] = head - 1 /\ pair[2] = cut - 1
    BY <2>7
  <2> HIDE DEF pair
  <2>11. pair \in Cuts(history)
    BY <2>7, <2>8, <2>9, <2>10 DEF Cuts, n
  <2> QED BY <2>11 DEF pair
<1> QED
  BY <1>1, SpecInv, PTL

------------------------------------------------------------------------------
(* The most recent messages *)

\* Pruning does not move the end of the head, which depends on roles alone.
LEMMA HeadOfPruned ==
  ASSUME NEW msgs \in Seq(Message), msgs # << >>
  PROVE  ProtectHeadSize(PruneOldToolResults(msgs)) = ProtectHeadSize(msgs)
<1> DEFINE pruned == PruneOldToolResults(msgs)
           n == Len(msgs)
           system(m) == IF m[1].role = "system" THEN 1 ELSE 0
           kept(m) == IF compression_count = 0 /\ previous_summary = {}
                      THEN Least(system(m) + ProtectFirstN, Len(m))
                      ELSE system(m)
           heads(m) == {head \in kept(m)..Len(m) :
                          head = Len(m) \/ m[head + 1].role # "tool"}
<1>1. /\ n \in Nat \ {0} /\ Len(pruned) = n
      /\ \A i \in 1..n : pruned[i].role = msgs[i].role
  BY EmptySeq, PruneShape
<1>2. /\ ProtectHeadSize(pruned) = Min(heads(pruned))
      /\ ProtectHeadSize(msgs) = Min(heads(msgs))
  BY DEF ProtectHeadSize
<1> HIDE DEF pruned, n
<1>3. system(pruned) = system(msgs) /\ system(msgs) \in 0..1
  <2>1. pruned[1].role = msgs[1].role
    BY <1>1
  <2> QED
    BY <2>1
<1>4. kept(pruned) = kept(msgs)
  BY <1>1, <1>3 DEF n
<1>5. kept(msgs) \in Nat
  BY <1>1, <1>3, SizesAreNaturals DEF Least, n
<1>6. ASSUME NEW head \in kept(msgs)..n
      PROVE  head # n => pruned[head + 1].role = msgs[head + 1].role
  <2> HIDE DEF kept, system
  <2>1. head # n => head + 1 \in 1..n
    BY <1>1, <1>5
  <2> QED
    BY <1>1, <2>1
<1>7. heads(pruned) = heads(msgs)
  <2> HIDE DEF kept, system
  <2> QED
    BY <1>1, <1>4, <1>6 DEF n
<1> HIDE DEF heads
<1>8. ProtectHeadSize(pruned) = ProtectHeadSize(msgs)
  BY <1>2, <1>7
<1> QED
  BY <1>8 DEF pruned

\* Pruning stops where the tail begins.
LEMMA PruneSparesTail ==
  ASSUME NEW msgs \in Seq(Message), msgs # << >>,
         NEW i \in 1..Len(msgs),
         i > FindTailCut(msgs, ProtectHeadSize(msgs))
  PROVE  PruneOldToolResults(msgs)[i] = msgs[i]
<1> DEFINE cut == FindTailCut(msgs, ProtectHeadSize(msgs))
<1>1. cut \in 0..Len(msgs)
  BY HeadRange, CutRange
<1>2. PruneOldToolResults(msgs)[i] =
        IF i <= cut /\ Prunable(msgs[i])
        THEN [msgs[i] EXCEPT !.pruned = TRUE] ELSE msgs[i]
  BY DEF PruneOldToolResults
<1>3. ~(i <= cut)
  BY <1>1
<1> HIDE DEF cut
<1> QED
  BY <1>2, <1>3

\* What is rebuilt ends as it did.
LEMMA RebuiltTail ==
  ASSUME NEW pruned \in Seq(Message), NEW given \in SUBSET Nat,
         NEW head \in Nat \ {0}, NEW cut \in Nat, head < cut,
         cut <= Len(pruned), NEW i \in 0..Len(pruned) - cut - 1
  PROVE  LET rebuilt == Rebuilt(pruned, head, cut, given)
         IN  rebuilt[Len(rebuilt) - i] = pruned[Len(pruned) - i]
<1> DEFINE rebuilt == Rebuilt(pruned, head, cut, given)
           k == head + 1 + Len(pruned) - cut - i
<1>1. /\ Len(rebuilt) = head + 1 + Len(pruned) - cut
      /\ \A j \in 1..head + 1 + Len(pruned) - cut :
           rebuilt[j] = IF j <= head THEN pruned[j]
             ELSE IF j = head + 1
             THEN SummaryMessage(SummaryRole(RoleAt(pruned, head),
                                             RoleAt(pruned, cut + 1)), given)
             ELSE pruned[cut + (j - (head + 1))]
  BY RebuiltShape
<1>2. Len(pruned) \in Nat
  OBVIOUS
<1>3. /\ k \in 1..head + 1 + Len(pruned) - cut /\ ~(k <= head)
      /\ k # head + 1 /\ cut + (k - (head + 1)) = Len(pruned) - i
  BY <1>2
<1> HIDE DEF rebuilt
<1>4. Len(rebuilt) - i = k
  BY <1>1, <1>2
<1> HIDE DEF k
<1>5. rebuilt[k] = pruned[Len(pruned) - i]
  BY <1>1, <1>3
<1> QED
  BY <1>4, <1>5 DEF rebuilt

\* Whoever prunes or replaces what, a compress() leaves the last messages.
THEOREM RecentKept == Spec => []RecentMessagesVerbatim
<1>1. TypeOK => RecentMessagesVerbatim
  <2> DEFINE n == Len(Messages)
             first == ProtectHeadSize(Messages)
             recent == Least(ProtectLastN, n - first - 1)
             pruned == PruneOldToolResults(Messages)
             head == ProtectHeadSize(pruned)
             cut == FindTailCut(pruned, head)
  <2> SUFFICES ASSUME TypeOK, NEW answered \in BOOLEAN,
                      NEW i \in 0..recent - 1
               PROVE  LET kept == Compress(Messages, answered).messages
                      IN  kept[Len(kept) - i] = Messages[n - i]
    BY DEF RecentMessagesVerbatim
  <2> DEFINE kept == Compress(Messages, answered).messages
  <2>1. /\ Messages \in Seq(Message) /\ Messages # << >> /\ n \in Nat \ {0}
        /\ Messages[1].role = "system"
    BY MessagesShape, EmptySeq DEF TypeOK, SystemPrompt
  <2>2. /\ pruned \in Seq(Message) /\ Len(pruned) = n /\ head = first
        /\ \A k \in 1..n : pruned[k].role = Messages[k].role
    BY <2>1, PruneShape, HeadOfPruned
  <2>3. first \in 1..n
    BY <2>1, HeadRange
  <2>4. /\ recent \in Nat /\ n > first + 1 /\ recent <= n - first - 1
        /\ i < recent /\ i \in Nat
    <3> HIDE DEF n, first
    <3> QED
      BY <2>1, <2>3, SizesAreNaturals DEF Least
  <2>5. FindTailCut(Messages, first) \in 0..n - recent
    BY <2>1, <2>3, <2>4, CutRange
  <2>6. n - i \in 1..n /\ n - i > FindTailCut(Messages, first)
    <3> HIDE DEF n, first, recent
    <3> QED
      BY <2>1, <2>3, <2>4, <2>5
  <2>7. pruned[n - i] = Messages[n - i]
    BY <2>1, <2>6, PruneSparesTail
  <2>8. cut \in 0..n - recent
    <3> HIDE DEF pruned
    <3>1. pruned \in Seq(Message) /\ head \in 0..Len(pruned)
      BY <2>2, <2>3
    <3> HIDE DEF head
    <3>2. cut \in 0..Len(pruned)
          /\ (Len(pruned) > head + 1 =>
                cut <= Len(pruned) - Least(ProtectLastN, Len(pruned) - head - 1))
      BY <3>1, CutRange
    <3> HIDE DEF cut, n, first
    <3> QED
      BY <2>1, <2>2, <2>4, <3>2
  <2> HIDE DEF pruned, head, cut
  <2> DEFINE covers == SummaryCovers(SubSeq(pruned, head + 1, cut), answered)
             rebuilt == Rebuilt(pruned, head, cut, covers)
  <2>9. head < cut =>
          rebuilt[Len(rebuilt) - i] = pruned[n - i]
    <3> SUFFICES ASSUME head < cut
                 PROVE  rebuilt[Len(rebuilt) - i] = pruned[n - i]
      OBVIOUS
    <3>1. /\ head \in Nat \ {0} /\ cut \in Nat /\ cut <= Len(pruned)
          /\ head + 1 \in Nat \ {0} /\ cut \in 0..Len(pruned)
      <4> HIDE DEF n, first, recent
      <4> QED
        BY <2>1, <2>2, <2>3, <2>4, <2>8
    <3>2. SubSeq(pruned, head + 1, cut) \in Seq(Message)
      BY <2>2, <3>1, SliceType
    <3>3. covers \in SUBSET Nat
      BY <3>2, SummaryCoversType DEF TypeOK
    <3> HIDE DEF covers, n, first, recent
    <3>4. pruned \in Seq(Message) /\ i \in 0..Len(pruned) - cut - 1
          /\ Len(pruned) = n
      BY <2>1, <2>2, <2>4, <2>8, <3>1
    <3>5. rebuilt[Len(rebuilt) - i] = pruned[Len(pruned) - i]
      BY <3>1, <3>3, <3>4, RebuiltTail
    <3> HIDE DEF rebuilt
    <3> QED
      BY <3>4, <3>5
  <2>10. kept \in {Messages, pruned} \/ (head < cut /\ kept = rebuilt)
    <3>1. head >= cut \/ head < cut
      <4> HIDE DEF n, first, recent
      <4> QED
        BY <2>1, <2>2, <2>3, <2>4, <2>8
    <3> QED
      BY <3>1 DEF Compress, CompressPruned, CompressAt, NotCompressed,
                  pruned, head, cut
  <2> HIDE DEF kept, rebuilt
  <2> QED
    BY <2>2, <2>7, <2>9, <2>10 DEF kept
<1> QED
  BY <1>1, TypeCorrect, PTL

------------------------------------------------------------------------------
(* The order of the messages *)

InOrder(msgs) ==
  \A i, j \in 1..Len(msgs) :
    i < j /\ msgs[i].id # 0 /\ msgs[j].id # 0 => msgs[i].id < msgs[j].id

\* Identities given before a new one; a summary and the prompt have none.
Earlier(msgs, next) == \A i \in 1..Len(msgs) : msgs[i].id < next

OrderInv == InOrder(history) /\ Earlier(history, next_id)

\* New messages have the identities from the next one on.
IsNew(reply) == \A k \in 1..Len(reply) : reply[k].id = next_id + k - 1

\* A summary in the place of a stretch of messages has them in order.
LEMMA RebuiltOrder ==
  ASSUME NEW pruned \in Seq(Message), NEW given \in SUBSET Nat,
         NEW head \in Nat \ {0}, NEW cut \in Nat, head < cut,
         cut <= Len(pruned), NEW next \in Nat \ {0},
         InOrder(pruned), Earlier(pruned, next)
  PROVE  /\ InOrder(Rebuilt(pruned, head, cut, given))
         /\ Earlier(Rebuilt(pruned, head, cut, given), next)
<1> DEFINE rebuilt == Rebuilt(pruned, head, cut, given)
           n == head + 1 + Len(pruned) - cut
           From(i) == IF i <= head THEN i ELSE cut + (i - (head + 1))
<1>1. /\ Len(rebuilt) = n /\ Len(pruned) \in Nat
      /\ \A i \in 1..n : i # head + 1 => rebuilt[i] = pruned[From(i)]
      /\ rebuilt[head + 1].id = 0
  <2>1. /\ Len(rebuilt) = n /\ Len(pruned) \in Nat
        /\ \A i \in 1..n :
             rebuilt[i] = IF i <= head THEN pruned[i]
               ELSE IF i = head + 1
               THEN SummaryMessage(SummaryRole(RoleAt(pruned, head),
                                               RoleAt(pruned, cut + 1)), given)
               ELSE pruned[cut + (i - (head + 1))]
    BY RebuiltShape, LenProperties
  <2>2. head + 1 \in 1..n /\ ~(head + 1 <= head)
    BY <2>1
  <2> HIDE DEF rebuilt
  <2>3. rebuilt[head + 1].id = 0
    BY <2>1, <2>2 DEF SummaryMessage
  <2> QED
    BY <2>1, <2>3
<1>2. ASSUME NEW i \in 1..n, i # head + 1
      PROVE  From(i) \in 1..Len(pruned)
  BY <1>1, <1>2
<1>3. ASSUME NEW i \in 1..n, NEW j \in 1..n, i < j, i # head + 1, j # head + 1
      PROVE  From(i) < From(j)
  BY <1>1, <1>3
<1> HIDE DEF rebuilt, n, From
<1>4. InOrder(rebuilt)
  BY <1>1, <1>2, <1>3 DEF InOrder
<1>5. Earlier(rebuilt, next)
  <2>1. rebuilt[head + 1].id < next
    BY <1>1
  <2>2. \A i \in 1..n : i # head + 1 => rebuilt[i].id < next
    BY <1>1, <1>2 DEF Earlier
  <2> QED
    BY <1>1, <2>1, <2>2 DEF Earlier
<1> QED
  BY <1>4, <1>5 DEF rebuilt

\* compress() keeps its messages in order.
LEMMA CompressOrder ==
  ASSUME NEW msgs \in Seq(Message), msgs # << >>, msgs[1].role = "system",
         NEW answered \in BOOLEAN, previous_summary \in SUBSET Nat,
         NEW next \in Nat \ {0}, InOrder(msgs), Earlier(msgs, next)
  PROVE  /\ InOrder(Compress(msgs, answered).messages)
         /\ Earlier(Compress(msgs, answered).messages, next)
<1> DEFINE pruned == PruneOldToolResults(msgs)
           head == ProtectHeadSize(pruned)
           cut == FindTailCut(pruned, head)
           covers == SummaryCovers(SubSeq(pruned, head + 1, cut), answered)
           rebuilt == Rebuilt(pruned, head, cut, covers)
           kept == Compress(msgs, answered).messages
<1>1. /\ pruned \in Seq(Message) /\ Len(pruned) = Len(msgs)
      /\ Len(msgs) \in Nat \ {0}
      /\ \A i \in 1..Len(msgs) : /\ pruned[i].role = msgs[i].role
                                 /\ pruned[i].id = msgs[i].id
  BY PruneShape, EmptySeq
<1> HIDE DEF pruned
<1>2. pruned # << >> /\ pruned[1].role = "system"
  <2>1. 1 \in 1..Len(msgs)
    BY <1>1
  <2> QED
    BY <1>1, <2>1
<1>3. InOrder(pruned) /\ Earlier(pruned, next)
  BY <1>1 DEF InOrder, Earlier
<1>4. head \in 1..Len(pruned)
  BY <1>1, <1>2, HeadRange
<1> HIDE DEF head
<1>5. cut \in 0..Len(pruned)
  BY <1>1, <1>4, CutRange
<1> HIDE DEF cut
<1>6. covers \in SUBSET Nat
  <2>1. SubSeq(pruned, head + 1, cut) \in Seq(Message)
    <3>1. head + 1 \in Nat \ {0}
      BY <1>1, <1>4
    <3> QED
      BY <1>1, <1>5, <3>1, SliceType
  <2> QED
    BY <2>1, SummaryCoversType
<1> HIDE DEF covers
<1>7. head < cut => InOrder(rebuilt) /\ Earlier(rebuilt, next)
  <2>1. head \in Nat \ {0} /\ cut \in Nat /\ cut <= Len(pruned)
    BY <1>1, <1>4, <1>5
  <2> QED
    BY <1>1, <1>3, <1>6, <2>1, RebuiltOrder
<1>8. kept \in {msgs, pruned} \/ (head < cut /\ kept = rebuilt)
  <2>1. head >= cut \/ head < cut
    BY <1>1, <1>4, <1>5
  <2> QED
    BY <2>1 DEF Compress, CompressPruned, CompressAt, NotCompressed,
                pruned, head, cut, covers
<1> HIDE DEF kept, rebuilt
<1> QED
  BY <1>3, <1>7, <1>8 DEF kept

LEMMA TailOrder ==
  ASSUME NEW msgs \in Seq(Message), msgs # << >>, NEW next,
         InOrder(msgs), Earlier(msgs, next)
  PROVE  InOrder(Tail(msgs)) /\ Earlier(Tail(msgs), next)
<1> DEFINE rest == Tail(msgs)
<1>1. /\ Len(rest) = Len(msgs) - 1 /\ Len(msgs) \in Nat
      /\ \A i \in 1..Len(rest) : rest[i] = msgs[i + 1]
  BY HeadTailProperties, LenProperties
<1> HIDE DEF rest
<1>2. \A i \in 1..Len(rest) : i + 1 \in 1..Len(msgs)
  BY <1>1
<1>3. \A i, j \in 1..Len(rest) : i < j => i + 1 < j + 1
  BY <1>1
<1> QED
  BY <1>1, <1>2, <1>3 DEF InOrder, Earlier, rest

\* New messages are put behind older ones.
LEMMA ReplyOrder ==
  ASSUME NEW msgs \in Seq(Message), NEW reply \in Seq(Message),
         next_id \in Nat \ {0}, InOrder(msgs), Earlier(msgs, next_id),
         IsNew(reply)
  PROVE  /\ InOrder(msgs \o reply)
         /\ Earlier(msgs \o reply, next_id + Len(reply))
<1> DEFINE all == msgs \o reply
           m == Len(msgs)
           r == Len(reply)
<1>1. /\ m \in Nat /\ r \in Nat /\ Len(all) = m + r
      /\ \A i \in 1..m + r : all[i] = IF i <= m THEN msgs[i] ELSE reply[i - m]
  BY ConcatProperties, LenProperties
<1>2. \A i \in 1..m : msgs[i].id \in Nat /\ msgs[i].id < next_id
  <2>1. \A i \in 1..m : msgs[i] \in Message
    BY ElementOfSeq
  <2> QED
    BY <2>1 DEF Message, Earlier
<1>3. \A k \in 1..r : reply[k].id = next_id + k - 1
  BY DEF IsNew
<1> HIDE DEF all, m, r
<1>4. ASSUME NEW i \in 1..m + r, i > m
      PROVE  all[i].id = next_id + (i - m) - 1
  <2>1. ~(i <= m) /\ i - m \in 1..r
    BY <1>1, <1>4
  <2> QED
    BY <1>1, <1>3, <2>1
<1>5. ASSUME NEW i \in 1..m + r, i <= m
      PROVE  i \in 1..m /\ all[i] = msgs[i]
  BY <1>1, <1>5
<1>6. Earlier(all, next_id + r)
  <2> SUFFICES ASSUME NEW i \in 1..m + r PROVE all[i].id < next_id + r
    BY <1>1 DEF Earlier
  <2>1. CASE i <= m
    BY <1>1, <1>2, <1>5, <2>1
  <2>2. CASE i > m
    <3>1. all[i].id = next_id + (i - m) - 1
      BY <1>4, <2>2
    <3> QED
      BY <1>1, <2>2, <3>1
  <2> QED
    BY <1>1, <2>1, <2>2
<1>7. InOrder(all)
  <2> SUFFICES ASSUME NEW i \in 1..m + r, NEW j \in 1..m + r, i < j,
                      all[i].id # 0, all[j].id # 0
               PROVE  all[i].id < all[j].id
    BY <1>1 DEF InOrder
  <2>1. CASE j <= m
    <3>1. i <= m
      BY <1>1, <2>1
    <3> QED
      BY <1>5, <2>1, <3>1 DEF InOrder, m
  <2>2. CASE i <= m /\ j > m
    <3>1. all[j].id = next_id + (j - m) - 1 /\ all[i].id \in Nat
          /\ all[i].id < next_id
      BY <1>2, <1>4, <1>5, <2>2
    <3> QED
      BY <1>1, <2>2, <3>1
  <2>3. CASE i > m
    <3>1. j > m
      BY <1>1, <2>3
    <3>2. /\ all[i].id = next_id + (i - m) - 1
          /\ all[j].id = next_id + (j - m) - 1
      BY <1>4, <2>3, <3>1
    <3> QED
      BY <1>1, <2>3, <3>2
  <2> QED
    BY <1>1, <2>1, <2>2, <2>3
<1> QED
  BY <1>6, <1>7 DEF all, r

LEMMA MessagesOrder ==
  ASSUME TypeOK, OrderInv
  PROVE  InOrder(Messages) /\ Earlier(Messages, next_id)
<1>1. /\ Len(Messages) = Len(history) + 1 /\ Len(history) \in Nat
      /\ Messages[1].id = 0 /\ next_id \in Nat \ {0}
      /\ \A i \in 1..Len(history) : Messages[i + 1] = history[i]
  BY MessagesShape, LenProperties DEF TypeOK, SystemPrompt
<1>2. \A i \in 1..Len(Messages) : i = 1 \/ i - 1 \in 1..Len(history)
  BY <1>1
<1>3. \A i \in 1..Len(Messages) :
        i # 1 => i - 1 \in 1..Len(history) /\ Messages[i] = history[i - 1]
  <2> SUFFICES ASSUME NEW i \in 1..Len(Messages), i # 1
               PROVE  i - 1 \in 1..Len(history) /\ Messages[i] = history[i - 1]
    OBVIOUS
  <2>1. i - 1 \in 1..Len(history) /\ (i - 1) + 1 = i
    BY <1>1
  <2> QED
    BY <1>1, <2>1
<1>4. Earlier(Messages, next_id)
  BY <1>1, <1>3 DEF Earlier, OrderInv
<1>5. InOrder(Messages)
  <2> SUFFICES ASSUME NEW i \in 1..Len(Messages), NEW j \in 1..Len(Messages),
                      i < j, Messages[i].id # 0, Messages[j].id # 0
               PROVE  Messages[i].id < Messages[j].id
    BY DEF InOrder
  <2>1. i # 1 /\ j # 1 /\ i - 1 < j - 1
    BY <1>1
  <2> QED
    BY <1>3, <2>1 DEF InOrder, OrderInv
<1> QED
  BY <1>4, <1>5

\* Both callers of compress() keep the history in order.
LEMMA AfterCompressOrder ==
  ASSUME TypeOK, OrderInv, NEW reply \in Seq(Message), IsNew(reply),
         NEW answered \in BOOLEAN, NEW taken \in BOOLEAN,
         AfterCompress(Compress(Messages, answered), taken, reply)
  PROVE  OrderInv'
<1> DEFINE result == Compress(Messages, answered)
           kept == IF taken THEN Tail(result.messages) ELSE history
<1>1. /\ Messages \in Seq(Message) /\ Messages # << >>
      /\ Messages[1].role = "system"
      /\ previous_summary \in SUBSET Nat /\ next_id \in Nat \ {0}
      /\ history \in Seq(Message)
  BY MessagesShape DEF TypeOK, SystemPrompt
<1>2. result.messages \in Seq(Message) /\ result.messages # << >>
  BY <1>1, CompressShape
<1>3. InOrder(result.messages) /\ Earlier(result.messages, next_id)
  BY <1>1, MessagesOrder, CompressOrder
<1>4. history' = kept \o reply /\ next_id' = next_id + Len(reply)
  BY DEF AfterCompress
<1> HIDE DEF result
<1>5. /\ kept \in Seq(Message)
      /\ InOrder(kept) /\ Earlier(kept, next_id)
  BY <1>1, <1>2, <1>3, TailOrder, HeadTailProperties DEF OrderInv
<1> HIDE DEF kept
<1>6. InOrder(kept \o reply) /\ Earlier(kept \o reply, next_id + Len(reply))
  BY <1>1, <1>5, ReplyOrder
<1> QED
  BY <1>4, <1>6 DEF OrderInv, InOrder, Earlier

LEMMA CallProviderOrder ==
  ASSUME TypeOK, OrderInv, NEW reply \in Seq(Message), IsNew(reply),
         CallProvider(reply)
  PROVE  OrderInv'
<1>1. PICK answered \in BOOLEAN :
        LET result == Compress(Messages, answered)
        IN  AfterCompress(result, /\ result.compressed
                                  /\ Len(result.messages) < Len(Messages),
                          reply)
  BY DEF CallProvider
<1> DEFINE result == Compress(Messages, answered)
           taken == result.compressed /\ Len(result.messages) < Len(Messages)
<1>2. taken \in BOOLEAN /\ AfterCompress(result, taken, reply)
  BY <1>1
<1> HIDE DEF taken
<1> QED
  BY <1>2, AfterCompressOrder

\* The replies of the actions are messages with new identities.
LEMMA RepliesAreNew ==
  ASSUME next_id \in Nat
  PROVE  /\ << >> \in Seq(Message) /\ IsNew(<< >>)
         /\ \A role \in Roles, calls, long \in BOOLEAN :
              LET reply == <<Said(role, next_id, calls, long)>>
              IN  reply \in Seq(Message) /\ IsNew(reply)
<1>1. << >> \in Seq(Message) /\ IsNew(<< >>)
  BY DEF IsNew
<1>2. ASSUME NEW role \in Roles, NEW calls \in BOOLEAN, NEW long \in BOOLEAN
      PROVE  LET reply == <<Said(role, next_id, calls, long)>>
             IN  reply \in Seq(Message) /\ IsNew(reply)
  <2> DEFINE msg == Said(role, next_id, calls, long)
  <2>1. msg \in Message /\ msg.id = next_id
    <3>1. msg \in Message
      BY SaidType
    <3> QED
      BY <3>1 DEF Said
  <2> HIDE DEF msg
  <2>2. /\ <<msg>> \in Seq(Message) /\ Len(<<msg>>) = 1 /\ <<msg>>[1] = msg
        /\ next_id + 1 - 1 = next_id /\ 1..1 = {1}
    BY <2>1
  <2>3. IsNew(<<msg>>)
    BY <2>1, <2>2 DEF IsNew
  <2> QED
    BY <2>2, <2>3 DEF msg
<1> QED
  BY <1>1, <1>2

LEMMA ToolReplyIsNew ==
  ASSUME next_id \in Nat, NEW n \in Nat, NEW long \in BOOLEAN,
         NEW results \in [1..n -> BOOLEAN],
         NEW reply,
         reply = <<Said("assistant", next_id, TRUE, long)>>
                   \o [k \in 1..n |->
                         Said("tool", next_id + k, FALSE, results[k])]
  PROVE  reply \in Seq(Message) /\ IsNew(reply)
<1> DEFINE call == <<Said("assistant", next_id, TRUE, long)>>
           Row(k) == Said("tool", next_id + k, FALSE, results[k])
           rows == [k \in 1..n |-> Row(k)]
<1>1. call \in Seq(Message) /\ Len(call) = 1 /\ call[1].id = next_id
  <2>1. Said("assistant", next_id, TRUE, long) \in Message
    BY SaidType DEF Roles
  <2> QED
    BY <2>1 DEF Said
<1>2. \A k \in 1..n : Row(k) \in Message /\ Row(k).id = next_id + k
  <2> TAKE k \in 1..n
  <2>1. next_id + k \in Nat /\ results[k] \in BOOLEAN
    OBVIOUS
  <2>2. Row(k) \in Message
    BY <2>1, SaidType DEF Roles
  <2> QED
    BY <2>2 DEF Said
<1> HIDE DEF Row
<1>3. rows \in Seq(Message)
  BY <1>2, IsASeq
<1>4. Len(rows) = n /\ \A k \in 1..n : rows[k] = Row(k)
  OBVIOUS
<1>5. reply = call \o rows
  BY DEF Row
<1> HIDE DEF call, rows
<1>6. /\ reply \in Seq(Message) /\ Len(reply) = 1 + n
      /\ \A k \in 1..1 + n :
           reply[k] = IF k <= 1 THEN call[k] ELSE rows[k - 1]
  <2>1. /\ call \o rows \in Seq(Message)
        /\ Len(call \o rows) = Len(call) + Len(rows)
        /\ \A k \in 1..Len(call) + Len(rows) :
             (call \o rows)[k] = IF k <= Len(call) THEN call[k]
                                ELSE rows[k - Len(call)]
    BY <1>1, <1>3, ConcatProperties
  <2> QED
    BY <1>1, <1>4, <1>5, <2>1
<1>7. ASSUME NEW k \in 1..1 + n PROVE reply[k].id = next_id + k - 1
  <2>1. CASE k = 1
    <3>1. 1 \in 1..1 + n /\ next_id + 1 - 1 = next_id
      OBVIOUS
    <3>2. reply[k] = IF k <= 1 THEN call[k] ELSE rows[k - 1]
      BY <1>6
    <3>3. reply[k] = call[1] /\ k = 1
      BY ONLY <2>1, <3>2
    <3> QED
      BY <1>1, <3>1, <3>3
  <2>2. CASE k # 1
    <3>1. ~(k <= 1) /\ k - 1 \in 1..n
      BY <2>2
    <3> QED
      BY <1>2, <1>4, <1>6, <3>1
  <2> QED
    BY <2>1, <2>2
<1> QED
  BY <1>6, <1>7 DEF IsNew

LEMMA NextOrder == TypeOK /\ OrderInv /\ [Next]_vars => OrderInv'
<1> SUFFICES ASSUME TypeOK, OrderInv, [Next]_vars PROVE OrderInv'
  OBVIOUS
<1>1. next_id \in Nat \ {0} /\ next_id \in Nat /\ history \in Seq(Message)
  BY DEF TypeOK
<1>2. CASE UserSays
  <2>1. PICK long \in BOOLEAN :
          history' = Append(history, Said("user", next_id, FALSE, long))
    BY <1>2 DEF UserSays
  <2> DEFINE msg == Said("user", next_id, FALSE, long)
  <2>2. <<msg>> \in Seq(Message) /\ IsNew(<<msg>>) /\ Len(<<msg>>) = 1
    BY <1>1, RepliesAreNew DEF Roles
  <2>3. msg \in Message
    BY <1>1, SaidType DEF Roles
  <2> HIDE DEF msg
  <2>4. history' = history \o <<msg>> /\ next_id' = next_id + Len(<<msg>>)
    BY <1>1, <1>2, <2>1, <2>2, <2>3, AppendIsConcat DEF UserSays, msg
  <2>5. InOrder(history \o <<msg>>)
        /\ Earlier(history \o <<msg>>, next_id + Len(<<msg>>))
    BY <1>1, <2>2, ReplyOrder DEF OrderInv
  <2> QED
    BY <2>4, <2>5 DEF OrderInv, InOrder, Earlier
<1>3. CASE Answer
  <2>1. PICK long \in BOOLEAN, fails \in BOOLEAN :
          CallProvider(IF fails THEN << >>
                       ELSE <<Said("assistant", next_id, FALSE, long)>>)
    BY <1>3 DEF Answer
  <2> DEFINE said == <<Said("assistant", next_id, FALSE, long)>>
  <2>2. said \in Seq(Message) /\ IsNew(said)
    BY <1>1, RepliesAreNew DEF Roles
  <2>3. << >> \in Seq(Message) /\ IsNew(<< >>)
    BY <1>1, RepliesAreNew
  <2>4. CallProvider(<< >>) \/ CallProvider(said)
    BY <2>1
  <2> HIDE DEF said
  <2> QED
    BY <2>2, <2>3, <2>4, CallProviderOrder
<1>4. CASE ToolTurn
  <2>1. PICK long \in BOOLEAN,
             results \in UNION {[1..n -> BOOLEAN] : n \in 1..MaxResults} :
          CallProvider(<<Said("assistant", next_id, TRUE, long)>>
                         \o [k \in 1..Len(results) |->
                               Said("tool", next_id + k, FALSE, results[k])])
    BY <1>4 DEF ToolTurn
  <2>2. PICK n \in 1..MaxResults : results \in [1..n -> BOOLEAN]
    OBVIOUS
  <2>3. n \in Nat /\ Len(results) = n
    BY <2>2
  <2> DEFINE reply == <<Said("assistant", next_id, TRUE, long)>>
                        \o [k \in 1..n |->
                              Said("tool", next_id + k, FALSE, results[k])]
  <2>4. CallProvider(reply)
    BY <2>1, <2>3
  <2>5. reply \in Seq(Message) /\ IsNew(reply)
    BY <1>1, <2>2, <2>3, ToolReplyIsNew
  <2> HIDE DEF reply
  <2> QED
    BY <2>4, <2>5, CallProviderOrder
<1>5. CASE CompressContext
  <2>1. PICK answered \in BOOLEAN :
          AfterCompress(Compress(Messages, answered),
                        Compress(Messages, answered).compressed, << >>)
    BY <1>5 DEF CompressContext
  <2>2. << >> \in Seq(Message) /\ IsNew(<< >>)
    BY <1>1, RepliesAreNew
  <2>3. Compress(Messages, answered).compressed \in BOOLEAN
    BY MessagesShape, CompressShape DEF TypeOK, SystemPrompt
  <2> QED
    BY <2>1, <2>2, <2>3, AfterCompressOrder
<1>6. CASE NewSession
  <2>1. Len(history') = 0
    BY <1>6 DEF NewSession
  <2> QED
    BY <2>1 DEF OrderInv, InOrder, Earlier
<1>7. CASE EndRun \/ UNCHANGED vars
  BY <1>7 DEF EndRun, vars, OrderInv, InOrder, Earlier
<1> QED
  BY <1>2, <1>3, <1>4, <1>5, <1>6, <1>7 DEF Next

\* Neither a summary nor what is pruned, cut or appended changes the order in
\* which the messages of the context were said.
THEOREM OrderIsKept == Spec => []OrderKept
<1>1. Init => OrderInv
  BY DEF Init, OrderInv, InOrder, Earlier
<1>2. OrderInv => OrderKept
  BY DEF OrderInv, InOrder, OrderKept
<1> QED
  BY <1>1, <1>2, TypeCorrect, NextOrder, PTL DEF Spec

=============================================================================
