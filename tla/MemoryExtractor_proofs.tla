----------------------- MODULE MemoryExtractor_proofs -----------------------
(***************************************************************************)
(* Proofs about MemoryExtractor and the store below it: rows stay in order, *)
(* the queue holds each conversation once, no watermark passes a message   *)
(* unread; and that the store implements TranscriptLog                     *)
(* (ImplementsTranscriptLog of ConversationStore): each step of the threads *)
(* on the database moves the committed transcripts as the log says.         *)
(***************************************************************************)
EXTENDS MemoryExtractor, NaturalSets, FiniteSetTheorems, FunctionTheorems,
        SequenceTheorems, TLAPS

------------------------------------------------------------------------------
(* A sound database *)

\* RowsInOrder, of any database.
Ordered(d) ==
  \A i, j \in DOMAIN d.rows :
    d.rows[i].conv = d.rows[j].conv /\ i < j =>
      /\ d.rows[i].seq < d.rows[j].seq
      /\ d.rows[i].active => d.rows[j].active

\* There are fewer messages before a row than rows.
SeqBelowId(d) == \A i \in DOMAIN d.rows : d.rows[i].seq < i

Sound(d) ==
  IsDatabase(d) /\ IsFiniteSet(d.convs) /\ Ordered(d) /\ SeqBelowId(d)

LEMMA RowTypes ==
  ASSUME NEW d, IsDatabase(d), NEW i \in DOMAIN d.rows
  PROVE  /\ i \in Nat /\ i >= 1 /\ i <= d.last /\ d.last \in Nat
         /\ d.rows[i] \in Row
         /\ d.rows[i].conv \in Convs /\ d.rows[i].seq \in Nat
         /\ d.rows[i].msg \in Message /\ d.rows[i].active \in BOOLEAN
<1>1. d.rows[i] \in Row
  BY DEF IsDatabase
<1>2. i \in 1..d.last /\ d.last \in Nat
  BY DEF IsDatabase
<1> QED
  BY <1>1, <1>2 DEF Row

LEMMA EmptyIsSound == Sound(EmptyDatabase)
<1>1. EmptyDatabase.rows = << >> /\ EmptyDatabase.last = 0 /\ EmptyDatabase.convs = {}
  BY DEF EmptyDatabase
<1>2. DOMAIN EmptyDatabase.rows = {}
  BY <1>1
<1>3. EmptyDatabase.rows \in [DOMAIN EmptyDatabase.rows -> Row]
  BY <1>1, <1>2
<1>4. IsDatabase(EmptyDatabase)
  BY <1>1, <1>2, <1>3 DEF IsDatabase, EmptyDatabase
<1>5. IsFiniteSet(EmptyDatabase.convs)
  BY <1>1, FS_EmptySet
<1> QED
  BY <1>2, <1>4, <1>5 DEF Sound, Ordered, SeqBelowId

LEMMA WithConversationIsSound ==
  ASSUME NEW d, Sound(d), NEW c \in Convs
  PROVE  Sound(WithConversation(d, c))
<1> DEFINE e == WithConversation(d, c)
<1>1. d = [convs |-> d.convs, rows |-> d.rows, last |-> d.last]
  BY DEF Sound, IsDatabase
<1>2. e = [convs |-> d.convs \cup {c}, rows |-> d.rows, last |-> d.last]
  BY <1>1 DEF WithConversation
<1>3. e.convs = d.convs \cup {c} /\ e.rows = d.rows /\ e.last = d.last
  BY <1>2
<1> HIDE DEF e
<1>4. IsDatabase(e)
  BY <1>2, <1>3 DEF IsDatabase, Sound
<1>5. IsFiniteSet(e.convs)
  BY <1>3, FS_AddElement DEF Sound
<1> QED
  BY <1>3, <1>4, <1>5 DEF Sound, Ordered, SeqBelowId, e

LEMMA WithoutIsSound ==
  ASSUME NEW d, Sound(d), NEW c
  PROVE  Sound(Without(d, c))
<1> DEFINE e == Without(d, c)
           left == DOMAIN d.rows \ RowsOf(d.rows, c)
           rows == [i \in left |-> d.rows[i]]
<1>2. e = [convs |-> d.convs \ {c}, rows |-> rows, last |-> d.last]
  BY DEF Without
<1> HIDE DEF left, rows
<1>3. e.convs = d.convs \ {c} /\ e.last = d.last /\ e.rows = [i \in left |-> d.rows[i]]
  BY <1>2 DEF rows
<1> HIDE DEF e
<1>4. DOMAIN e.rows = left /\ left \subseteq DOMAIN d.rows
      /\ \A i \in left : e.rows[i] = d.rows[i]
  BY <1>3 DEF left
<1>5. e.rows \in [DOMAIN e.rows -> Row]
  <2>1. \A i \in left : d.rows[i] \in Row
    BY <1>4, RowTypes DEF Sound
  <2> QED BY <2>1, <1>3
<1>6. IsDatabase(e)
  BY <1>2, <1>3, <1>4, <1>5 DEF IsDatabase, Sound
<1>7. IsFiniteSet(e.convs)
  <2>1. e.convs \in SUBSET d.convs
    BY <1>3
  <2> QED BY <2>1, FS_Subset DEF Sound
<1> QED
  BY <1>4, <1>6, <1>7 DEF Sound, Ordered, SeqBelowId, e

LEMMA WithArchivedShape ==
  ASSUME NEW d, Sound(d), NEW c
  PROVE  LET e == WithArchived(d, c) IN
           /\ e.convs = d.convs /\ e.last = d.last
           /\ DOMAIN e.rows = DOMAIN d.rows
           /\ \A i \in DOMAIN d.rows :
                /\ e.rows[i].conv = d.rows[i].conv
                /\ e.rows[i].seq = d.rows[i].seq
                /\ e.rows[i].msg = d.rows[i].msg
                /\ e.rows[i].active = (d.rows[i].active /\ d.rows[i].conv # c)
           /\ IsDatabase(e)
<1> DEFINE e == WithArchived(d, c)
           row(i) == IF d.rows[i].conv = c
                     THEN [d.rows[i] EXCEPT !.active = FALSE] ELSE d.rows[i]
           rows == [i \in DOMAIN d.rows |-> row(i)]
<1>1. d = [convs |-> d.convs, rows |-> d.rows, last |-> d.last]
  BY DEF Sound, IsDatabase
<1>a. e = [d EXCEPT !.rows = rows]
  BY DEF WithArchived
<1>2. e = [convs |-> d.convs, rows |-> rows, last |-> d.last]
  <2> HIDE DEF e, rows
  <2> QED BY <1>1, <1>a
<1>3. ASSUME NEW i \in DOMAIN d.rows
      PROVE  /\ row(i) \in Row /\ row(i).conv = d.rows[i].conv
             /\ row(i).seq = d.rows[i].seq /\ row(i).msg = d.rows[i].msg
             /\ row(i).active = (d.rows[i].active /\ d.rows[i].conv # c)
  <2>1. d.rows[i] \in Row
    BY RowTypes DEF Sound
  <2>2. d.rows[i].active \in BOOLEAN
    BY RowTypes DEF Sound
  <2>3. CASE d.rows[i].conv = c
    <3>1. row(i) = [d.rows[i] EXCEPT !.active = FALSE]
      BY <2>3
    <3> HIDE DEF row
    <3>2. row(i) \in Row /\ row(i).conv = d.rows[i].conv
          /\ row(i).seq = d.rows[i].seq /\ row(i).msg = d.rows[i].msg
          /\ row(i).active = FALSE
      BY <3>1, <2>1 DEF Row
    <3> QED BY <3>2, <2>3
  <2>4. CASE d.rows[i].conv # c
    <3>1. row(i) = d.rows[i]
      BY <2>4
    <3> HIDE DEF row
    <3> QED BY <3>1, <2>1, <2>2, <2>4
  <2> QED BY <2>3, <2>4
<1> HIDE DEF row
<1>4. e.convs = d.convs /\ e.last = d.last /\ e.rows = [i \in DOMAIN d.rows |-> row(i)]
  BY <1>2
<1> HIDE DEF e
<1>5. DOMAIN e.rows = DOMAIN d.rows /\ \A i \in DOMAIN d.rows : e.rows[i] = row(i)
  BY <1>4
<1>6. e.rows \in [DOMAIN e.rows -> Row]
  BY <1>3, <1>4
<1>7. IsDatabase(e)
  BY <1>2, <1>4, <1>5, <1>6 DEF IsDatabase, Sound
<1>8. \A i \in DOMAIN d.rows :
        /\ e.rows[i].conv = d.rows[i].conv
        /\ e.rows[i].seq = d.rows[i].seq
        /\ e.rows[i].msg = d.rows[i].msg
        /\ e.rows[i].active = (d.rows[i].active /\ d.rows[i].conv # c)
  BY <1>3, <1>5, Zenon
<1> QED
  BY <1>4, <1>5, <1>7, <1>8, Zenon DEF e

LEMMA WithArchivedIsSound ==
  ASSUME NEW d, Sound(d), NEW c
  PROVE  Sound(WithArchived(d, c))
<1> DEFINE e == WithArchived(d, c)
<1>1. /\ e.convs = d.convs /\ e.last = d.last
      /\ DOMAIN e.rows = DOMAIN d.rows
      /\ \A i \in DOMAIN d.rows :
           /\ e.rows[i].conv = d.rows[i].conv
           /\ e.rows[i].seq = d.rows[i].seq
           /\ e.rows[i].msg = d.rows[i].msg
           /\ e.rows[i].active = (d.rows[i].active /\ d.rows[i].conv # c)
      /\ IsDatabase(e)
  BY WithArchivedShape
<1> HIDE DEF e
<1>2. Ordered(e)
  <2> SUFFICES ASSUME NEW i \in DOMAIN e.rows, NEW j \in DOMAIN e.rows,
                      e.rows[i].conv = e.rows[j].conv, i < j
               PROVE  /\ e.rows[i].seq < e.rows[j].seq
                      /\ e.rows[i].active => e.rows[j].active
    BY DEF Ordered
  <2>1. i \in DOMAIN d.rows /\ j \in DOMAIN d.rows /\ d.rows[i].conv = d.rows[j].conv
    BY <1>1
  <2>2. d.rows[i].seq < d.rows[j].seq /\ (d.rows[i].active => d.rows[j].active)
    BY <2>1 DEF Sound, Ordered
  <2>3. e.rows[i].seq < e.rows[j].seq
    BY <2>1, <2>2, <1>1
  <2>4. e.rows[i].active => e.rows[j].active
    BY <2>1, <2>2, <1>1, Zenon
  <2> QED BY <2>3, <2>4
<1>3. SeqBelowId(e)
  BY <1>1 DEF Sound, SeqBelowId
<1> QED
  BY <1>1, <1>2, <1>3 DEF Sound, e

LEMMA NextSeqIsNext ==
  ASSUME NEW d, Sound(d), NEW c
  PROVE  /\ NextSeq(d.rows, c) \in 0..d.last
         /\ \A i \in RowsOf(d.rows, c) : d.rows[i].seq < NextSeq(d.rows, c)
<1> DEFINE taken == {d.rows[i].seq : i \in RowsOf(d.rows, c)}
<1>1. d.last \in Nat
  BY DEF Sound, IsDatabase
<1>2. NextSeq(d.rows, c) = IF taken = {} THEN 0 ELSE Max(taken) + 1
  BY DEF NextSeq
<1>3. \A i \in RowsOf(d.rows, c) :
        d.rows[i].seq \in taken /\ d.rows[i].seq \in Nat /\ d.rows[i].seq < d.last
  <2> SUFFICES ASSUME NEW i \in RowsOf(d.rows, c)
               PROVE  d.rows[i].seq \in taken /\ d.rows[i].seq \in Nat /\ d.rows[i].seq < d.last
    OBVIOUS
  <2>1. i \in DOMAIN d.rows
    BY DEF RowsOf
  <2>2. d.rows[i].seq \in Nat /\ i \in Nat /\ i <= d.last
    BY <2>1, RowTypes DEF Sound
  <2>3. d.rows[i].seq < i
    BY <2>1 DEF Sound, SeqBelowId
  <2> QED BY <2>2, <2>3, <1>1
<1>4. \A s \in taken : s \in Nat /\ s < d.last
  BY <1>3
<1> HIDE DEF taken
<1>5. CASE taken = {}
  BY <1>1, <1>2, <1>3, <1>5
<1>6. CASE taken # {}
  <2>1. taken \subseteq 0..d.last
    BY <1>1, <1>4
  <2>2. Max(taken) \in taken /\ \A s \in taken : s <= Max(taken)
    BY <2>1, <1>1, <1>6, MaxOfNaturals
  <2>3. Max(taken) \in Nat /\ Max(taken) < d.last
    BY <2>2, <1>4
  <2>4. NextSeq(d.rows, c) = Max(taken) + 1
    BY <1>2, <1>6
  <2> HIDE DEF NextSeq
  <2>5. NextSeq(d.rows, c) \in 0..d.last
    BY <2>3, <2>4, <1>1
  <2>6. \A i \in RowsOf(d.rows, c) : d.rows[i].seq < NextSeq(d.rows, c)
    BY <2>2, <2>3, <2>4, <1>3
  <2> QED BY <2>5, <2>6
<1> QED
  BY <1>5, <1>6

\* The ids WithRows gives out.
Added(d, msgs) == d.last + 1..d.last + Len(msgs)

\* What WithRows makes of d.
HasAdded(e, d, c, msgs) ==
  /\ e.convs = d.convs /\ e.last = d.last + Len(msgs)
  /\ DOMAIN e.rows = DOMAIN d.rows \cup Added(d, msgs)
  /\ \A i \in DOMAIN d.rows : e.rows[i] = d.rows[i]
  /\ \A i \in Added(d, msgs) :
       /\ e.rows[i].conv = c
       /\ e.rows[i].seq = NextSeq(d.rows, c) + i - d.last - 1
       /\ e.rows[i].msg = msgs[i - d.last]
       /\ e.rows[i].active = TRUE
  /\ IsDatabase(e)

LEMMA WithRowsShape ==
  ASSUME NEW d, Sound(d), NEW c \in Convs, NEW msgs \in Seq(Message)
  PROVE  HasAdded(WithRows(d, c, msgs), d, c, msgs)
<1> SUFFICES ASSUME NEW e, e = WithRows(d, c, msgs)
             PROVE  HasAdded(e, d, c, msgs)
  OBVIOUS
<1> DEFINE n == Len(msgs)
           next == NextSeq(d.rows, c)
           added == d.last + 1..d.last + n
           row(i) == [conv |-> c, msg |-> msgs[i - d.last],
                      seq |-> next + i - d.last - 1, active |-> TRUE]
           rows == [i \in DOMAIN d.rows \cup added |->
                      IF i <= d.last THEN d.rows[i] ELSE row(i)]
<1>1. e = [convs |-> d.convs, last |-> d.last + n, rows |-> rows]
  BY DEF WithRows
<1>2. n \in Nat /\ d.last \in Nat /\ next \in Nat
  <2>1. n \in Nat
    BY LenProperties
  <2>2. d.last \in Nat
    BY DEF Sound, IsDatabase
  <2>3. next \in 0..d.last
    BY NextSeqIsNext
  <2> HIDE DEF n, next
  <2> QED BY <2>1, <2>2, <2>3
<1>3. DOMAIN d.rows \subseteq 1..d.last
  BY DEF Sound, IsDatabase
<1>4. ASSUME NEW i \in added
      PROVE  /\ ~(i <= d.last) /\ row(i) \in Row /\ row(i).conv = c
             /\ row(i).seq = next + i - d.last - 1 /\ row(i).active = TRUE
             /\ row(i).msg = msgs[i - d.last]
  <2>1. i \in Nat /\ i - d.last \in 1..n /\ ~(i <= d.last)
    BY <1>2
  <2>2. msgs[i - d.last] \in Message
    BY <2>1, ElementOfSeq
  <2> HIDE DEF next
  <2>3. next + i - d.last - 1 \in Nat
    BY <2>1, <1>2
  <2>4. row(i) \in Row
    BY <2>2, <2>3 DEF Row
  <2> QED BY <2>1, <2>4
<1> HIDE DEF row, next
<1>5. e.convs = d.convs /\ e.last = d.last + n /\ e.rows = rows
  BY <1>1
<1>6. DOMAIN e.rows = DOMAIN d.rows \cup added
  BY <1>5
<1>7. \A i \in DOMAIN d.rows : e.rows[i] = d.rows[i]
  BY <1>3, <1>5, <1>2
<1>8. \A i \in added : e.rows[i] = row(i)
  <2> HIDE DEF added
  <2> QED BY <1>4, <1>5
<1>9. e.rows \in [DOMAIN e.rows -> Row]
  <2>1. \A i \in DOMAIN e.rows : e.rows[i] \in Row
    <3>1. \A i \in DOMAIN d.rows : d.rows[i] \in Row
      BY RowTypes DEF Sound
    <3> HIDE DEF added, rows
    <3> QED BY <3>1, <1>4, <1>6, <1>7, <1>8
  <2>2. e.rows = [i \in DOMAIN e.rows |-> e.rows[i]]
    BY <1>5, <1>6
  <2> QED BY <2>1, <2>2
<1>10. DOMAIN e.rows \subseteq 1..e.last /\ e.last \in Nat
  BY <1>2, <1>3, <1>5, <1>6
<1>11. e = [convs |-> e.convs, rows |-> e.rows, last |-> e.last]
  <2> HIDE DEF rows
  <2> QED BY <1>1, <1>5
<1>12. IsDatabase(e)
  <2>1. e.convs \subseteq Convs
    BY <1>5 DEF Sound, IsDatabase
  <2> QED BY <2>1, <1>9, <1>10, <1>11 DEF IsDatabase
<1>13. \A i \in added : /\ e.rows[i].conv = c
                        /\ e.rows[i].seq = next + i - d.last - 1
                        /\ e.rows[i].msg = msgs[i - d.last]
                        /\ e.rows[i].active = TRUE
  <2> HIDE DEF added
  <2> QED BY <1>4, <1>8
<1> HIDE DEF rows
<1> QED
  BY <1>5, <1>6, <1>7, <1>12, <1>13 DEF next, Added, HasAdded

LEMMA WithRowsIsSound ==
  ASSUME NEW d, Sound(d), NEW c \in Convs, NEW msgs \in Seq(Message)
  PROVE  Sound(WithRows(d, c, msgs))
<1> SUFFICES ASSUME NEW e, e = WithRows(d, c, msgs) PROVE Sound(e)
  OBVIOUS
<1>1. /\ e.convs = d.convs /\ e.last = d.last + Len(msgs)
      /\ DOMAIN e.rows = DOMAIN d.rows \cup Added(d, msgs)
      /\ \A i \in DOMAIN d.rows : e.rows[i] = d.rows[i]
      /\ \A i \in Added(d, msgs) :
           /\ e.rows[i].conv = c
           /\ e.rows[i].seq = NextSeq(d.rows, c) + i - d.last - 1
           /\ e.rows[i].active = TRUE
      /\ IsDatabase(e)
  <2>1. HasAdded(e, d, c, msgs)
    BY WithRowsShape
  <2> QED BY <2>1 DEF HasAdded
<1>2. Len(msgs) \in Nat /\ d.last \in Nat /\ NextSeq(d.rows, c) \in 0..d.last
  <2>1. Len(msgs) \in Nat
    BY LenProperties
  <2>2. d.last \in Nat
    BY DEF Sound, IsDatabase
  <2>3. NextSeq(d.rows, c) \in 0..d.last
    BY NextSeqIsNext
  <2> QED BY <2>1, <2>2, <2>3
<1>3. \A i \in RowsOf(d.rows, c) : d.rows[i].seq < NextSeq(d.rows, c)
  BY NextSeqIsNext
<1>7. \A i \in Added(d, msgs) : i \in Nat /\ i >= d.last + 1
  BY <1>2 DEF Added
<1>4. \A i \in DOMAIN d.rows : i \in Nat /\ i <= d.last /\ d.rows[i].seq \in Nat
  BY RowTypes DEF Sound
<1>5. Ordered(e)
  <2> SUFFICES ASSUME NEW i \in DOMAIN e.rows, NEW j \in DOMAIN e.rows,
                      e.rows[i].conv = e.rows[j].conv, i < j
               PROVE  /\ e.rows[i].seq < e.rows[j].seq
                      /\ e.rows[i].active => e.rows[j].active
    BY DEF Ordered
  <2>1. CASE j \in DOMAIN d.rows
    <3>1. i \in DOMAIN d.rows
      BY <2>1, <1>1, <1>2, <1>4, <1>7
    <3>2. e.rows[i] = d.rows[i] /\ e.rows[j] = d.rows[j]
      BY <2>1, <3>1, <1>1
    <3> QED BY <2>1, <3>1, <3>2 DEF Sound, Ordered
  <2>2. CASE j \in Added(d, msgs) /\ i \in DOMAIN d.rows
    <3>1. e.rows[i] = d.rows[i] /\ d.rows[i].conv = c /\ e.rows[j].active = TRUE
      BY <2>2, <1>1
    <3>2. d.rows[i].seq < NextSeq(d.rows, c) /\ d.rows[i].seq \in Nat
      BY <3>1, <2>2, <1>3, <1>4 DEF RowsOf
    <3>3. e.rows[j].seq = NextSeq(d.rows, c) + j - d.last - 1 /\ j \in Nat /\ j >= d.last + 1
      BY <2>2, <1>1, <1>7
    <3>4. e.rows[i].seq < e.rows[j].seq
      BY <3>1, <3>2, <3>3, <1>2
    <3> QED BY <3>1, <3>4
  <2>3. CASE j \in Added(d, msgs) /\ i \in Added(d, msgs)
    <3>1. e.rows[i].seq = NextSeq(d.rows, c) + i - d.last - 1 /\ e.rows[j].seq = NextSeq(d.rows, c) + j - d.last - 1
          /\ e.rows[j].active = TRUE
      BY <2>3, <1>1
    <3>2. i \in Nat /\ j \in Nat
      BY <2>3, <1>7
    <3>3. e.rows[i].seq < e.rows[j].seq
      BY <3>1, <3>2, <1>2
    <3> QED BY <3>1, <3>3
  <2> QED BY <2>1, <2>2, <2>3, <1>1
<1>6. SeqBelowId(e)
  <2> SUFFICES ASSUME NEW i \in DOMAIN e.rows PROVE e.rows[i].seq < i
    BY DEF SeqBelowId
  <2>1. CASE i \in DOMAIN d.rows
    BY <2>1, <1>1 DEF Sound, SeqBelowId
  <2>2. CASE i \in Added(d, msgs)
    <3>1. e.rows[i].seq = NextSeq(d.rows, c) + i - d.last - 1 /\ i \in Nat
      BY <2>2, <1>1, <1>7
    <3> QED BY <3>1, <1>2
  <2> QED BY <2>1, <2>2, <1>1
<1> QED
  BY <1>1, <1>5, <1>6 DEF Sound

------------------------------------------------------------------------------
(* What a row keeps while the database moves *)

\* No id is given out twice, a row keeps its conversation and its message, an
\* archived row stays archived, and a conversation loses all rows or none.
Later(old, new) ==
  /\ old.last <= new.last
  /\ \A i \in DOMAIN new.rows : i <= old.last =>
       /\ i \in DOMAIN old.rows
       /\ new.rows[i].conv = old.rows[i].conv
       /\ new.rows[i].msg = old.rows[i].msg
       /\ new.rows[i].active => old.rows[i].active
  /\ \A i, j \in DOMAIN old.rows :
       i \in DOMAIN new.rows /\ old.rows[i].conv = old.rows[j].conv =>
         j \in DOMAIN new.rows

LEMMA LaterReflexive ==
  ASSUME NEW d, Sound(d)
  PROVE  Later(d, d)
<1>1. d.last <= d.last
  BY DEF Sound, IsDatabase
<1> QED
  BY <1>1, Zenon DEF Later

LEMMA LaterTransitive ==
  ASSUME NEW a, NEW b, NEW c, Sound(a), Sound(b), Sound(c), Later(a, b), Later(b, c)
  PROVE  Later(a, c)
<1>1. a.last \in Nat /\ b.last \in Nat /\ c.last \in Nat
      /\ a.last <= b.last /\ b.last <= c.last
  BY DEF Sound, IsDatabase, Later
<1>2. \A i \in DOMAIN a.rows : i \in Nat /\ i <= a.last
  BY RowTypes DEF Sound
<1>3. \A i \in DOMAIN c.rows : i \in Nat
  BY RowTypes DEF Sound
<1>4. \A i \in DOMAIN c.rows : i <= a.last => i <= b.last
  BY <1>1, <1>3
<1>5. \A i \in DOMAIN a.rows : i <= b.last
  BY <1>1, <1>2
<1>6. a.last <= c.last
  BY <1>1
<1>7. ASSUME NEW i \in DOMAIN c.rows, i <= a.last
      PROVE  /\ i \in DOMAIN a.rows
             /\ c.rows[i].conv = a.rows[i].conv
             /\ c.rows[i].msg = a.rows[i].msg
             /\ c.rows[i].active => a.rows[i].active
  <2>1. /\ i \in DOMAIN b.rows
        /\ c.rows[i].conv = b.rows[i].conv
        /\ c.rows[i].msg = b.rows[i].msg
        /\ c.rows[i].active => b.rows[i].active
    BY <1>4, <1>7, Zenon DEF Later
  <2>2. /\ i \in DOMAIN a.rows
        /\ b.rows[i].conv = a.rows[i].conv
        /\ b.rows[i].msg = a.rows[i].msg
        /\ b.rows[i].active => a.rows[i].active
    BY <2>1, <1>7, Zenon DEF Later
  <2> QED BY <2>1, <2>2, Zenon
<1>8. ASSUME NEW i \in DOMAIN a.rows, NEW j \in DOMAIN a.rows,
             i \in DOMAIN c.rows, a.rows[i].conv = a.rows[j].conv
      PROVE  j \in DOMAIN c.rows
  <2>1. i \in DOMAIN b.rows /\ i <= a.last /\ j <= a.last
    BY <1>2, <1>5, <1>8, Zenon DEF Later
  <2>2. j \in DOMAIN b.rows
    BY <2>1, <1>8, Zenon DEF Later
  <2>3. b.rows[i].conv = a.rows[i].conv /\ b.rows[j].conv = a.rows[j].conv
    BY <2>1, <2>2, Zenon DEF Later
  <2>4. b.rows[i].conv = b.rows[j].conv
    BY <2>3, <1>8
  <2> QED BY <2>1, <2>2, <2>4, <1>8, Zenon DEF Later
<1> QED
  BY <1>6, <1>7, <1>8 DEF Later

LEMMA WithConversationIsLater ==
  ASSUME NEW d, Sound(d), NEW c \in Convs
  PROVE  Later(d, WithConversation(d, c))
<1> SUFFICES ASSUME NEW e, e = WithConversation(d, c) PROVE Later(d, e)
  OBVIOUS
<1>1. d = [convs |-> d.convs, rows |-> d.rows, last |-> d.last]
  BY DEF Sound, IsDatabase
<1>2. e.rows = d.rows /\ e.last = d.last
  BY <1>1 DEF WithConversation
<1> QED
  BY <1>2, LaterReflexive DEF Later

LEMMA WithoutIsLater ==
  ASSUME NEW d, Sound(d), NEW c
  PROVE  Later(d, Without(d, c))
<1> SUFFICES ASSUME NEW e, e = Without(d, c) PROVE Later(d, e)
  OBVIOUS
<1>1. e.last = d.last /\ d.last <= d.last
      /\ DOMAIN e.rows = DOMAIN d.rows \ RowsOf(d.rows, c)
      /\ \A i \in DOMAIN e.rows : e.rows[i] = d.rows[i]
  BY DEF Without, Sound, IsDatabase
<1>2. \A i, j \in DOMAIN d.rows :
        i \in DOMAIN e.rows /\ d.rows[i].conv = d.rows[j].conv => j \in DOMAIN e.rows
  BY <1>1 DEF RowsOf
<1> QED
  BY <1>1, <1>2 DEF Later

LEMMA WithArchivedIsLater ==
  ASSUME NEW d, Sound(d), NEW c
  PROVE  Later(d, WithArchived(d, c))
<1> DEFINE e == WithArchived(d, c)
<1>1. /\ e.convs = d.convs /\ e.last = d.last
      /\ DOMAIN e.rows = DOMAIN d.rows
      /\ \A i \in DOMAIN d.rows :
           /\ e.rows[i].conv = d.rows[i].conv
           /\ e.rows[i].seq = d.rows[i].seq
           /\ e.rows[i].msg = d.rows[i].msg
           /\ e.rows[i].active = (d.rows[i].active /\ d.rows[i].conv # c)
      /\ IsDatabase(e)
  BY WithArchivedShape
<1>2. d.last <= d.last
  BY DEF Sound, IsDatabase
<1> HIDE DEF e
<1>3. d.last <= e.last
  BY <1>1, <1>2
<1>4. \A i \in DOMAIN d.rows : e.rows[i].active => d.rows[i].active
  BY <1>1, Zenon
<1>5. Later(d, e)
  BY <1>1, <1>3, <1>4, Zenon DEF Later
<1> QED
  BY <1>5 DEF e

LEMMA WithRowsIsLater ==
  ASSUME NEW d, Sound(d), NEW c \in Convs, NEW msgs \in Seq(Message)
  PROVE  Later(d, WithRows(d, c, msgs))
<1> SUFFICES ASSUME NEW e, e = WithRows(d, c, msgs) PROVE Later(d, e)
  OBVIOUS
<1>1. HasAdded(e, d, c, msgs)
  BY WithRowsShape
<1>2. Len(msgs) \in Nat /\ d.last \in Nat
  BY LenProperties DEF Sound, IsDatabase
<1>3. d.last <= e.last
  BY <1>1, <1>2 DEF HasAdded
<1>4. \A i \in DOMAIN e.rows : i <= d.last => i \in DOMAIN d.rows
  BY <1>1, <1>2 DEF HasAdded, Added
<1>5. \A i \in DOMAIN d.rows : i \in DOMAIN e.rows /\ e.rows[i] = d.rows[i]
  BY <1>1 DEF HasAdded
<1> QED
  BY <1>3, <1>4, <1>5, Zenon DEF Later

------------------------------------------------------------------------------
(* load() *)

LEMMA RowsAreFinite ==
  ASSUME NEW d, Sound(d), NEW S, S \subseteq DOMAIN d.rows
  PROVE  IsFiniteSet(S)
<1>1. S \in SUBSET (1..d.last) /\ 1 \in Int /\ d.last \in Int
  BY DEF Sound, IsDatabase
<1>2. IsFiniteSet(1..d.last)
  BY <1>1, FS_Interval
<1> QED
  BY <1>1, <1>2, FS_Subset

\* The rows load() and load_all() read.
Loads(d, c, active) == {i \in RowsOf(d.rows, c) : d.rows[i].active = active}

Preceding(d, ids, i) == {j \in ids : d.rows[j].seq < d.rows[i].seq}

HasRank(d, ids, k) == \E i \in ids : Cardinality(Preceding(d, ids, i)) = k - 1

\* Counting the rows before each row of a conversation numbers them from 0 on,
\* as no two of them have the same seq.
LEMMA EachRankOnce ==
  ASSUME NEW d, Sound(d), NEW c, NEW active \in BOOLEAN,
         NEW k \in 1..Cardinality(Loads(d, c, active))
  PROVE  HasRank(d, Loads(d, c, active), k)
<1> DEFINE ids == Loads(d, c, active)
<1>a. ids \subseteq RowsOf(d.rows, c) /\ k \in 1..Cardinality(ids)
  BY DEF Loads
<1> HIDE DEF ids
<1> DEFINE Before(i) == {j \in ids : d.rows[j].seq < d.rows[i].seq}
           n == Cardinality(ids)
           rank == [i \in ids |-> Cardinality(Before(i))]
<1>1. ids \subseteq DOMAIN d.rows
  BY <1>a DEF RowsOf
<1>2. IsFiniteSet(ids) /\ n \in Nat
  BY <1>1, RowsAreFinite, FS_CardinalityType
<1>3. \A i \in ids : d.rows[i].seq \in Nat /\ i \in Nat
  BY <1>1, RowTypes DEF Sound
<1>4. \A i, j \in ids : i # j =>
        d.rows[i].seq < d.rows[j].seq \/ d.rows[j].seq < d.rows[i].seq
  <2> SUFFICES ASSUME NEW i \in ids, NEW j \in ids, i # j
               PROVE  d.rows[i].seq < d.rows[j].seq \/ d.rows[j].seq < d.rows[i].seq
    OBVIOUS
  <2>1. d.rows[i].conv = c /\ d.rows[j].conv = c
    BY <1>a DEF RowsOf
  <2>2. i \in DOMAIN d.rows /\ j \in DOMAIN d.rows
    BY <1>1
  <2>3. i < j \/ j < i
    BY <1>3
  <2> QED BY <2>1, <2>2, <2>3 DEF Sound, Ordered
<1>5. ASSUME NEW i \in ids
      PROVE  IsFiniteSet(Before(i)) /\ Cardinality(Before(i)) \in 0..n - 1
  <2>1. i \notin Before(i)
    BY <1>3
  <2>2. Before(i) \in SUBSET (ids \ {i})
    BY <2>1
  <2> HIDE DEF Before
  <2>3. IsFiniteSet(ids \ {i}) /\ Cardinality(ids \ {i}) = n - 1
    BY <1>2, FS_RemoveElement
  <2>4. IsFiniteSet(Before(i)) /\ Cardinality(Before(i)) <= n - 1
    BY <2>2, <2>3, FS_Subset
  <2>5. Cardinality(Before(i)) \in Nat
    BY <2>4, FS_CardinalityType
  <2> HIDE DEF n
  <2> QED BY <2>4, <2>5, <1>2
<1>6. ASSUME NEW i \in ids, NEW j \in ids, d.rows[i].seq < d.rows[j].seq
      PROVE  rank[i] # rank[j]
  <2>1. i \in Before(j) /\ i \notin Before(i)
    BY <1>3, <1>6
  <2>2. Before(i) \in SUBSET Before(j)
    BY <1>3, <1>6
  <2>3. Before(i) # Before(j)
    BY <2>1
  <2> HIDE DEF Before
  <2>4. Cardinality(Before(i)) # Cardinality(Before(j))
    BY <2>2, <2>3, <1>5, FS_Subset
  <2> QED BY <2>4
<1>7. rank \in [ids -> 0..n - 1]
  <2> HIDE DEF Before, n
  <2> QED BY <1>5
<1>8. \A i, j \in ids : rank[i] = rank[j] => i = j
  <2> HIDE DEF rank
  <2> QED BY <1>4, <1>6
<1>9. rank \in Injection(ids, 0..n - 1)
  <2> HIDE DEF rank, n
  <2> QED BY <1>7, <1>8, Fun_IsInj
<1>10. IsFiniteSet(0..n - 1) /\ Cardinality(0..n - 1) = n
  <2>1. 0 \in Int /\ n - 1 \in Int
    BY <1>2
  <2>2. IsFiniteSet(0..n - 1) /\ Cardinality(0..n - 1) = IF 0 > n - 1 THEN 0 ELSE n - 1 - 0 + 1
    BY <2>1, FS_Interval
  <2> HIDE DEF n
  <2> QED BY <2>2, <1>2
<1>11. rank \in Surjection(ids, 0..n - 1)
  <2> HIDE DEF rank
  <2> QED BY <1>9, <1>10, FS_Injection
<1>12. k - 1 \in 0..n - 1
  <2>1. k \in 1..n
    BY <1>a
  <2> HIDE DEF n
  <2> QED BY <2>1, <1>2
<1>13. \E i \in ids : rank[i] = k - 1
  <2> HIDE DEF rank, n
  <2> QED BY <1>11, <1>12 DEF Surjection
<1> QED
  BY <1>13 DEF Preceding, HasRank, ids

LEMMA LoadedAreMessages ==
  ASSUME NEW d, Sound(d), NEW c, NEW active \in BOOLEAN
  PROVE  MessagesOf(d.rows, c, active) \in Seq(Message)
<1> DEFINE ids == Loads(d, c, active)
           Before(i) == {j \in ids : d.rows[j].seq < d.rows[i].seq}
           At(k) == d.rows[CHOOSE i \in ids : Cardinality(Before(i)) = k - 1].msg
<1>1. MessagesOf(d.rows, c, active) = [k \in 1..Cardinality(ids) |-> At(k)]
  BY DEF MessagesOf, Loads
<1>2. ids \subseteq RowsOf(d.rows, c) /\ ids \subseteq DOMAIN d.rows
  BY DEF RowsOf, Loads
<1> HIDE DEF ids
<1>3. Cardinality(ids) \in Nat
  BY <1>2, RowsAreFinite, FS_CardinalityType
<1>4. ASSUME NEW k \in 1..Cardinality(ids) PROVE At(k) \in Message
  <2>a. HasRank(d, ids, k)
    BY EachRankOnce DEF ids
  <2>1. \E i \in ids : Cardinality(Before(i)) = k - 1
    BY <2>a DEF Preceding, HasRank
  <2> HIDE DEF Before
  <2>2. (CHOOSE i \in ids : Cardinality(Before(i)) = k - 1) \in ids
    BY <2>1
  <2>3. \A i \in ids : d.rows[i].msg \in Message
    BY <1>2, RowTypes DEF Sound
  <2> QED BY <2>2, <2>3
<1> HIDE DEF At
<1>5. [k \in 1..Cardinality(ids) |-> At(k)] \in Seq(Message)
  BY <1>3, <1>4, IsASeq
<1> QED
  BY <1>1, <1>5

------------------------------------------------------------------------------
(* The two threads on the connection *)

\* The tables are sound to everyone, and what the connection sees is what is
\* committed or what will be.
Tables ==
  /\ Sound(db) /\ Sound(work) /\ Later(db, work)
  /\ in_txn \in BOOLEAN
  /\ ~in_txn => work = db

ThreadTypes ==
  /\ ui \in {"idle", "import", "remove", "left"}
  /\ importing \in Convs \cup {NoConversation}
  /\ session \in Convs \cup {NoConversation} /\ used \subseteq Convs
  /\ faults \in Nat

StoreInv == Tables /\ ThreadTypes

LEMMA UnchangedTables ==
  ASSUME Tables, UNCHANGED store
  PROVE  Tables' /\ Later(db, db')
<1>1. db' = db /\ work' = work /\ in_txn' = in_txn
  BY DEF store
<1>2. Later(db, db)
  BY LaterReflexive DEF Tables
<1> QED
  BY <1>1, <1>2 DEF Tables

LEMMA WriteKeepsTables ==
  ASSUME Tables, NEW new, Sound(new), Later(work, new), Write(new)
  PROVE  Tables' /\ Later(db, db')
<1>1. work' = new /\ in_txn' = in_txn /\ db' = IF in_txn THEN db ELSE new
  BY DEF Write
<1>2. Sound(db) /\ Sound(work) /\ Later(db, work) /\ in_txn \in BOOLEAN
  BY DEF Tables
<1>3. Later(db, db) /\ Later(new, new)
  BY <1>2, LaterReflexive
<1>4. Later(db, new)
  BY <1>2, LaterTransitive
<1>5. CASE in_txn
  BY <1>1, <1>2, <1>3, <1>4, <1>5 DEF Tables
<1>6. CASE ~in_txn
  BY <1>1, <1>2, <1>3, <1>4, <1>6 DEF Tables
<1> QED
  BY <1>2, <1>5, <1>6

LEMMA MessageTypes ==
  ASSUME NEW kind \in Kinds, NEW id \in Nat
  PROVE  /\ MessageOf(kind, id) \in Message
         /\ <<MessageOf(kind, id)>> \in Seq(Message)
<1>1. kind \in [role : Roles, size : Nat]
  BY BoundsAreNaturals
<1>2. MessageOf(kind, id) \in Message
  BY <1>1 DEF MessageOf, Message
<1>3. <<MessageOf(kind, id)>> \in Seq(Message)
  BY <1>2
<1> QED
  BY <1>2, <1>3

LEMMA CompressedAreMessages ==
  ASSUME NEW msgs \in Seq(Message), NEW cut \in Cuts(msgs), NEW kind \in Kinds
  PROVE  Compressed(msgs, cut, kind) \in Seq(Message)
<1>1. cut[1] \in Int /\ cut[1] <= Len(msgs) /\ cut[2] + 1 \in Int /\ cut[2] + 1 >= 1
      /\ Len(msgs) \in Int
  BY LenProperties DEF Cuts
<1>2. SubSeq(msgs, 1, cut[1]) \in Seq(Message)
  <2>1. \A i \in 1..cut[1] : msgs[i] \in Message
    BY <1>1, ElementOfSeq
  <2> QED BY <2>1, <1>1, SubSeqProperties
<1>3. SubSeq(msgs, cut[2] + 1, Len(msgs)) \in Seq(Message)
  <2>1. \A i \in cut[2] + 1..Len(msgs) : msgs[i] \in Message
    BY <1>1, ElementOfSeq
  <2> QED BY <2>1, <1>1, SubSeqProperties
<1>4. <<MessageOf(kind, 0)>> \in Seq(Message)
  BY MessageTypes
<1>5. SubSeq(msgs, 1, cut[1]) \o <<MessageOf(kind, 0)>> \in Seq(Message)
  BY <1>2, <1>4, ConcatProperties
<1> QED
  BY <1>3, <1>5, ConcatProperties DEF Compressed

LEMMA AgentNextKeeps ==
  ASSUME StoreInv, AgentNext
  PROVE  StoreInv' /\ Later(db, db')
<1>1. /\ Sound(db) /\ Sound(work) /\ Later(db, work) /\ work.last \in Nat
      /\ in_txn \in BOOLEAN /\ Tables /\ ThreadTypes
  BY DEF StoreInv, Tables, Sound, IsDatabase
<1>2. ASSUME NEW c \in Sessions, CreateConversation(c)
      PROVE  StoreInv' /\ Later(db, db')
  <2>1. c \in Convs
    BY DEF Convs
  <2>2. Sound(WithConversation(work, c)) /\ Later(work, WithConversation(work, c))
    BY <1>1, <2>1, WithConversationIsSound, WithConversationIsLater
  <2>3. Tables' /\ Later(db, db')
    BY <1>1, <1>2, <2>2, WriteKeepsTables DEF CreateConversation
  <2>4. ThreadTypes'
    BY <1>1, <1>2, <2>1 DEF ThreadTypes, CreateConversation, calls
  <2> QED BY <2>3, <2>4 DEF StoreInv
<1>3. ASSUME NEW kind \in Kinds, Say(kind)
      PROVE  StoreInv' /\ Later(db, db')
  <2> DEFINE new == WithRows(work, session, <<MessageOf(kind, work.last + 1)>>)
  <2>1. session \in Convs /\ Write(new)
    BY <1>1, <1>3 DEF Say, ThreadTypes
  <2>2. <<MessageOf(kind, work.last + 1)>> \in Seq(Message)
    BY <1>1, MessageTypes
  <2>3. Sound(new) /\ Later(work, new)
    BY <1>1, <2>1, <2>2, WithRowsIsSound, WithRowsIsLater
  <2> HIDE DEF new
  <2>4. Tables' /\ Later(db, db')
    BY <1>1, <2>1, <2>3, WriteKeepsTables
  <2>5. ThreadTypes'
    BY <1>1, <1>3 DEF ThreadTypes, Say, calls
  <2> QED BY <2>4, <2>5 DEF StoreInv
<1>4. ASSUME NEW kind \in Kinds,
             NEW cut \in Cuts(MessagesOf(work.rows, session, TRUE)),
             BeginArchive(Compressed(MessagesOf(work.rows, session, TRUE), cut, kind))
      PROVE  StoreInv' /\ Later(db, db')
  <2> DEFINE msgs == Compressed(MessagesOf(work.rows, session, TRUE), cut, kind)
             archived == WithArchived(work, session)
             new == WithRows(archived, session, msgs)
  <2>1. msgs \in Seq(Message)
    BY <1>1, LoadedAreMessages, CompressedAreMessages
  <2> HIDE DEF msgs
  <2>2. BeginArchive(msgs)
    BY <1>4 DEF msgs
  <2>3. session \in Convs /\ in_txn' = TRUE /\ work' = new /\ db' = db
    BY <1>1, <2>2 DEF BeginArchive, ThreadTypes
  <2>4. Sound(archived) /\ Later(work, archived)
    BY <1>1, WithArchivedIsSound, WithArchivedIsLater
  <2> HIDE DEF archived
  <2>5. Sound(new) /\ Later(archived, new)
    BY <2>1, <2>3, <2>4, WithRowsIsSound, WithRowsIsLater
  <2> HIDE DEF new
  <2>6. Later(work, new)
    BY <1>1, <2>4, <2>5, LaterTransitive
  <2>7. Later(db, new) /\ Later(db, db)
    BY <1>1, <2>5, <2>6, LaterTransitive, LaterReflexive
  <2>8. Tables' /\ Later(db, db')
    BY <1>1, <2>3, <2>5, <2>7 DEF Tables
  <2>9. ThreadTypes'
    BY <1>1, <2>2 DEF ThreadTypes, BeginArchive, calls
  <2> QED BY <2>8, <2>9 DEF StoreInv
<1>5. ASSUME CommitArchive PROVE StoreInv' /\ Later(db, db')
  <2>1. db' = work /\ work' = work /\ in_txn' = FALSE
    BY <1>5 DEF CommitArchive
  <2>2. Later(work, work)
    BY <1>1, LaterReflexive
  <2>3. Tables' /\ Later(db, db')
    BY <1>1, <2>1, <2>2 DEF Tables
  <2>4. ThreadTypes'
    BY <1>1, <1>5 DEF ThreadTypes, CommitArchive, calls
  <2> QED BY <2>3, <2>4 DEF StoreInv
<1>6. ASSUME RollbackArchive PROVE StoreInv' /\ Later(db, db')
  <2>1. db' = db /\ work' = db /\ in_txn' = FALSE
    BY <1>6 DEF RollbackArchive
  <2>2. Later(db, db)
    BY <1>1, LaterReflexive
  <2>3. Tables' /\ Later(db, db')
    BY <1>1, <2>1, <2>2 DEF Tables
  <2>4. ThreadTypes'
    BY <1>1, <1>6 DEF ThreadTypes, RollbackArchive, Fault, calls
  <2> QED BY <2>3, <2>4 DEF StoreInv
<1> QED
  BY <1>2, <1>3, <1>4, <1>5, <1>6 DEF AgentNext

LEMMA StoreLineKeeps ==
  ASSUME StoreInv, NEW kind \in Kinds, StoreLine(kind)
  PROVE  Tables' /\ Later(db, db')
<1> DEFINE new == WithRows(work, importing, <<MessageOf(kind, work.last + 1)>>)
<1>1. Tables /\ Sound(work) /\ work.last \in Nat /\ work.convs \subseteq Convs
  BY DEF StoreInv, Tables, Sound, IsDatabase
<1>2. importing \in Convs /\ Write(new)
  BY <1>1 DEF StoreLine
<1>3. <<MessageOf(kind, work.last + 1)>> \in Seq(Message)
  BY <1>1, MessageTypes
<1>4. Sound(new) /\ Later(work, new)
  BY <1>1, <1>2, <1>3, WithRowsIsSound, WithRowsIsLater
<1> HIDE DEF new
<1> QED
  BY <1>1, <1>2, <1>4, WriteKeepsTables

LEMMA ImportNextKeeps ==
  ASSUME StoreInv, ImportNext
  PROVE  StoreInv' /\ Later(db, db')
<1>1. Tables /\ ThreadTypes /\ Sound(work)
  BY DEF StoreInv, Tables
<1>2. ASSUME NEW c \in Imports, BeginImport(c)
      PROVE  StoreInv' /\ Later(db, db')
  <2>1. c \in Convs
    BY DEF Convs
  <2>2. Sound(WithConversation(work, c)) /\ Later(work, WithConversation(work, c))
    BY <1>1, <2>1, WithConversationIsSound, WithConversationIsLater
  <2>3. Tables' /\ Later(db, db')
    BY <1>1, <1>2, <2>2, WriteKeepsTables DEF BeginImport
  <2>4. ThreadTypes'
    BY <1>1, <1>2, <2>1 DEF ThreadTypes, BeginImport
  <2> QED BY <2>3, <2>4 DEF StoreInv
<1>3. ASSUME NEW kind \in Kinds, ImportLine(kind)
      PROVE  StoreInv' /\ Later(db, db')
  <2>1. Tables' /\ Later(db, db')
    BY <1>3, StoreLineKeeps DEF ImportLine
  <2>2. ThreadTypes'
    BY <1>1, <1>3 DEF ThreadTypes, ImportLine, calls
  <2> QED BY <2>1, <2>2 DEF StoreInv
<1>4. ASSUME NEW kind \in Kinds, ImportLineFails(kind)
      PROVE  StoreInv' /\ Later(db, db')
  <2>1. StoreLine(kind) \/ UNCHANGED store
    BY <1>4 DEF ImportLineFails
  <2>2. Tables' /\ Later(db, db')
    BY <1>1, <2>1, StoreLineKeeps, UnchangedTables
  <2>3. ThreadTypes'
    BY <1>1, <1>4 DEF ThreadTypes, ImportLineFails, Fault
  <2> QED BY <2>2, <2>3 DEF StoreInv
<1>5. ASSUME RemovePartial PROVE StoreInv' /\ Later(db, db')
  <2>1. Sound(Without(work, importing)) /\ Later(work, Without(work, importing))
    BY <1>1, WithoutIsSound, WithoutIsLater
  <2>2. Write(Without(work, importing)) \/ UNCHANGED store
    BY <1>5 DEF RemovePartial
  <2>3. Tables' /\ Later(db, db')
    BY <1>1, <2>1, <2>2, WriteKeepsTables, UnchangedTables
  <2>4. ThreadTypes'
    BY <1>1, <1>5 DEF ThreadTypes, RemovePartial
  <2> QED BY <2>3, <2>4 DEF StoreInv
<1>6. ASSUME ImportReturns PROVE StoreInv' /\ Later(db, db')
  <2>1. Tables' /\ Later(db, db')
    BY <1>1, <1>6, UnchangedTables DEF ImportReturns
  <2>2. ThreadTypes'
    BY <1>1, <1>6 DEF ThreadTypes, ImportReturns
  <2> QED BY <2>1, <2>2 DEF StoreInv
<1> QED
  BY <1>2, <1>3, <1>4, <1>5, <1>6 DEF ImportNext

LEMMA ClosingKeeps ==
  ASSUME StoreInv, StoreClosed, faults' \in Nat
  PROVE  StoreInv' /\ Later(db, db')
<1>1. Tables /\ ThreadTypes
  BY DEF StoreInv
<1>2. db' = db /\ work' = db /\ in_txn' = FALSE
  BY DEF StoreClosed
<1>3. Later(db, db)
  BY <1>1, LaterReflexive DEF Tables
<1>4. Tables' /\ Later(db, db')
  BY <1>1, <1>2, <1>3 DEF Tables
<1>5. ThreadTypes'
  BY <1>1 DEF ThreadTypes, StoreClosed
<1> QED
  BY <1>4, <1>5 DEF StoreInv

LEMMA StoreInitSound == StoreInit => StoreInv
<1> SUFFICES ASSUME StoreInit PROVE StoreInv
  OBVIOUS
<1>1. db = EmptyDatabase /\ work = EmptyDatabase /\ in_txn = FALSE
  BY DEF StoreInit
<1>2. Sound(db) /\ Later(db, db)
  BY <1>1, EmptyIsSound, LaterReflexive
<1>3. Tables
  BY <1>1, <1>2 DEF Tables
<1>4. ThreadTypes
  BY DEF StoreInit, ThreadTypes
<1> QED
  BY <1>3, <1>4 DEF StoreInv

------------------------------------------------------------------------------
(* The extractor *)

Busy == {"chat", "store", "watermark"}

WorkerInv ==
  /\ worker \in WorkerStates
  /\ job \in Convs \cup {NoConversation}
  /\ job = NoConversation <=> worker \in {"off", "catchup", "wait"}
  /\ ~up => worker = "off"
  /\ batch # {} <=> worker \in Busy
  /\ batch \subseteq 1..db.last /\ extracted \subseteq 1..db.last
  /\ watermark \in [Convs -> 0..db.last]
  /\ worker = "watermark" => batch \subseteq extracted
  /\ enable \in BOOLEAN /\ up \in BOOLEAN /\ stop \in BOOLEAN
  /\ slipped \in BOOLEAN

QueueInv == QueuedOnce /\ queue \in Seq(Convs) /\ queued \subseteq Convs

\* What WatermarkIsHonest will say of the batch when the watermark is set.
BatchIsHonest ==
  worker \in Busy =>
    \A i \in DOMAIN db.rows :
      /\ db.rows[i].conv = job /\ db.rows[i].active
      /\ IsDialogue(db.rows[i].msg) /\ i <= Max(batch)
      => i \in extracted \cup batch \/ Capped(i)

HonestInv == WatermarkIsHonest /\ BatchIsHonest

\* Facts are stored of nothing but what is behind a watermark or in the batch
\* whose watermark comes next.
OnceInv ==
  /\ \A i \in batch \cap DOMAIN db.rows : db.rows[i].conv = job
  /\ ~slipped =>
       /\ \A i \in batch : i > watermark[job]
       /\ worker \in {"chat", "store"} => batch \cap extracted = {}
       /\ \A i \in extracted \cap DOMAIN db.rows :
            i <= watermark[db.rows[i].conv] \/ (worker = "watermark" /\ i \in batch)

LEMMA NextKeepsStore ==
  ASSUME StoreInv, Next
  PROVE  StoreInv' /\ Later(db, db')
<1>1. Tables /\ ThreadTypes
  BY DEF StoreInv
<1>2. ASSUME UNCHANGED <<store, importing, used>>,
             ui' \in {ui, "left"},
             session' \in Convs \cup {NoConversation}, faults' \in Nat
      PROVE  StoreInv' /\ Later(db, db')
  <2>1. Tables' /\ Later(db, db')
    BY <1>1, <1>2, UnchangedTables
  <2>2. ThreadTypes'
    BY <1>1, <1>2 DEF ThreadTypes
  <2> QED BY <2>1, <2>2 DEF StoreInv
<1>3. CASE StoreNext
  BY <1>3, AgentNextKeeps, ImportNextKeeps DEF StoreNext
<1>4. CASE WorkerNext
  <2>1. UNCHANGED <<store, calls, session, used>> /\ faults' \in {faults, faults + 1}
    BY <1>4, Zenon DEF WorkerNext, StartupCatchUp, TakeJob, WorkerEnds, Load,
       LoadCutShort, LoadFromStart, ProcessFails, ProviderAnswers, FactsStored,
       SetWatermark, WatermarkNotSet, Fault, storeVars
  <2> QED BY <1>1, <1>2, <2>1 DEF ThreadTypes, calls
<1>5. CASE SessionNext
  <2>1. CASE StartNewSession
    BY <1>1, <1>2, <2>1 DEF StartNewSession, calls, ThreadTypes
  <2>2. ASSUME NEW c \in Convs, ResumeSession(c) PROVE StoreInv' /\ Later(db, db')
    BY <1>1, <1>2, <2>2 DEF ResumeSession, calls, ThreadTypes
  <2>3. CASE Leave
    BY <1>1, <1>2, <2>3 DEF Leave, ThreadTypes
  <2>4. CASE Shutdown
    BY <1>1, <1>2, <2>4 DEF Shutdown, storeVars, calls, ThreadTypes
  <2> QED BY <1>5, <2>1, <2>2, <2>3, <2>4 DEF SessionNext
<1>6. CASE WorkerJoined \/ Crash
  <2>1. StoreClosed /\ faults' \in Nat
    BY <1>1, <1>6 DEF WorkerJoined, Crash, Ended, Fault, ThreadTypes
  <2> QED BY <2>1, ClosingKeeps
<1>7. CASE StartProcess
  BY <1>1, <1>2, <1>7 DEF StartProcess, storeVars, calls, ThreadTypes
<1> QED
  BY <1>3, <1>4, <1>5, <1>6, <1>7 DEF Next

------------------------------------------------------------------------------
(* The queue *)

HoldsOnce(s) == \A i, j \in 1..Len(s) : i # j => s[i] # s[j]

LEMMA ConcatHoldsOnce ==
  ASSUME NEW S, NEW s \in Seq(S), NEW t \in Seq(S),
         HoldsOnce(s), HoldsOnce(t), Range(s) \cap Range(t) = {}
  PROVE  /\ s \o t \in Seq(S) /\ HoldsOnce(s \o t)
         /\ Range(s \o t) = Range(s) \cup Range(t)
<1> SUFFICES ASSUME NEW u, u = s \o t
             PROVE  u \in Seq(S) /\ HoldsOnce(u) /\ Range(u) = Range(s) \cup Range(t)
  OBVIOUS
<1>1. /\ u \in Seq(S) /\ Len(u) = Len(s) + Len(t)
      /\ \A i \in 1..Len(s) + Len(t) :
           u[i] = IF i <= Len(s) THEN s[i] ELSE t[i - Len(s)]
  BY ConcatProperties
<1>2. Len(s) \in Nat /\ Len(t) \in Nat
  BY LenProperties
<1>3. DOMAIN s = 1..Len(s) /\ DOMAIN t = 1..Len(t) /\ DOMAIN u = 1..Len(u)
  BY <1>1, LenProperties
<1>4. \A i \in 1..Len(s) : s[i] \in Range(s)
  BY <1>3 DEF Range
<1>5. \A i \in 1..Len(t) : t[i] \in Range(t)
  BY <1>3 DEF Range
<1>6. \A i \in 1..Len(u) : \/ i \in 1..Len(s) /\ u[i] = s[i]
                           \/ i - Len(s) \in 1..Len(t) /\ u[i] = t[i - Len(s)]
  BY <1>1, <1>2
<1>7. HoldsOnce(u)
  <2> SUFFICES ASSUME NEW i \in 1..Len(u), NEW j \in 1..Len(u), i # j, u[i] = u[j]
               PROVE  FALSE
    BY DEF HoldsOnce
  <2>1. CASE i \in 1..Len(s) /\ u[i] = s[i] /\ j \in 1..Len(s) /\ u[j] = s[j]
    BY <2>1 DEF HoldsOnce
  <2>2. CASE /\ i - Len(s) \in 1..Len(t) /\ u[i] = t[i - Len(s)]
             /\ j - Len(s) \in 1..Len(t) /\ u[j] = t[j - Len(s)]
    <3>1. i - Len(s) # j - Len(s)
      BY <1>1, <1>2
    <3> QED BY <2>2, <3>1 DEF HoldsOnce
  <2>3. CASE /\ i \in 1..Len(s) /\ u[i] = s[i]
             /\ j - Len(s) \in 1..Len(t) /\ u[j] = t[j - Len(s)]
    BY <1>4, <1>5, <2>3
  <2>4. CASE /\ j \in 1..Len(s) /\ u[j] = s[j]
             /\ i - Len(s) \in 1..Len(t) /\ u[i] = t[i - Len(s)]
    BY <1>4, <1>5, <2>4
  <2> QED BY <1>6, <2>1, <2>2, <2>3, <2>4
<1>8. \A i \in 1..Len(u) : u[i] \in Range(s) \cup Range(t)
  BY <1>4, <1>5, <1>6
<1>9. \A i \in 1..Len(s) : i \in 1..Len(u) /\ u[i] = s[i]
  BY <1>1, <1>2
<1>10. \A i \in 1..Len(t) : i + Len(s) \in 1..Len(u) /\ u[i + Len(s)] = t[i]
  <2> TAKE i \in 1..Len(t)
  <2>1. i + Len(s) \in 1..Len(u) /\ ~(i + Len(s) <= Len(s)) /\ i + Len(s) - Len(s) = i
    BY <1>1, <1>2
  <2> QED BY <1>1, <2>1
<1>11. Range(u) = Range(s) \cup Range(t)
  <2>1. \A x \in Range(u) : x \in Range(s) \cup Range(t)
    BY <1>3, <1>8 DEF Range
  <2>2. \A i \in 1..Len(s) : s[i] \in Range(u)
    BY <1>3, <1>9 DEF Range
  <2>3. \A i \in 1..Len(t) : t[i] \in Range(u)
    BY <1>3, <1>10 DEF Range
  <2>4. \A x \in Range(s) : x \in Range(u)
    BY <1>3, <2>2 DEF Range
  <2>5. \A x \in Range(t) : x \in Range(u)
    BY <1>3, <2>3 DEF Range
  <2> QED BY <2>1, <2>4, <2>5
<1> QED
  BY <1>1, <1>7, <1>11

LEMMA AppendHoldsOnce ==
  ASSUME NEW S, NEW s \in Seq(S), NEW x \in S, HoldsOnce(s), x \notin Range(s)
  PROVE  /\ Append(s, x) \in Seq(S) /\ HoldsOnce(Append(s, x))
         /\ Range(Append(s, x)) = Range(s) \cup {x}
<1>1. <<x>> \in Seq(S) /\ HoldsOnce(<<x>>)
  BY DEF HoldsOnce
<1>2. Range(<<x>>) = {x}
  <2> SUFFICES ASSUME NEW t, t = <<x>> PROVE Range(t) = {x}
    OBVIOUS
  <2>1. DOMAIN t = {1} /\ t[1] = x
    OBVIOUS
  <2> QED BY <2>1 DEF Range
<1>3. Append(s, x) = s \o <<x>>
  BY AppendIsConcat
<1>4. Range(s) \cap Range(<<x>>) = {}
  BY <1>2
<1>5. /\ s \o <<x>> \in Seq(S) /\ HoldsOnce(s \o <<x>>)
      /\ Range(s \o <<x>>) = Range(s) \cup Range(<<x>>)
  <2> SUFFICES ASSUME NEW one \in Seq(S), HoldsOnce(one), Range(s) \cap Range(one) = {}
               PROVE  /\ s \o one \in Seq(S) /\ HoldsOnce(s \o one)
                      /\ Range(s \o one) = Range(s) \cup Range(one)
    BY <1>1, <1>4, Zenon
  <2> QED
    BY ConcatHoldsOnce
<1> QED
  BY <1>2, <1>3, <1>5

LEMMA TailHoldsOnce ==
  ASSUME NEW S, NEW s \in Seq(S), s # << >>, HoldsOnce(s)
  PROVE  /\ Head(s) \in S /\ Tail(s) \in Seq(S) /\ HoldsOnce(Tail(s))
         /\ Head(s) \notin Range(Tail(s)) /\ Range(s) = Range(Tail(s)) \cup {Head(s)}
<1> SUFFICES ASSUME NEW t, t = Tail(s), NEW h, h = Head(s)
             PROVE  /\ h \in S /\ t \in Seq(S) /\ HoldsOnce(t)
                    /\ h \notin Range(t) /\ Range(s) = Range(t) \cup {h}
  OBVIOUS
<1>1. /\ h \in S /\ t \in Seq(S) /\ Len(t) = Len(s) - 1
      /\ \A i \in 1..Len(t) : t[i] = s[i + 1]
  BY HeadTailProperties
<1>2. Len(s) \in Nat /\ Len(s) >= 1 /\ h = s[1]
  BY LenProperties, EmptySeq
<1>3. DOMAIN s = 1..Len(s) /\ DOMAIN t = 1..Len(t)
  BY <1>1, LenProperties
<1>4. HoldsOnce(t)
  <2> SUFFICES ASSUME NEW i \in 1..Len(t), NEW j \in 1..Len(t), i # j
               PROVE  t[i] # t[j]
    BY DEF HoldsOnce
  <2>1. i + 1 \in 1..Len(s) /\ j + 1 \in 1..Len(s) /\ i + 1 # j + 1
    BY <1>1, <1>2
  <2> QED BY <1>1, <2>1 DEF HoldsOnce
<1>5. \A i \in 1..Len(t) : t[i] # h /\ i + 1 \in 1..Len(s) /\ t[i] = s[i + 1]
  <2> TAKE i \in 1..Len(t)
  <2>1. i + 1 \in 1..Len(s) /\ 1 \in 1..Len(s) /\ i + 1 # 1
    BY <1>1, <1>2
  <2> QED BY <1>1, <1>2, <2>1 DEF HoldsOnce
<1>6. \A i \in 1..Len(s) : i = 1 \/ (i - 1 \in 1..Len(t) /\ t[i - 1] = s[i])
  <2> TAKE i \in 1..Len(s)
  <2>1. i = 1 \/ (i - 1 \in 1..Len(t) /\ i - 1 + 1 = i)
    BY <1>1, <1>2
  <2> QED BY <1>1, <2>1
<1>7. 1 \in 1..Len(s)
  BY <1>2
<1>8. h \notin Range(t)
  BY <1>3, <1>5 DEF Range
<1>9. Range(s) = Range(t) \cup {h}
  <2>1. h \in Range(s)
    BY <1>2, <1>3, <1>7 DEF Range
  <2>2. \A i \in 1..Len(t) : t[i] \in Range(s) /\ t[i] \in Range(t)
    BY <1>3, <1>5 DEF Range
  <2>3. \A x \in Range(t) : x \in Range(s)
    BY <1>3, <2>2 DEF Range
  <2>4. \A i \in 1..Len(s) : s[i] \in Range(t) \cup {h}
    BY <1>2, <1>6, <2>2
  <2>5. \A x \in Range(s) : x \in Range(t) \cup {h}
    BY <1>3, <2>4 DEF Range
  <2> QED BY <2>1, <2>3, <2>5
<1> QED
  BY <1>1, <1>4, <1>8, <1>9

LEMMA OrdersOfASet ==
  ASSUME NEW S, Cardinality(S) \in Nat, NEW order \in SetToSeqs(S)
  PROVE  order \in Seq(S) /\ HoldsOnce(order)
<1> DEFINE n == Cardinality(S)
<1>1. order \in [1..n -> S] /\ \A i, j \in 1..n : i # j => order[i] # order[j]
  BY DEF SetToSeqs
<1> HIDE DEF n
<1>2. n \in Nat
  BY DEF n
<1>3. order \in Seq(S)
  BY <1>1, <1>2, SeqDef
<1>4. Len(order) = n
  BY <1>1, <1>2
<1> QED
  BY <1>1, <1>3, <1>4 DEF HoldsOnce

LEMMA EnqueueKeepsQueue ==
  ASSUME QueueInv, NEW c \in Convs \cup {NoConversation}, Enqueue(c), job' = job
  PROVE  QueueInv'
<1>1. /\ queue \in Seq(Convs) /\ queued \subseteq Convs /\ HoldsOnce(queue)
      /\ queued = Range(queue) \cup ({job} \ {NoConversation}) /\ job \notin Range(queue)
  BY DEF QueueInv, QueuedOnce, HoldsOnce
<1>2. CASE Ignored(c)
  BY <1>1, <1>2 DEF Enqueue, QueueInv, QueuedOnce, HoldsOnce
<1>3. CASE ~Ignored(c)
  <2>1. c \in Convs /\ c # NoConversation /\ c \notin queued
    BY <1>3 DEF Ignored
  <2>2. queue' = Append(queue, c) /\ queued' = queued \cup {c}
    BY <1>3 DEF Enqueue
  <2>3. c \notin Range(queue) /\ c # job
    BY <1>1, <2>1
  <2>4. queue' \in Seq(Convs) /\ HoldsOnce(queue') /\ Range(queue') = Range(queue) \cup {c}
    BY <1>1, <2>1, <2>2, <2>3, AppendHoldsOnce
  <2>5. queued' = Range(queue') \cup ({job'} \ {NoConversation})
    BY <1>1, <2>2, <2>4
  <2>6. job' \notin Range(queue') /\ queued' \subseteq Convs
    BY <1>1, <2>1, <2>2, <2>3, <2>4
  <2> QED BY <2>4, <2>5, <2>6 DEF QueueInv, QueuedOnce, HoldsOnce
<1> QED
  BY <1>2, <1>3

------------------------------------------------------------------------------
(* Reading a batch *)

LEMMA BatchRows ==
  ASSUME NEW c, NEW from, NEW i \in Batch(c, from)
  PROVE  /\ i \in DOMAIN db.rows /\ db.rows[i].conv = c
         /\ db.rows[i].active /\ i > from
         /\ i \in Newest(c, from)
BY DEF Batch, Newest, Unread, RowsOf

\* A batch, or the first rows of one.
ReadsOf(rows, from) ==
  /\ rows \subseteq Batch(job, from)
  /\ \A i \in Batch(job, from), j \in rows : i < j => i \in rows

\* What the three ways to load have in common.
Loading(rows, from) ==
  /\ LoadRows(rows) /\ ReadsOf(rows, from)
  /\ UNCHANGED <<db, enable, watermark, extracted>>
  /\ \/ from = watermark[job] /\ slipped' = slipped
     \/ from = 0 /\ slipped' = TRUE

LEMMA LoadsAreLoading ==
  ASSUME StoreInv, Load \/ LoadCutShort \/ LoadFromStart
  PROVE  \E rows, from : Loading(rows, from)
<1>1. \A from : \A i \in Batch(job, from) : i \in Nat
  BY BatchRows, RowTypes DEF StoreInv, Tables, Sound
<1>2. \A from : ReadsOf(Batch(job, from), from)
  BY DEF ReadsOf
<1>3. CASE Load
  <2>1. Loading(Batch(job, watermark[job]), watermark[job])
    BY <1>2, <1>3 DEF Load, Loading, storeVars, store, memory
  <2> QED BY <2>1
<1>4. CASE LoadCutShort
  <2> DEFINE all == Batch(job, watermark[job])
  <2>1. PICK end \in all : LoadRows({i \in all : i < end})
    BY <1>4 DEF LoadCutShort
  <2>2. UNCHANGED <<db, memory>>
    BY <1>4 DEF LoadCutShort, store
  <2>3. ReadsOf({i \in all : i < end}, watermark[job])
    <3>1. \A i \in all : i \in Nat
      BY <1>1
    <3> HIDE DEF all
    <3>2. \A i \in all, j \in {k \in all : k < end} : i < j => i \in {k \in all : k < end}
      BY <3>1, <2>1
    <3> QED BY <3>2 DEF ReadsOf, all
  <2> HIDE DEF all
  <2>4. Loading({i \in all : i < end}, watermark[job])
    BY <2>1, <2>2, <2>3 DEF Loading, memory
  <2> QED BY <2>4
<1>5. CASE LoadFromStart
  <2>1. Loading(Batch(job, 0), 0)
    BY <1>2, <1>5 DEF LoadFromStart, Loading, store
  <2> QED BY <2>1
<1> QED
  BY <1>3, <1>4, <1>5

------------------------------------------------------------------------------
(* The worker *)

LEMMA FinishKeepsWorker ==
  ASSUME WorkerInv, Finish, db'.last \in Nat, db.last \in Nat, db.last <= db'.last,
         extracted' = extracted, watermark' \in [Convs -> 0..db'.last],
         enable' = enable, slipped' \in BOOLEAN, worker \in {"load", "chat", "watermark"}
  PROVE  WorkerInv'
<1>1. worker' = "wait" /\ job' = NoConversation /\ batch' = {}
      /\ up' = up /\ stop' = stop
  BY DEF Finish
<1>2. extracted' \subseteq 1..db'.last
  BY DEF WorkerInv
<1> QED
  BY <1>1, <1>2 DEF WorkerInv, WorkerStates, Busy

LEMMA NextKeepsWorker ==
  ASSUME StoreInv, WorkerInv, QueueInv, Next
  PROVE  WorkerInv'
<1>1. StoreInv' /\ Later(db, db')
  BY NextKeepsStore
<1>2. db.last \in Nat /\ db'.last \in Nat /\ db.last <= db'.last
      /\ session \in Convs \cup {NoConversation}
  BY <1>1 DEF StoreInv, Tables, ThreadTypes, Sound, IsDatabase, Later
<1>3. /\ batch \subseteq 1..db'.last /\ extracted \subseteq 1..db'.last
      /\ watermark \in [Convs -> 0..db'.last]
  BY <1>2 DEF WorkerInv
<1>4. NoConversation \notin Convs
  BY BoundsAreNaturals DEF Convs
<1>5. ASSUME UNCHANGED <<process, memory, up>>, stop' \in BOOLEAN
      PROVE  WorkerInv'
  BY <1>3, <1>5 DEF WorkerInv, process, memory
<1>6. CASE StoreNext
  BY <1>5, <1>6 DEF StoreNext, shared, WorkerInv
<1>7. CASE SessionNext
  BY <1>5, <1>7, Zenon DEF SessionNext, StartNewSession, ResumeSession, Leave, Shutdown,
     WorkerInv
<1>8. CASE StartupCatchUp
  BY <1>3, <1>4, <1>8 DEF StartupCatchUp, WorkerInv, memory, WorkerStates, Busy
<1>9. CASE TakeJob
  <2>1. Head(queue) \in Convs
    BY <1>9, HeadTailProperties DEF TakeJob, QueueInv
  <2> QED
    BY <1>3, <1>4, <1>9, <2>1 DEF TakeJob, WorkerInv, memory, WorkerStates, Busy
<1>10. CASE WorkerEnds
  BY <1>3, <1>10 DEF WorkerEnds, WorkerInv, memory, shared, WorkerStates, Busy
<1>11. CASE Load \/ LoadCutShort \/ LoadFromStart
  <2>1. PICK rows, from : Loading(rows, from)
    BY <1>11, LoadsAreLoading
  <2>2. rows \subseteq 1..db.last
    BY <2>1, BatchRows, RowTypes DEF Loading, ReadsOf, StoreInv, Tables, Sound
  <2>3. slipped' \in BOOLEAN /\ worker = "load"
    BY <2>1 DEF Loading, LoadRows, WorkerInv
  <2>4. CASE HasUser(rows)
    <3>1. batch' = rows /\ worker' = "chat" /\ UNCHANGED <<up, stop, job>> /\ rows # {}
      BY <2>1, <2>4 DEF Loading, LoadRows, HasUser, shared
    <3> QED
      BY <1>2, <1>3, <2>1, <2>2, <2>3, <3>1 DEF WorkerInv, Loading, WorkerStates, Busy
  <2>5. CASE ~HasUser(rows)
    BY <1>2, <1>3, <2>1, <2>3, <2>5, FinishKeepsWorker DEF Loading, LoadRows
  <2> QED BY <2>4, <2>5
<1>12. CASE ProcessFails
  BY <1>2, <1>3, <1>12, FinishKeepsWorker DEF ProcessFails, memory, WorkerInv
<1>13. CASE ProviderAnswers
  BY <1>3, <1>13 DEF ProviderAnswers, WorkerInv, memory, shared, WorkerStates, Busy
<1>14. CASE FactsStored
  BY <1>3, <1>14 DEF FactsStored, WorkerInv, shared, WorkerStates, Busy
<1>15. CASE SetWatermark
  <2>1. worker = "watermark" /\ Finish /\ UNCHANGED <<enable, extracted, slipped>>
        /\ watermark' = [watermark EXCEPT ![job] = Max(batch)]
    BY <1>15 DEF SetWatermark
  <2>2. batch # {} /\ batch \subseteq 0..db'.last
    BY <1>2, <1>3, <2>1 DEF WorkerInv, Busy
  <2>3. Max(batch) \in 0..db'.last
    BY <1>2, <2>2, MaxOfNaturals
  <2>4. watermark' \in [Convs -> 0..db'.last]
    BY <1>3, <2>1, <2>3
  <2> QED BY <1>2, <2>1, <2>4, FinishKeepsWorker DEF WorkerInv
<1>16. CASE WatermarkNotSet
  BY <1>2, <1>3, <1>16, FinishKeepsWorker DEF WatermarkNotSet
<1>17. CASE WorkerJoined \/ Crash
  <2>1. Ended /\ slipped' \in BOOLEAN
    BY <1>17 DEF WorkerJoined, Crash, WorkerInv
  <2> QED BY <1>3, <1>4, <2>1 DEF Ended, WorkerInv, WorkerStates, Busy
<1>18. CASE StartProcess
  BY <1>3, <1>18 DEF StartProcess, WorkerInv, memory, shared, WorkerStates, Busy
<1> QED
  BY <1>6, <1>7, <1>8, <1>9, <1>10, <1>11, <1>12, <1>13, <1>14, <1>15, <1>16,
     <1>17, <1>18 DEF Next, WorkerNext

LEMMA NextKeepsQueue ==
  ASSUME StoreInv, WorkerInv, QueueInv, Next
  PROVE  QueueInv'
<1>1. /\ queue \in Seq(Convs) /\ queued \subseteq Convs /\ HoldsOnce(queue)
      /\ queued = Range(queue) \cup ({job} \ {NoConversation}) /\ job \notin Range(queue)
  BY DEF QueueInv, QueuedOnce, HoldsOnce
<1>2. NoConversation \notin Convs /\ session \in Convs \cup {NoConversation}
  BY BoundsAreNaturals DEF Convs, StoreInv, ThreadTypes
<1>3. ASSUME UNCHANGED <<queue, queued, job>> PROVE QueueInv'
  BY <1>3 DEF QueueInv, QueuedOnce
<1>4. \A c \in Range(queue) : c \in Convs
  BY <1>1, ElementOfSeq, LenProperties DEF Range
<1>5. ASSUME Finish PROVE QueueInv'
  <2>1. queue' = queue /\ queued' = queued \ {job} /\ job' = NoConversation
    BY <1>5 DEF Finish
  <2>2. queued' = Range(queue')
    BY <1>1, <1>2, <1>4, <2>1
  <2>3. job' \notin Range(queue')
    BY <1>2, <1>4, <2>1
  <2> QED BY <1>1, <2>1, <2>2, <2>3 DEF QueueInv, QueuedOnce, HoldsOnce
<1>6. CASE StoreNext
  BY <1>3, <1>6 DEF StoreNext, shared, process
<1>7. CASE SessionNext
  BY <1>2, <1>7, EnqueueKeepsQueue DEF SessionNext, StartNewSession, ResumeSession,
     Leave, Shutdown, process
<1>8. CASE StartupCatchUp
  <2>1. CASE UNCHANGED <<queue, queued>>
    BY <1>3, <1>8, <2>1 DEF StartupCatchUp
  <2>2. CASE ~UNCHANGED <<queue, queued>>
    <3> DEFINE found == {c \in db.convs : Pending(c) /\ ~Ignored(c)}
    <3>1. PICK order \in SetToSeqs(found) :
            queue' = queue \o order /\ queued' = queued \cup Range(order)
      BY <1>8, <2>2 DEF StartupCatchUp
    <3>2. found \subseteq db.convs /\ found \cap queued = {}
      BY DEF Ignored
    <3> HIDE DEF found
    <3>3. db.convs \subseteq Convs /\ IsFiniteSet(db.convs)
      BY DEF StoreInv, Tables, Sound, IsDatabase
    <3>4. Cardinality(found) \in Nat /\ found \subseteq Convs
      BY <3>2, <3>3, FS_Subset, FS_CardinalityType
    <3>5. order \in Seq(found) /\ HoldsOnce(order)
      BY <3>1, <3>4, OrdersOfASet
    <3>6. \A c \in Range(order) : c \in found
      BY <3>5, ElementOfSeq, LenProperties DEF Range
    <3>7. order \in Seq(Convs)
      BY <3>4, <3>5, SeqMonotonic
    <3>8. Range(queue) \cap Range(order) = {} /\ job \notin Range(order)
      BY <1>1, <1>2, <1>4, <3>2, <3>4, <3>6
    <3>9. /\ queue' \in Seq(Convs) /\ HoldsOnce(queue')
          /\ Range(queue') = Range(queue) \cup Range(order)
      BY <1>1, <3>1, <3>5, <3>7, <3>8, ConcatHoldsOnce
    <3>10. job' = job
      BY <1>8 DEF StartupCatchUp
    <3>11. queued' = Range(queue') \cup ({job'} \ {NoConversation})
           /\ job' \notin Range(queue') /\ queued' \subseteq Convs
      BY <1>1, <3>1, <3>4, <3>6, <3>8, <3>9, <3>10
    <3> QED BY <3>9, <3>11 DEF QueueInv, QueuedOnce, HoldsOnce
  <2> QED BY <2>1, <2>2
<1>9. CASE TakeJob
  <2>1. queue # << >> /\ queue' = Tail(queue) /\ job' = Head(queue)
        /\ queued' = queued /\ job = NoConversation
    BY <1>9 DEF TakeJob, WorkerInv
  <2>2. /\ Head(queue) \in Convs /\ queue' \in Seq(Convs) /\ HoldsOnce(queue')
        /\ job' \notin Range(queue') /\ Range(queue) = Range(queue') \cup {job'}
    BY <1>1, <2>1, TailHoldsOnce
  <2>3. queued' = Range(queue') \cup ({job'} \ {NoConversation})
    BY <1>1, <1>2, <2>1, <2>2
  <2> QED BY <1>1, <2>1, <2>2, <2>3 DEF QueueInv, QueuedOnce, HoldsOnce
<1>10. CASE Load \/ LoadCutShort \/ LoadFromStart
  <2>1. PICK rows : LoadRows(rows)
    BY <1>10 DEF Load, LoadCutShort, LoadFromStart
  <2> QED BY <1>3, <1>5, <2>1 DEF LoadRows, shared
<1>11. CASE ProcessFails \/ SetWatermark \/ WatermarkNotSet
  BY <1>5, <1>11 DEF ProcessFails, SetWatermark, WatermarkNotSet
<1>12. CASE WorkerEnds \/ ProviderAnswers \/ FactsStored \/ StartProcess
  BY <1>3, <1>12 DEF WorkerEnds, ProviderAnswers, FactsStored, StartProcess, shared
<1>13. CASE WorkerJoined \/ Crash
  <2>1. queue' = << >> /\ queued' = {} /\ job' = NoConversation
    BY <1>13 DEF WorkerJoined, Crash, Ended
  <2>2. queue' \in Seq(Convs) /\ Len(queue') = 0 /\ Range(queue') = {}
    BY <2>1 DEF Range
  <2>3. \A i, j \in 1..Len(queue') : i # j => queue'[i] # queue'[j]
    BY <2>2
  <2> QED BY <2>1, <2>2, <2>3 DEF QueueInv, QueuedOnce
<1> QED
  BY <1>6, <1>7, <1>8, <1>9, <1>10, <1>11, <1>12, <1>13 DEF Next, WorkerNext

------------------------------------------------------------------------------
(* What a watermark vouches for *)

LEMMA CappedLasts ==
  ASSUME Sound(db), Sound(db'), Later(db, db'),
         NEW i \in DOMAIN db'.rows, i <= db.last, Capped(i)
  PROVE  Capped(i)'
<1> DEFINE Newer(d) == {j \in RowsOf(d.rows, d.rows[i].conv) :
                          j > i /\ IsDialogue(d.rows[j].msg)}
<1>1. i \in DOMAIN db.rows /\ db'.rows[i].conv = db.rows[i].conv
  BY DEF Later
<1>2. ASSUME NEW j \in Newer(db) PROVE j \in Newer(db')
  <2>1. j \in DOMAIN db.rows /\ db.rows[j].conv = db.rows[i].conv /\ j > i
        /\ IsDialogue(db.rows[j].msg)
    BY <1>2 DEF RowsOf
  <2>2. j \in DOMAIN db'.rows
    BY <1>1, <2>1, Zenon DEF Later
  <2>3. j <= db.last
    BY <2>1, RowTypes DEF Sound
  <2>4. db'.rows[j].conv = db.rows[j].conv /\ db'.rows[j].msg = db.rows[j].msg
    BY <2>2, <2>3, Zenon DEF Later
  <2> QED BY <1>1, <2>1, <2>2, <2>4 DEF RowsOf
<1>3. Newer(db) \in SUBSET Newer(db')
  BY <1>2
<1>4. Newer(db') \subseteq DOMAIN db'.rows
  BY DEF RowsOf
<1> HIDE DEF Newer
<1>5. IsFiniteSet(Newer(db'))
  BY <1>4, RowsAreFinite
<1>6. /\ Cardinality(Newer(db)) <= Cardinality(Newer(db'))
      /\ IsFiniteSet(Newer(db))
  BY <1>3, <1>5, FS_Subset
<1>7. Cardinality(Newer(db)) \in Nat /\ Cardinality(Newer(db')) \in Nat
  BY <1>5, <1>6, FS_CardinalityType
<1>8. Cardinality(Newer(db)) >= MaxMessages
  BY DEF Capped, Newer
<1>9. Cardinality(Newer(db')) >= MaxMessages
  BY <1>6, <1>7, <1>8, LimitsAreNaturals
<1> QED
  BY <1>9 DEF Capped, Newer

\* A dialogue row the query skips has max_messages newer ones.
LEMMA SkippedIsCapped ==
  ASSUME Sound(db), NEW from, NEW i \in DOMAIN db.rows, db.rows[i].active,
         IsDialogue(db.rows[i].msg), i > from,
         i \notin Newest(db.rows[i].conv, from)
  PROVE  Capped(i)
<1> DEFINE c == db.rows[i].conv
           unread == {j \in Unread(c, from) : j > i}
           newer == {j \in RowsOf(db.rows, c) : j > i /\ IsDialogue(db.rows[j].msg)}
<1>1. i \in Unread(c, from)
  BY DEF Unread, RowsOf
<1>2. ~(Cardinality(unread) < MaxMessages)
  BY <1>1 DEF Newest
<1>3. unread \in SUBSET newer
  BY DEF Unread
<1>4. newer \subseteq DOMAIN db.rows
  BY DEF RowsOf
<1> HIDE DEF newer, unread
<1>5. IsFiniteSet(newer)
  BY <1>4, RowsAreFinite
<1>6. Cardinality(unread) <= Cardinality(newer) /\ IsFiniteSet(unread)
  BY <1>3, <1>5, FS_Subset
<1>7. Cardinality(unread) \in Nat /\ Cardinality(newer) \in Nat
  BY <1>5, <1>6, FS_CardinalityType
<1>8. Cardinality(newer) >= MaxMessages
  BY <1>2, <1>6, <1>7, LimitsAreNaturals
<1> QED
  BY <1>8 DEF Capped, newer

LEMMA ReadBatchIsHonest ==
  ASSUME StoreInv, WorkerInv, WatermarkIsHonest, worker = "load",
         NEW rows, NEW from, Loading(rows, from), rows # {},
         NEW i \in DOMAIN db.rows,
         db.rows[i].conv = job, db.rows[i].active,
         IsDialogue(db.rows[i].msg), i <= Max(rows)
  PROVE  i \in extracted \cup rows \/ Capped(i)
<1>1. Sound(db) /\ db.last \in Nat
  BY DEF StoreInv, Tables, Sound, IsDatabase
<1>2. \A j \in DOMAIN db.rows : j \in Nat /\ j >= 1 /\ j <= db.last
  BY <1>1, RowTypes DEF Sound
<1>3. \A j \in rows : j \in Batch(job, from) /\ j \in DOMAIN db.rows
  BY BatchRows DEF Loading, ReadsOf
<1>4. rows \subseteq 0..db.last
  BY <1>1, <1>2, <1>3
<1>5. Max(rows) \in rows
  BY <1>1, <1>4, MaxOfNaturals
<1>6. CASE from = watermark[job] /\ i <= from
  BY <1>6 DEF WatermarkIsHonest
<1>7. CASE from = 0 /\ i <= from
  BY <1>2, <1>7
<1>8. CASE i > from /\ i \notin Newest(job, from)
  BY <1>1, <1>8, SkippedIsCapped
<1>9. CASE i \in Newest(job, from)
  <2>1. ASSUME NEW j \in Newest(job, from), j < i PROVE ~Exhausts(job, from, j)
    <3>1. j \in DOMAIN db.rows
      BY DEF Newest, Unread, RowsOf
    <3>2. j < Max(rows)
      BY <1>2, <1>3, <1>5, <2>1, <3>1
    <3> QED BY <1>3, <1>5, <3>2 DEF Batch
  <2>2. i \in Batch(job, from)
    BY <1>9, <2>1 DEF Batch
  <2>3. i < Max(rows) \/ i = Max(rows)
    BY <1>2, <1>3, <1>5
  <2>4. i \in rows
    BY <1>5, <2>2, <2>3 DEF Loading, ReadsOf
  <2> QED BY <2>4
<1>10. from \in Nat /\ (from = 0 \/ from = watermark[job])
  <2>1. watermark[job] \in Nat
    BY <1>1 DEF WorkerInv
  <2> QED BY <2>1 DEF Loading
<1> QED
  BY <1>2, <1>6, <1>7, <1>8, <1>9, <1>10

LEMMA HonestyLasts ==
  ASSUME StoreInv, StoreInv', Later(db, db'), WorkerInv, HonestInv,
         extracted \subseteq extracted'
  PROVE  /\ watermark' = watermark => WatermarkIsHonest'
         /\ job' = job /\ batch' = batch /\ (worker' \in Busy => worker \in Busy)
              => BatchIsHonest'
<1>1. Sound(db) /\ Sound(db') /\ db.last \in Nat
  BY DEF StoreInv, Tables, Sound, IsDatabase
<1>2. ASSUME NEW i \in DOMAIN db'.rows, i <= db.last
      PROVE  /\ i \in DOMAIN db.rows
             /\ db'.rows[i].conv = db.rows[i].conv /\ db'.rows[i].msg = db.rows[i].msg
             /\ db'.rows[i].active => db.rows[i].active
             /\ db.rows[i].conv \in Convs /\ i \in Nat
  <2>1. /\ i \in DOMAIN db.rows
        /\ db'.rows[i].conv = db.rows[i].conv /\ db'.rows[i].msg = db.rows[i].msg
        /\ db'.rows[i].active => db.rows[i].active
    BY <1>2, Zenon DEF Later
  <2> QED BY <2>1, <1>1, RowTypes DEF Sound
<1>3. \A i \in DOMAIN db'.rows : i \in Nat /\ db'.rows[i].conv \in Convs
  BY <1>1, RowTypes DEF Sound
<1>4. ASSUME watermark' = watermark PROVE WatermarkIsHonest'
  <2> SUFFICES ASSUME NEW i \in DOMAIN db'.rows, db'.rows[i].active,
                      IsDialogue(db'.rows[i].msg), i <= watermark[db'.rows[i].conv]
               PROVE  i \in extracted' \/ Capped(i)'
    BY <1>4 DEF WatermarkIsHonest
  <2>1. watermark[db'.rows[i].conv] \in 0..db.last
    BY <1>3 DEF WorkerInv
  <2>2. i <= db.last
    BY <1>1, <1>3, <2>1
  <2>3. i \in extracted \/ Capped(i)
    BY <1>2, <2>2 DEF HonestInv, WatermarkIsHonest
  <2> QED BY <1>1, <2>2, <2>3, CappedLasts
<1>5. ASSUME job' = job, batch' = batch, worker' \in Busy => worker \in Busy
      PROVE  BatchIsHonest'
  <2> SUFFICES ASSUME worker' \in Busy,
                      NEW i \in DOMAIN db'.rows, db'.rows[i].conv = job,
                      db'.rows[i].active, IsDialogue(db'.rows[i].msg), i <= Max(batch)
               PROVE  i \in extracted' \cup batch \/ Capped(i)'
    BY <1>5 DEF BatchIsHonest
  <2>1. worker \in Busy /\ batch \subseteq 0..db.last /\ batch # {}
    BY <1>1, <1>5 DEF WorkerInv
  <2>2. Max(batch) \in 0..db.last
    BY <1>1, <2>1, MaxOfNaturals
  <2>3. i <= db.last
    BY <1>1, <1>3, <2>2
  <2>4. i \in extracted \cup batch \/ Capped(i)
    BY <1>2, <2>1, <2>3 DEF HonestInv, BatchIsHonest
  <2> QED BY <1>1, <2>3, <2>4, CappedLasts
<1> QED
  BY <1>4, <1>5

LEMMA NextKeepsHonest ==
  ASSUME StoreInv, WorkerInv, HonestInv, Next
  PROVE  HonestInv'
<1>1. StoreInv' /\ Later(db, db')
  BY NextKeepsStore
<1>2. ASSUME watermark' = watermark, extracted' = extracted, worker' \notin Busy
      PROVE  HonestInv'
  BY <1>1, <1>2, HonestyLasts DEF HonestInv, BatchIsHonest
<1>3. ASSUME watermark' = watermark, extracted \subseteq extracted',
             job' = job, batch' = batch, worker' \in Busy => worker \in Busy
      PROVE  HonestInv'
  BY <1>1, <1>3, HonestyLasts DEF HonestInv
<1>4. CASE StoreNext \/ SessionNext
  <2>1. UNCHANGED <<process, memory>>
    BY <1>4, Zenon DEF StoreNext, SessionNext, StartNewSession, ResumeSession, Leave, Shutdown
  <2> QED BY <1>3, <2>1 DEF process, memory
<1>5. CASE StartupCatchUp \/ TakeJob \/ WorkerEnds \/ ProcessFails \/ WatermarkNotSet
           \/ WorkerJoined \/ Crash \/ StartProcess
  <2>1. UNCHANGED <<watermark, extracted>>
    BY <1>5, Zenon DEF StartupCatchUp, TakeJob, WorkerEnds, ProcessFails, WatermarkNotSet,
       WorkerJoined, Crash, Ended, StartProcess, memory
  <2>2. worker' \in {"wait", "load", "off", "catchup"}
    BY <1>5 DEF StartupCatchUp, TakeJob, WorkerEnds, ProcessFails, WatermarkNotSet,
       WorkerJoined, Crash, Ended, StartProcess, Finish
  <2> QED BY <1>2, <2>1, <2>2 DEF Busy
<1>6. CASE Load \/ LoadCutShort \/ LoadFromStart
  <2>1. PICK rows, from : Loading(rows, from)
    BY <1>6, LoadsAreLoading
  <2>2. UNCHANGED <<db, watermark, extracted>> /\ worker = "load"
    BY <2>1 DEF Loading, LoadRows
  <2>3. CASE HasUser(rows)
    <3>1. batch' = rows /\ job' = job /\ rows # {}
      BY <2>1, <2>3 DEF Loading, LoadRows, HasUser
    <3>2. \A i \in DOMAIN db.rows :
            /\ db.rows[i].conv = job /\ db.rows[i].active
            /\ IsDialogue(db.rows[i].msg) /\ i <= Max(rows)
            => i \in extracted \cup rows \/ Capped(i)
      BY <2>1, <2>2, <3>1, ReadBatchIsHonest DEF HonestInv
    <3>3. BatchIsHonest'
      BY <2>2, <3>1, <3>2 DEF BatchIsHonest, Capped
    <3> QED BY <1>1, <2>2, <3>3, HonestyLasts DEF HonestInv
  <2>4. CASE ~HasUser(rows)
    <3>1. worker' = "wait"
      BY <2>1, <2>4 DEF Loading, LoadRows, Finish
    <3> QED BY <1>2, <2>2, <3>1 DEF Busy
  <2> QED BY <2>3, <2>4
<1>7. CASE ProviderAnswers \/ FactsStored
  BY <1>3, <1>7 DEF ProviderAnswers, FactsStored, memory, shared, Busy
<1>8. CASE SetWatermark
  <2>1. /\ worker = "watermark" /\ worker' = "wait" /\ UNCHANGED <<db, extracted>>
        /\ watermark' = [watermark EXCEPT ![job] = Max(batch)]
    BY <1>8 DEF SetWatermark, Finish, storeVars, store
  <2>2. batch \subseteq extracted /\ watermark \in [Convs -> 0..db.last]
    BY <2>1 DEF WorkerInv
  <2>3. ASSUME NEW i \in DOMAIN db.rows, db.rows[i].active, IsDialogue(db.rows[i].msg),
               i <= watermark'[db.rows[i].conv]
        PROVE  i \in extracted \/ Capped(i)
    <3>1. db.rows[i].conv \in Convs
      BY RowTypes DEF StoreInv, Tables, Sound
    <3>2. CASE db.rows[i].conv = job
      BY <2>1, <2>2, <2>3, <3>1, <3>2 DEF HonestInv, BatchIsHonest, Busy
    <3>3. CASE db.rows[i].conv # job
      BY <2>1, <2>2, <2>3, <3>1, <3>3 DEF HonestInv, WatermarkIsHonest
    <3> QED BY <3>2, <3>3
  <2>4. WatermarkIsHonest'
    BY <2>1, <2>3 DEF WatermarkIsHonest, Capped
  <2> QED BY <2>1, <2>4 DEF HonestInv, BatchIsHonest, Busy
<1> QED
  BY <1>4, <1>5, <1>6, <1>7, <1>8 DEF Next, WorkerNext

------------------------------------------------------------------------------
(* Rows are read once *)

LEMMA NextKeepsOnce ==
  ASSUME StoreInv, WorkerInv, OnceInv, Next
  PROVE  OnceInv'
<1>1. StoreInv' /\ Later(db, db')
  BY NextKeepsStore
<1>2. Sound(db) /\ Sound(db') /\ db.last \in Nat
  BY <1>1 DEF StoreInv, Tables, Sound, IsDatabase
<1>3. ASSUME NEW i \in DOMAIN db'.rows, i <= db.last
      PROVE  i \in DOMAIN db.rows /\ db'.rows[i].conv = db.rows[i].conv
  BY <1>1, <1>3, Zenon DEF Later
<1>4. batch \subseteq 1..db.last /\ extracted \subseteq 1..db.last
      /\ watermark \in [Convs -> 0..db.last]
  BY DEF WorkerInv
<1>5. \A i \in batch \cup extracted : i \in DOMAIN db'.rows =>
        i \in DOMAIN db.rows /\ db'.rows[i].conv = db.rows[i].conv
  <2>1. \A i \in batch \cup extracted : i <= db.last
    BY <1>2, <1>4
  <2> QED BY <1>3, <2>1
<1>6. ASSUME UNCHANGED <<worker, job, batch, watermark, extracted, slipped>>
      PROVE  OnceInv'
  BY <1>5, <1>6 DEF OnceInv
<1>7. ASSUME batch' = {}, worker' \notin Busy, UNCHANGED <<watermark, extracted>>,
             slipped \/ worker = "watermark" => slipped'
      PROVE  OnceInv'
  <2>1. /\ \A i \in batch' \cap DOMAIN db'.rows : db'.rows[i].conv = job'
        /\ \A i \in batch' : i > watermark'[job']
        /\ worker' \in {"chat", "store"} => batch' \cap extracted' = {}
    BY <1>7 DEF Busy
  <2>2. ASSUME ~slipped', NEW i \in extracted, i \in DOMAIN db'.rows
        PROVE  i <= watermark[db'.rows[i].conv]
    <3>1. ~slipped /\ worker # "watermark"
      BY <1>7, <2>2
    <3> QED BY <1>5, <2>2, <3>1 DEF OnceInv
  <2> QED BY <1>7, <2>1, <2>2 DEF OnceInv
<1>8. CASE StoreNext \/ SessionNext
  <2>1. UNCHANGED <<process, memory>>
    BY <1>8, Zenon DEF StoreNext, SessionNext, StartNewSession, ResumeSession, Leave, Shutdown
  <2> QED BY <1>6, <2>1 DEF process, memory
<1>9. CASE StartupCatchUp \/ TakeJob \/ WorkerEnds \/ StartProcess
  <2>1. batch = {} /\ batch' = batch /\ worker # "watermark" /\ worker' \notin Busy
        /\ UNCHANGED memory
    BY <1>9 DEF StartupCatchUp, TakeJob, WorkerEnds, StartProcess, WorkerInv, Busy
  <2> QED BY <1>7, <2>1 DEF memory
<1>10. CASE ProcessFails \/ WatermarkNotSet
  BY <1>7, <1>10 DEF ProcessFails, WatermarkNotSet, Finish, memory, Busy
<1>11. CASE WorkerJoined \/ Crash
  BY <1>7, <1>11 DEF WorkerJoined, Crash, Ended, Busy
<1>12. CASE Load \/ LoadCutShort \/ LoadFromStart
  <2>1. PICK rows, from : Loading(rows, from)
    BY <1>12, LoadsAreLoading
  <2>2. /\ UNCHANGED <<db, watermark, extracted>> /\ worker = "load"
        /\ slipped => slipped'
    BY <2>1 DEF Loading, LoadRows
  <2>3. CASE ~HasUser(rows)
    <3>1. batch' = {} /\ worker' = "wait"
      BY <2>1, <2>3 DEF Loading, LoadRows, Finish
    <3> QED BY <1>7, <2>2, <3>1 DEF Busy
  <2>4. CASE HasUser(rows)
    <3>1. batch' = rows /\ job' = job /\ worker' = "chat"
      BY <2>1, <2>4 DEF Loading, LoadRows
    <3>2. \A i \in rows : i \in DOMAIN db.rows /\ db.rows[i].conv = job /\ i > from
      BY <2>1, BatchRows DEF Loading, ReadsOf
    <3>3. ASSUME ~slipped'
          PROVE  /\ \A i \in rows : i > watermark[job]
                 /\ rows \cap extracted = {}
                 /\ \A i \in extracted \cap DOMAIN db.rows : i <= watermark[db.rows[i].conv]
      <4>1. ~slipped /\ from = watermark[job]
        BY <2>1, <2>2, <3>3 DEF Loading
      <4>2. \A i \in rows : i > watermark[job]
        BY <3>2, <4>1
      <4>3. \A i \in extracted \cap DOMAIN db.rows : i <= watermark[db.rows[i].conv]
        BY <2>2, <4>1 DEF OnceInv
      <4>4. job \in Convs
        BY <2>2 DEF WorkerInv
      <4>5. watermark[job] \in Nat /\ \A i \in rows : i \in Nat
        BY <1>2, <1>4, <3>2, <4>4, RowTypes DEF Sound
      <4>6. rows \cap extracted = {}
        BY <3>2, <4>2, <4>3, <4>5
      <4> QED BY <4>2, <4>3, <4>6
    <3> QED BY <2>2, <3>1, <3>2, <3>3 DEF OnceInv
  <2> QED BY <2>3, <2>4
<1>13. CASE ProviderAnswers
  <2>1. /\ UNCHANGED <<db, job, batch, watermark, extracted, slipped>>
        /\ worker = "chat" /\ worker' = "store"
    BY <1>13 DEF ProviderAnswers, memory, storeVars, store
  <2> QED BY <2>1 DEF OnceInv
<1>14. CASE FactsStored
  <2>1. /\ UNCHANGED <<db, job, batch, watermark, slipped>>
        /\ extracted' = extracted \cup batch
        /\ worker = "store" /\ worker' = "watermark"
    BY <1>14 DEF FactsStored, storeVars, store
  <2> QED BY <2>1 DEF OnceInv
<1>15. CASE SetWatermark
  <2>1. /\ UNCHANGED <<db, extracted, slipped>> /\ batch' = {}
        /\ worker = "watermark" /\ worker' = "wait"
        /\ watermark' = [watermark EXCEPT ![job] = Max(batch)]
    BY <1>15 DEF SetWatermark, Finish, storeVars, store
  <2>2. batch # {} /\ batch \subseteq 0..db.last /\ job \in Convs
    BY <1>2, <1>4, <2>1 DEF WorkerInv, Busy
  <2>3. Max(batch) \in batch /\ \A i \in batch : i <= Max(batch)
    BY <1>2, <2>2, MaxOfNaturals
  <2>4. ASSUME ~slipped, NEW i \in extracted \cap DOMAIN db.rows
        PROVE  i <= watermark'[db.rows[i].conv]
    <3>1. db.rows[i].conv \in Convs /\ i \in Nat
      BY <1>2, RowTypes DEF Sound
    <3>2. CASE i \in batch
      <4>1. db.rows[i].conv = job
        BY <3>2, <2>4 DEF OnceInv
      <4> QED BY <1>4, <2>1, <2>2, <2>3, <3>2, <4>1
    <3>3. CASE i <= watermark[db.rows[i].conv]
      <4>1. CASE db.rows[i].conv # job
        BY <1>4, <2>1, <3>1, <3>3, <4>1
      <4>2. CASE db.rows[i].conv = job
        <5>1. Max(batch) > watermark[job] /\ i <= watermark[job]
          BY <2>3, <2>4, <3>3, <4>2 DEF OnceInv
        <5>2. Max(batch) \in 0..db.last /\ watermark[job] \in 0..db.last
          BY <1>4, <2>2, <2>3
        <5>3. i <= Max(batch)
          BY <1>2, <3>1, <5>1, <5>2
        <5> QED BY <1>4, <2>1, <2>2, <4>2, <5>3
      <4> QED BY <4>1, <4>2
    <3> QED BY <2>4, <3>2, <3>3 DEF OnceInv
  <2> QED BY <2>1, <2>4 DEF OnceInv
<1> QED
  BY <1>8, <1>9, <1>10, <1>11, <1>12, <1>13, <1>14, <1>15 DEF Next, WorkerNext

------------------------------------------------------------------------------
(* The theorems *)

IInv == StoreInv /\ WorkerInv /\ QueueInv /\ HonestInv /\ OnceInv

LEMMA InitSound == Init => IInv
<1> SUFFICES ASSUME Init PROVE IInv
  OBVIOUS
<1>1. StoreInv
  BY StoreInitSound DEF Init
<1>2. db.last \in Nat /\ DOMAIN db.rows = {}
  <2>1. db.rows = << >> /\ db.last = 0
    BY DEF Init, StoreInit, EmptyDatabase
  <2> QED BY <2>1
<1>3. NoConversation \notin Convs
  BY BoundsAreNaturals DEF Convs
<1>4. WorkerInv
  <2>1. 0 \in 0..db.last
    BY <1>2
  <2>2. watermark \in [Convs -> 0..db.last]
    BY <2>1 DEF Init
  <2>3. /\ worker = "off" /\ job = NoConversation /\ batch = {} /\ extracted = {}
        /\ enable \in BOOLEAN /\ up = FALSE /\ stop = FALSE /\ slipped = FALSE
    BY DEF Init
  <2> QED BY <2>2, <2>3 DEF WorkerInv, WorkerStates, Busy
<1>5. QueueInv
  <2>1. queue = << >> /\ queued = {} /\ job = NoConversation
    BY DEF Init
  <2>2. queue \in Seq(Convs) /\ Len(queue) = 0 /\ Range(queue) = {}
    BY <2>1 DEF Range
  <2>3. \A i, j \in 1..Len(queue) : i # j => queue[i] # queue[j]
    BY <2>2
  <2> QED BY <2>1, <2>2, <2>3 DEF QueueInv, QueuedOnce
<1>6. HonestInv
  BY <1>2 DEF Init, HonestInv, WatermarkIsHonest, BatchIsHonest, Busy
<1>7. OnceInv
  BY <1>2 DEF Init, OnceInv
<1> QED
  BY <1>1, <1>4, <1>5, <1>6, <1>7 DEF IInv

LEMMA NextSound == IInv /\ [Next]_vars => IInv'
<1> SUFFICES ASSUME IInv, [Next]_vars PROVE IInv'
  OBVIOUS
<1>1. CASE Next
  BY <1>1, NextKeepsStore, NextKeepsWorker, NextKeepsQueue, NextKeepsHonest,
     NextKeepsOnce DEF IInv
<1>2. CASE UNCHANGED vars
  <2>1. UNCHANGED <<db, work, in_txn, ui, importing, session, used, faults, up>>
    BY <1>2 DEF vars, storeVars, store, calls
  <2>2. UNCHANGED <<stop, queue, queued, worker, job, batch>>
    BY <1>2 DEF vars, shared, process
  <2>3. UNCHANGED <<enable, watermark, extracted, slipped>>
    BY <1>2 DEF vars, memory
  <2>4. StoreInv'
    BY <2>1 DEF IInv, StoreInv, Tables, ThreadTypes
  <2>5. WorkerInv'
    BY <2>1, <2>2, <2>3 DEF IInv, WorkerInv
  <2>6. QueueInv'
    BY <2>2 DEF IInv, QueueInv, QueuedOnce
  <2>7. HonestInv'
    BY <2>1, <2>2, <2>3 DEF IInv, HonestInv, WatermarkIsHonest, BatchIsHonest, Capped
  <2>8. OnceInv'
    BY <2>1, <2>2, <2>3 DEF IInv, OnceInv
  <2> QED BY <2>4, <2>5, <2>6, <2>7, <2>8 DEF IInv
<1> QED
  BY <1>1, <1>2

THEOREM Invariant == Spec => []IInv
<1> QED
  BY InitSound, NextSound, PTL DEF Spec

\* Every variable of the store and the extractor has its type.
THEOREM TypeCorrect == Spec => []TypeOK
<1>1. IInv => TypeOK
  <2> SUFFICES ASSUME IInv PROVE TypeOK
    OBVIOUS
  <2>1. StoreTypeOK
    BY DEF IInv, StoreInv, Tables, ThreadTypes, Sound, StoreTypeOK
  <2>2. db.last \in Nat
    BY DEF IInv, StoreInv, Tables, Sound, IsDatabase
  <2>3. batch \subseteq Nat /\ extracted \subseteq Nat /\ watermark \in [Convs -> Nat]
    BY <2>2 DEF IInv, WorkerInv
  <2> QED BY <2>1, <2>3 DEF IInv, WorkerInv, QueueInv, TypeOK
<1> QED
  BY <1>1, Invariant, PTL

\* Whatever the agent, an import, rollbacks and crashes write, the rows of a
\* conversation have the same order by id and by seq, and what is archived
\* comes before what is not.
THEOREM RowsOrdered == Spec => []RowsInOrder
<1>1. IInv => RowsInOrder
  BY DEF IInv, StoreInv, Tables, Sound, Ordered, RowsInOrder
<1> QED
  BY <1>1, Invariant, PTL

\* queued_ holds what waits, each conversation once, and what is processed.
THEOREM QueueIsExact == Spec => []QueuedOnce
<1>1. IInv => QueuedOnce
  BY DEF IInv, QueueInv
<1> QED
  BY <1>1, Invariant, PTL

\* A watermark passes no message whose facts were not stored, but those that
\* max_messages newer ones pushed out.
THEOREM WatermarksHonest == Spec => []WatermarkIsHonest
<1>1. IInv => WatermarkIsHonest
  BY DEF IInv, HonestInv
<1> QED
  BY <1>1, Invariant, PTL

\* No row is sent to the provider twice unless a watermark slipped.
THEOREM RowsReadOnce == Spec => []ReadOnce
<1>1. IInv => ReadOnce
  BY DEF IInv, OnceInv, ReadOnce
<1> QED
  BY <1>1, Invariant, PTL

------------------------------------------------------------------------------
(* The messages of some rows, in the order of seq *)

\* The sequence s lists the messages of the rows ids of d: each row has the
\* place its predecessors leave it.
IsListing(d, ids, s) ==
  /\ s \in Seq(Message) /\ Len(s) = Cardinality(ids)
  /\ \A i \in ids : s[Cardinality(Preceding(d, ids, i)) + 1] = d.rows[i].msg

\* The rows of one conversation, of any activity.
OfOne(d, ids) ==
  ids \subseteq DOMAIN d.rows
  /\ \A i, j \in ids : d.rows[i].conv = d.rows[j].conv

LEMMA PlaceOfRow ==
  ASSUME NEW d, Sound(d), NEW ids, OfOne(d, ids), NEW i \in ids
  PROVE  /\ IsFiniteSet(ids) /\ Cardinality(ids) \in Nat
         /\ IsFiniteSet(Preceding(d, ids, i))
         /\ Cardinality(Preceding(d, ids, i)) \in 0..Cardinality(ids) - 1
<1>1. IsFiniteSet(ids) /\ Cardinality(ids) \in Nat
  BY RowsAreFinite, FS_CardinalityType DEF OfOne
<1>2. d.rows[i].seq \in Nat
  BY RowTypes DEF Sound, OfOne
<1>3. Preceding(d, ids, i) \in SUBSET (ids \ {i})
  BY <1>2 DEF Preceding
<1>4. IsFiniteSet(ids \ {i}) /\ Cardinality(ids \ {i}) = Cardinality(ids) - 1
  BY <1>1, FS_RemoveElement
<1>5. /\ IsFiniteSet(Preceding(d, ids, i))
      /\ Cardinality(Preceding(d, ids, i)) <= Cardinality(ids) - 1
  BY <1>3, <1>4, FS_Subset
<1>6. Cardinality(Preceding(d, ids, i)) \in Nat
  BY <1>5, FS_CardinalityType
<1> QED
  BY <1>1, <1>5, <1>6

LEMMA LoadsAreOfOne ==
  ASSUME NEW d, NEW c, NEW active
  PROVE  OfOne(d, Loads(d, c, active))
BY DEF OfOne, Loads, RowsOf

\* No two rows of a conversation have the same place.
LEMMA PlacesDiffer ==
  ASSUME NEW d, Sound(d), NEW ids, OfOne(d, ids), NEW i \in ids, NEW j \in ids,
         Cardinality(Preceding(d, ids, i)) = Cardinality(Preceding(d, ids, j))
  PROVE  i = j
<1>1. ASSUME NEW a \in ids, NEW b \in ids, d.rows[a].seq < d.rows[b].seq
      PROVE  Cardinality(Preceding(d, ids, a)) # Cardinality(Preceding(d, ids, b))
  <2>1. \A x \in ids : d.rows[x].seq \in Nat
    BY RowTypes DEF Sound, OfOne
  <2>2. Preceding(d, ids, a) \in SUBSET Preceding(d, ids, b)
    BY <2>1, <1>1 DEF Preceding
  <2>3. a \in Preceding(d, ids, b) /\ a \notin Preceding(d, ids, a)
    BY <2>1, <1>1 DEF Preceding
  <2>4. IsFiniteSet(Preceding(d, ids, b))
    BY PlaceOfRow
  <2> QED BY <2>2, <2>3, <2>4, FS_Subset
<1>2. SUFFICES ASSUME i # j PROVE FALSE
  OBVIOUS
<1>3. i \in DOMAIN d.rows /\ j \in DOMAIN d.rows /\ d.rows[i].conv = d.rows[j].conv
  BY DEF OfOne
<1>4. i \in Nat /\ j \in Nat
  BY <1>3, RowTypes DEF Sound
<1>5. i < j \/ j < i
  BY <1>2, <1>4
<1>6. d.rows[i].seq < d.rows[j].seq \/ d.rows[j].seq < d.rows[i].seq
  BY <1>3, <1>5 DEF Sound, Ordered
<1> QED
  BY <1>1, <1>6

LEMMA MessagesAreListing ==
  ASSUME NEW d, Sound(d), NEW c, NEW active \in BOOLEAN
  PROVE  IsListing(d, Loads(d, c, active), MessagesOf(d.rows, c, active))
<1> DEFINE ids == Loads(d, c, active)
           Before(i) == {j \in ids : d.rows[j].seq < d.rows[i].seq}
           At(k) == d.rows[CHOOSE i \in ids : Cardinality(Before(i)) = k - 1].msg
           s == MessagesOf(d.rows, c, active)
<1>1. s = [k \in 1..Cardinality(ids) |-> At(k)]
  BY DEF MessagesOf, Loads
<1>2. s \in Seq(Message)
  BY LoadedAreMessages
<1>3. OfOne(d, ids)
  BY LoadsAreOfOne
<1> HIDE DEF ids, s
<1>4. ASSUME NEW i \in ids
      PROVE  s[Cardinality(Preceding(d, ids, i)) + 1] = d.rows[i].msg
  <2> DEFINE place == Cardinality(Preceding(d, ids, i)) + 1
  <2>1. place \in 1..Cardinality(ids) /\ place - 1 = Cardinality(Preceding(d, ids, i))
    BY <1>3, PlaceOfRow
  <2>2. \A j \in ids : Before(j) = Preceding(d, ids, j)
    BY DEF Preceding
  <2> HIDE DEF Before, place
  <2>3. Cardinality(Before(i)) = place - 1
    BY <2>1, <2>2
  <2> DEFINE chosen == CHOOSE j \in ids : Cardinality(Before(j)) = place - 1
  <2>4. chosen \in ids /\ Cardinality(Before(chosen)) = place - 1
    BY <2>3
  <2> HIDE DEF chosen
  <2>5. Cardinality(Preceding(d, ids, chosen)) = Cardinality(Preceding(d, ids, i))
    BY <2>1, <2>2, <2>4
  <2>6. chosen = i
    BY <1>3, <2>4, <2>5, PlacesDiffer
  <2>7. At(place) = d.rows[chosen].msg
    BY DEF chosen
  <2> HIDE DEF At
  <2>8. s[place] = d.rows[i].msg
    BY <1>1, <2>1, <2>6, <2>7
  <2> QED BY <2>8 DEF place
<1>5. Len(s) = Cardinality(ids)
  <2> HIDE DEF At
  <2>1. ids \subseteq DOMAIN d.rows
    BY <1>3 DEF OfOne
  <2>2. Cardinality(ids) \in Nat
    BY <2>1, RowsAreFinite, FS_CardinalityType
  <2>3. DOMAIN s = 1..Cardinality(ids)
    BY <1>1
  <2>4. DOMAIN s = 1..Len(s) /\ Len(s) \in Nat
    BY <1>2, LenProperties
  <2> QED BY <2>2, <2>3, <2>4
<1> QED
  BY <1>2, <1>4, <1>5 DEF IsListing, ids, s

\* There is only one listing, as every place is taken.
LEMMA OneListing ==
  ASSUME NEW d, Sound(d), NEW c, NEW active \in BOOLEAN, NEW s,
         IsListing(d, Loads(d, c, active), s)
  PROVE  MessagesOf(d.rows, c, active) = s
<1> DEFINE ids == Loads(d, c, active)
           t == MessagesOf(d.rows, c, active)
<1>1. IsListing(d, ids, t) /\ IsListing(d, ids, s)
  BY MessagesAreListing
<1>2. ASSUME NEW k \in 1..Cardinality(ids) PROVE t[k] = s[k]
  <2>1. HasRank(d, ids, k)
    BY EachRankOnce
  <2> HIDE DEF ids, t
  <2>2. PICK i \in ids : Cardinality(Preceding(d, ids, i)) = k - 1
    BY <2>1 DEF HasRank
  <2>3. Cardinality(Preceding(d, ids, i)) + 1 = k
    BY <2>2
  <2>4. t[Cardinality(Preceding(d, ids, i)) + 1]
          = s[Cardinality(Preceding(d, ids, i)) + 1]
    BY <1>1 DEF IsListing
  <2> QED BY <2>3, <2>4
<1> HIDE DEF ids, t
<1>3. t \in Seq(Message) /\ s \in Seq(Message) /\ Len(t) = Len(s)
      /\ Len(t) = Cardinality(ids)
  BY <1>1 DEF IsListing
<1>4. t = s
  BY <1>2, <1>3, SeqEqual
<1> QED
  BY <1>4 DEF t

\* Rows that stay as they are, and are all, give the same messages.
LEMMA SameMessages ==
  ASSUME NEW d, Sound(d), NEW e, Sound(e), NEW c, NEW active \in BOOLEAN,
         Loads(e, c, active) = Loads(d, c, active),
         \A i \in Loads(d, c, active) :
           e.rows[i].seq = d.rows[i].seq /\ e.rows[i].msg = d.rows[i].msg
  PROVE  MessagesOf(e.rows, c, active) = MessagesOf(d.rows, c, active)
<1> DEFINE ids == Loads(d, c, active)
           s == MessagesOf(d.rows, c, active)
<1>1. IsListing(d, ids, s) /\ Loads(e, c, active) = ids
  BY MessagesAreListing
<1>2. \A i \in ids : e.rows[i].seq = d.rows[i].seq /\ e.rows[i].msg = d.rows[i].msg
  OBVIOUS
<1> HIDE DEF ids, s
<1>3. \A i \in ids : Preceding(e, ids, i) = Preceding(d, ids, i)
  BY <1>2 DEF Preceding
<1>4. IsListing(e, ids, s)
  BY <1>1, <1>2, <1>3 DEF IsListing
<1>5. IsListing(e, Loads(e, c, active), s)
  BY <1>1, <1>4
<1>6. MessagesOf(e.rows, c, active) = s
  BY <1>5, OneListing
<1> QED
  BY <1>6 DEF s

\* No row, no message.
LEMMA NoRowsNoMessages ==
  ASSUME NEW d, Sound(d), NEW c, NEW active \in BOOLEAN, Loads(d, c, active) = {}
  PROVE  MessagesOf(d.rows, c, active) = << >>
<1>1. IsListing(d, {}, << >>)
  BY FS_EmptySet DEF IsListing
<1> QED
  BY <1>1, OneListing

LEMMA SizeOfInterval ==
  ASSUME NEW a \in Nat, NEW b \in Nat
  PROVE  IsFiniteSet(a + 1..a + b) /\ Cardinality(a + 1..a + b) = b
<1>1. a + 1 \in Int /\ a + b \in Int
  OBVIOUS
<1>2. /\ IsFiniteSet(a + 1..a + b)
      /\ Cardinality(a + 1..a + b)
           = IF a + 1 > a + b THEN 0 ELSE a + b - (a + 1) + 1
  BY <1>1, FS_Interval
<1> QED
  BY <1>2

\* What WithRows makes active is what was active and then the messages.
LEMMA AddedAtTheEnd ==
  ASSUME NEW d, Sound(d), NEW c \in Convs, NEW msgs \in Seq(Message),
         NEW e, e = WithRows(d, c, msgs)
  PROVE  MessagesOf(e.rows, c, TRUE) = MessagesOf(d.rows, c, TRUE) \o msgs
<1> DEFINE ids == Loads(d, c, TRUE)
           all == Loads(e, c, TRUE)
           s == MessagesOf(d.rows, c, TRUE)
           first == d.last
           n == Len(msgs)
<1>1. Sound(e) /\ HasAdded(e, d, c, msgs)
  BY WithRowsIsSound, WithRowsShape
<1>2. IsListing(d, ids, s)
  BY MessagesAreListing
<1>3. OfOne(d, ids) /\ OfOne(e, all)
  BY LoadsAreOfOne
<1>4. first \in Nat /\ n \in Nat /\ DOMAIN d.rows \subseteq 1..first
  BY LenProperties DEF Sound, IsDatabase
<1>5. \A i \in ids : i \in DOMAIN d.rows /\ d.rows[i].conv = c
                     /\ d.rows[i].active = TRUE
  BY DEF Loads, RowsOf
<1>6. all = ids \cup (first + 1..first + n)
  <2>1. DOMAIN e.rows = DOMAIN d.rows \cup (first + 1..first + n)
    BY <1>1 DEF HasAdded, Added
  <2>2. \A i \in DOMAIN d.rows : e.rows[i] = d.rows[i]
    BY <1>1 DEF HasAdded
  <2>3. \A i \in first + 1..first + n : e.rows[i].conv = c /\ e.rows[i].active = TRUE
    BY <1>1 DEF HasAdded, Added
  <2> HIDE DEF first, n
  <2>4. all \subseteq ids \cup (first + 1..first + n)
    BY <2>1, <2>2 DEF Loads, RowsOf
  <2>5. ids \subseteq all
    BY <2>1, <2>2 DEF Loads, RowsOf
  <2>6. first + 1..first + n \subseteq all
    BY <2>1, <2>3 DEF Loads, RowsOf
  <2> HIDE DEF ids, all
  <2> QED BY <2>4, <2>5, <2>6
<1>7. \A i \in ids : e.rows[i] = d.rows[i] /\ i <= first
  <2>1. \A i \in DOMAIN d.rows : e.rows[i] = d.rows[i]
    BY <1>1 DEF HasAdded
  <2> HIDE DEF ids, first
  <2> QED BY <2>1, <1>4, <1>5
<1> DEFINE next == NextSeq(d.rows, c)
<1>8. next \in Nat /\ \A i \in ids : d.rows[i].seq < next /\ d.rows[i].seq \in Nat
  <2>1. next \in 0..first /\ \A i \in RowsOf(d.rows, c) : d.rows[i].seq < next
    BY NextSeqIsNext
  <2>2. \A i \in ids : d.rows[i].seq \in Nat
    BY <1>5, RowTypes DEF Sound
  <2>3. ids \subseteq RowsOf(d.rows, c)
    BY DEF Loads
  <2> HIDE DEF next, first, ids
  <2> QED BY <2>1, <2>2, <2>3, <1>4
<1>9. \A i \in first + 1..first + n :
        e.rows[i].seq = next + i - first - 1 /\ e.rows[i].msg = msgs[i - first]
  BY <1>1 DEF HasAdded, Added
<1>10. s \in Seq(Message) /\ Len(s) = Cardinality(ids) /\ Len(s) \in Nat
  BY <1>2, LenProperties DEF IsListing
<1>11. IsFiniteSet(ids)
  BY <1>3, RowsAreFinite DEF OfOne
<1> HIDE DEF ids, all, s, first, n, next
<1>12. ASSUME NEW i \in ids
       PROVE  (s \o msgs)[Cardinality(Preceding(e, all, i)) + 1] = e.rows[i].msg
  <2>1. \A j \in first + 1..first + n : ~(e.rows[j].seq < e.rows[i].seq)
    BY <1>4, <1>7, <1>8, <1>9
  <2>2. Preceding(e, all, i) = Preceding(d, ids, i)
    BY <1>6, <1>7, <2>1 DEF Preceding
  <2>3. Cardinality(Preceding(d, ids, i)) \in 0..Cardinality(ids) - 1
    BY <1>3, PlaceOfRow
  <2>4. s[Cardinality(Preceding(d, ids, i)) + 1] = d.rows[i].msg
    BY <1>2 DEF IsListing
  <2> DEFINE place == Cardinality(Preceding(d, ids, i)) + 1
  <2>5. place \in 1..Len(s)
    BY <2>3, <1>10
  <2> HIDE DEF place
  <2>6. (s \o msgs)[place] = s[place]
    BY <2>5, <1>10, <1>4, ConcatProperties DEF n
  <2> QED BY <2>2, <2>4, <2>6, <1>7 DEF place
<1>13. ASSUME NEW i \in first + 1..first + n
       PROVE  (s \o msgs)[Cardinality(Preceding(e, all, i)) + 1] = e.rows[i].msg
  <2> DEFINE before == first + 1..i - 1
  <2>1. i \in Nat /\ i > first /\ i <= first + n
    BY <1>4
  <2>2. e.rows[i].seq = next + i - first - 1
    BY <1>9
  <2>3. \A j \in ids : e.rows[j].seq < e.rows[i].seq
    BY <1>4, <1>7, <1>8, <2>1, <2>2
  <2>4. \A j \in first + 1..first + n : e.rows[j].seq < e.rows[i].seq <=> j < i
    BY <1>4, <1>8, <1>9, <2>1, <2>2
  <2>5. Preceding(e, all, i) = ids \cup before
    BY <1>4, <1>6, <2>1, <2>3, <2>4 DEF Preceding
  <2>6. IsFiniteSet(before) /\ Cardinality(before) = i - 1 - first
    <3>1. first + 1 \in Int /\ i - 1 \in Int
      BY <1>4, <2>1
    <3>2. /\ IsFiniteSet(before)
          /\ Cardinality(before) = IF first + 1 > i - 1 THEN 0 ELSE i - 1 - (first + 1) + 1
      BY <3>1, FS_Interval
    <3> HIDE DEF before
    <3> QED BY <3>2, <1>4, <2>1
  <2>7. ids \cap before = {}
    BY <1>4, <1>7
  <2> HIDE DEF before
  <2>8. Cardinality(ids \cup before) = Cardinality(ids) + (i - 1 - first)
    <3>1. Cardinality(ids \cup before)
            = Cardinality(ids) + Cardinality(before) - Cardinality(ids \cap before)
      BY <1>11, <2>6, FS_Union
    <3>2. Cardinality(ids \cap before) = 0
      BY <2>7, FS_EmptySet
    <3> QED BY <3>1, <3>2, <2>6, <1>10, <1>4, <2>1
  <2> DEFINE place == Len(s) + (i - first)
  <2>9. Cardinality(Preceding(e, all, i)) + 1 = place
    BY <2>5, <2>8, <1>10, <1>4, <2>1
  <2>10. place \in 1..Len(s) + Len(msgs) /\ ~(place <= Len(s))
         /\ place - Len(s) = i - first
    BY <1>4, <1>10, <2>1 DEF n
  <2> HIDE DEF place
  <2>11. (s \o msgs)[place] = msgs[place - Len(s)]
    BY <2>10, <1>10, ConcatProperties
  <2> QED BY <2>9, <2>10, <2>11, <1>9
<1>14. s \o msgs \in Seq(Message) /\ Len(s \o msgs) = Cardinality(all)
  <2>1. s \o msgs \in Seq(Message) /\ Len(s \o msgs) = Len(s) + n
    BY <1>10, ConcatProperties DEF n
  <2> DEFINE added == first + 1..first + n
  <2>2. IsFiniteSet(added) /\ Cardinality(added) = n
    BY <1>4, SizeOfInterval
  <2>3. ids \cap added = {}
    BY <1>4, <1>7
  <2> HIDE DEF added
  <2>4. Cardinality(ids \cup added)
          = Cardinality(ids) + Cardinality(added) - Cardinality(ids \cap added)
    BY <1>11, <2>2, FS_Union
  <2>5. Cardinality(ids \cap added) = 0
    BY <2>3, FS_EmptySet
  <2>6. Cardinality(all) = Cardinality(ids \cup added)
    BY <1>6 DEF added
  <2> QED BY <2>1, <2>2, <2>4, <2>5, <2>6, <1>10, <1>4
<1>15. IsListing(e, all, s \o msgs)
  BY <1>6, <1>12, <1>13, <1>14 DEF IsListing
<1>16. MessagesOf(e.rows, c, TRUE) = s \o msgs
  BY <1>1, <1>15, OneListing DEF all
<1> QED
  BY <1>16 DEF s

\* Archiving puts what was active behind what was archived.
LEMMA ArchivedAtTheEnd ==
  ASSUME NEW d, Sound(d), NEW c, NEW e, e = WithArchived(d, c)
  PROVE  /\ MessagesOf(e.rows, c, FALSE)
              = MessagesOf(d.rows, c, FALSE) \o MessagesOf(d.rows, c, TRUE)
         /\ MessagesOf(e.rows, c, TRUE) = << >>
<1> DEFINE old == Loads(d, c, FALSE)
           new == Loads(d, c, TRUE)
           all == Loads(e, c, FALSE)
           s == MessagesOf(d.rows, c, FALSE)
           t == MessagesOf(d.rows, c, TRUE)
<1>1. /\ DOMAIN e.rows = DOMAIN d.rows
      /\ \A i \in DOMAIN d.rows :
           /\ e.rows[i].conv = d.rows[i].conv
           /\ e.rows[i].seq = d.rows[i].seq
           /\ e.rows[i].msg = d.rows[i].msg
           /\ e.rows[i].active = (d.rows[i].active /\ d.rows[i].conv # c)
  BY WithArchivedShape
<1>2. Sound(e)
  BY WithArchivedIsSound
<1>3. IsListing(d, old, s) /\ IsListing(d, new, t)
  BY MessagesAreListing
<1>4. OfOne(d, old) /\ OfOne(d, new) /\ OfOne(e, all)
  BY LoadsAreOfOne
<1>5. \A i \in DOMAIN d.rows : d.rows[i].active \in BOOLEAN
  BY RowTypes DEF Sound
<1>6. all = old \cup new
  <2>1. all \subseteq old \cup new
    BY <1>1, <1>5 DEF Loads, RowsOf
  <2>2. old \cup new \subseteq all
    BY <1>1, <1>5 DEF Loads, RowsOf
  <2> QED BY <2>1, <2>2
<1>7. \A i \in old, j \in new : d.rows[i].seq < d.rows[j].seq
  <2> SUFFICES ASSUME NEW i \in old, NEW j \in new PROVE d.rows[i].seq < d.rows[j].seq
    OBVIOUS
  <2>1. i \in DOMAIN d.rows /\ j \in DOMAIN d.rows /\ d.rows[i].conv = d.rows[j].conv
        /\ ~d.rows[i].active /\ d.rows[j].active
    BY DEF Loads, RowsOf
  <2>2. i \in Nat /\ j \in Nat
    BY <2>1, RowTypes DEF Sound
  <2>3. i < j
    BY <2>1, <2>2 DEF Sound, Ordered
  <2> QED BY <2>1, <2>3 DEF Sound, Ordered
<1>8. \A i \in old \cup new : /\ d.rows[i].seq \in Nat /\ e.rows[i].seq = d.rows[i].seq
                              /\ e.rows[i].msg = d.rows[i].msg
  <2>1. old \cup new \subseteq DOMAIN d.rows
    BY DEF Loads, RowsOf
  <2> HIDE DEF old, new
  <2> QED BY <2>1, <1>1, RowTypes DEF Sound
<1>9. old \cap new = {}
  BY DEF Loads
<1>10. Loads(e, c, TRUE) = {}
  BY <1>1 DEF Loads, RowsOf
<1>11. /\ s \in Seq(Message) /\ Len(s) = Cardinality(old) /\ Len(s) \in Nat
       /\ t \in Seq(Message) /\ Len(t) = Cardinality(new) /\ Len(t) \in Nat
  BY <1>3, LenProperties DEF IsListing
<1>12. IsFiniteSet(old) /\ IsFiniteSet(new)
  BY <1>4, RowsAreFinite DEF OfOne
<1> HIDE DEF old, new, all, s, t
<1>13. ASSUME NEW i \in old
       PROVE  (s \o t)[Cardinality(Preceding(e, all, i)) + 1] = e.rows[i].msg
  <2>1. \A j \in new : ~(d.rows[j].seq < d.rows[i].seq)
    BY <1>7, <1>8
  <2>2. Preceding(e, all, i) = Preceding(d, old, i)
    BY <1>6, <1>8, <2>1 DEF Preceding
  <2>3. Cardinality(Preceding(d, old, i)) \in 0..Cardinality(old) - 1
    BY <1>4, PlaceOfRow
  <2> DEFINE place == Cardinality(Preceding(d, old, i)) + 1
  <2>4. s[place] = d.rows[i].msg
    BY <1>3 DEF IsListing
  <2>5. place \in 1..Len(s)
    BY <2>3, <1>11
  <2> HIDE DEF place
  <2>6. (s \o t)[place] = s[place]
    BY <2>5, <1>11, ConcatProperties
  <2> QED BY <2>2, <2>4, <2>6, <1>8 DEF place
<1>14. ASSUME NEW i \in new
       PROVE  (s \o t)[Cardinality(Preceding(e, all, i)) + 1] = e.rows[i].msg
  <2> DEFINE before == Preceding(d, new, i)
  <2>1. Preceding(e, all, i) = old \cup before
    BY <1>6, <1>7, <1>8 DEF Preceding
  <2>2. IsFiniteSet(before) /\ Cardinality(before) \in 0..Cardinality(new) - 1
    BY <1>4, PlaceOfRow
  <2>3. old \cap before = {}
    BY <1>9 DEF Preceding
  <2>4. t[Cardinality(before) + 1] = d.rows[i].msg
    BY <1>3 DEF IsListing
  <2> HIDE DEF before
  <2>5. Cardinality(old \cup before)
          = Cardinality(old) + Cardinality(before) - Cardinality(old \cap before)
    BY <1>12, <2>2, FS_Union
  <2>6. Cardinality(old \cap before) = 0
    BY <2>3, FS_EmptySet
  <2> DEFINE place == Cardinality(old \cup before) + 1
  <2>7. /\ place \in 1..Len(s) + Len(t) /\ ~(place <= Len(s))
        /\ place - Len(s) = Cardinality(before) + 1
    BY <2>2, <2>5, <2>6, <1>11
  <2> HIDE DEF place
  <2>8. (s \o t)[place] = t[place - Len(s)]
    BY <2>7, <1>11, ConcatProperties
  <2> QED BY <2>1, <2>4, <2>7, <2>8, <1>8 DEF place
<1>15. s \o t \in Seq(Message) /\ Len(s \o t) = Cardinality(all)
  <2>1. s \o t \in Seq(Message) /\ Len(s \o t) = Len(s) + Len(t)
    BY <1>11, ConcatProperties
  <2>2. Cardinality(old \cup new)
          = Cardinality(old) + Cardinality(new) - Cardinality(old \cap new)
    BY <1>12, FS_Union
  <2>3. Cardinality(old \cap new) = 0
    BY <1>9, FS_EmptySet
  <2> QED BY <2>1, <2>2, <2>3, <1>6, <1>11
<1>16. IsListing(e, all, s \o t)
  BY <1>6, <1>13, <1>14, <1>15 DEF IsListing
<1>17. MessagesOf(e.rows, c, FALSE) = s \o t
  BY <1>2, <1>16, OneListing DEF all
<1>18. MessagesOf(e.rows, c, TRUE) = << >>
  BY <1>2, <1>10, NoRowsNoMessages
<1> QED
  BY <1>17, <1>18 DEF s, t

------------------------------------------------------------------------------
(* What happens to the conversations of a database *)

Archived(d, c) == MessagesOf(d.rows, c, FALSE)
Active(d, c) == MessagesOf(d.rows, c, TRUE)

GrowsTo(d, e, c) ==
  /\ Archived(e, c) = Archived(d, c)
  /\ \E more \in Seq(Message) : Active(e, c) = Active(d, c) \o more

CompactsTo(d, e, c) ==
  /\ Archived(e, c) = Archived(d, c) \o Active(d, c)
  /\ Active(e, c) # << >>

\* Moves of TranscriptLog.
Follows(d, e) ==
  \A c \in e.convs :
    IF c \in d.convs THEN GrowsTo(d, e, c) \/ CompactsTo(d, e, c)
    ELSE Archived(e, c) = << >>

\* The same without a compaction.
Grown(d, e) ==
  \A c \in e.convs :
    IF c \in d.convs THEN GrowsTo(d, e, c) ELSE Archived(e, c) = << >>

\* A foreign key: each row belongs to a conversation that is there.
Linked(d) == \A i \in DOMAIN d.rows : d.rows[i].conv \in d.convs

LEMMA ListsAreMessages ==
  ASSUME NEW d, Sound(d), NEW c
  PROVE  Archived(d, c) \in Seq(Message) /\ Active(d, c) \in Seq(Message)
BY LoadedAreMessages DEF Archived, Active

\* Rows that stay are a conversation that stays.
LEMMA SameGrows ==
  ASSUME NEW d, Sound(d), NEW e, NEW c,
         Archived(e, c) = Archived(d, c), Active(e, c) = Active(d, c)
  PROVE  GrowsTo(d, e, c)
<1>1. Active(d, c) \in Seq(Message)
  BY ListsAreMessages
<1>2. Active(e, c) = Active(d, c) \o << >> /\ << >> \in Seq(Message)
  BY <1>1, ConcatEmptySeq, EmptySeq
<1> QED
  BY <1>2 DEF GrowsTo

LEMMA StaysGrown ==
  ASSUME NEW d, Sound(d)
  PROVE  Grown(d, d) /\ Follows(d, d)
BY SameGrows DEF Grown, Follows

LEMMA GrownFollows ==
  ASSUME NEW d, NEW e, Grown(d, e)
  PROVE  Follows(d, e)
BY DEF Grown, Follows

\* Growth goes on after a growth or a compaction.
LEMMA FollowsAndGrows ==
  ASSUME NEW a, NEW b, NEW d, Sound(a), Sound(b), Sound(d),
         Follows(a, b), Grown(b, d),
         \A c \in d.convs : c \in b.convs \/ c \notin a.convs
  PROVE  Follows(a, d)
<1> SUFFICES ASSUME NEW c \in d.convs
             PROVE  IF c \in a.convs THEN GrowsTo(a, d, c) \/ CompactsTo(a, d, c)
                    ELSE Archived(d, c) = << >>
  BY DEF Follows
<1>1. CASE c \notin b.convs
  BY <1>1 DEF Grown
<1>2. CASE c \in b.convs /\ c \notin a.convs
  BY <1>2 DEF Grown, Follows, GrowsTo
<1>3. CASE c \in b.convs /\ c \in a.convs
  <2>1. Archived(d, c) = Archived(b, c)
    BY <1>3 DEF Grown, GrowsTo
  <2>2. PICK more \in Seq(Message) : Active(d, c) = Active(b, c) \o more
    BY <1>3 DEF Grown, GrowsTo
  <2>3. Active(a, c) \in Seq(Message) /\ Active(b, c) \in Seq(Message)
    BY ListsAreMessages
  <2>4. ASSUME GrowsTo(a, b, c) PROVE GrowsTo(a, d, c)
    <3>1. PICK first \in Seq(Message) : Active(b, c) = Active(a, c) \o first
      BY <2>4 DEF GrowsTo
    <3>2. Active(d, c) = Active(a, c) \o (first \o more)
      BY <2>2, <2>3, <3>1, ConcatAssociative
    <3>3. first \o more \in Seq(Message)
      BY ConcatProperties
    <3> QED BY <2>1, <2>4, <3>2, <3>3 DEF GrowsTo
  <2>5. ASSUME CompactsTo(a, b, c) PROVE CompactsTo(a, d, c)
    <3>1. Active(b, c) # << >>
      BY <2>5 DEF CompactsTo
    <3>2. Active(d, c) # << >>
      BY <2>2, <2>3, <3>1, ConcatEqualIffEmpty
    <3> QED BY <2>1, <2>5, <3>2 DEF CompactsTo
  <2> QED BY <1>3, <2>4, <2>5 DEF Follows
<1> QED
  BY <1>1, <1>2, <1>3

\* A new conversation is empty.
LEMMA CreatedIsGrown ==
  ASSUME NEW d, Sound(d), Linked(d), NEW c \in Convs
  PROVE  /\ Grown(d, WithConversation(d, c)) /\ Linked(WithConversation(d, c))
         /\ WithConversation(d, c).convs = d.convs \cup {c}
<1> SUFFICES ASSUME NEW e, e = WithConversation(d, c)
             PROVE  Grown(d, e) /\ Linked(e) /\ e.convs = d.convs \cup {c}
  OBVIOUS
<1>1. d = [convs |-> d.convs, rows |-> d.rows, last |-> d.last]
  BY DEF Sound, IsDatabase
<1>2. e.convs = d.convs \cup {c} /\ e.rows = d.rows
  BY <1>1 DEF WithConversation
<1>3. \A x \in d.convs : GrowsTo(d, e, x)
  BY <1>2, SameGrows DEF Archived, Active
<1>4. ASSUME NEW x \in e.convs, x \notin d.convs PROVE Archived(e, x) = << >>
  <2>1. Loads(d, x, FALSE) = {}
    BY <1>4 DEF Linked, Loads, RowsOf
  <2> QED BY <1>2, <2>1, NoRowsNoMessages DEF Archived
<1>5. Linked(e)
  BY <1>2 DEF Linked
<1> QED
  BY <1>2, <1>3, <1>4, <1>5 DEF Grown

\* What a removal leaves is as it was.
LEMMA RemovedIsGrown ==
  ASSUME NEW d, Sound(d), Linked(d), NEW c
  PROVE  /\ Grown(d, Without(d, c)) /\ Linked(Without(d, c))
         /\ Without(d, c).convs = d.convs \ {c}
<1> SUFFICES ASSUME NEW e, e = Without(d, c)
             PROVE  Grown(d, e) /\ Linked(e) /\ e.convs = d.convs \ {c}
  OBVIOUS
<1>1. /\ e.convs = d.convs \ {c}
      /\ DOMAIN e.rows = DOMAIN d.rows \ RowsOf(d.rows, c)
      /\ \A i \in DOMAIN e.rows : e.rows[i] = d.rows[i]
  BY DEF Without
<1>2. Sound(e)
  BY WithoutIsSound
<1>3. ASSUME NEW x \in e.convs PROVE GrowsTo(d, e, x)
  <2>1. x # c
    BY <1>1
  <2>2. ASSUME NEW active \in BOOLEAN
        PROVE  MessagesOf(e.rows, x, active) = MessagesOf(d.rows, x, active)
    <3>1. Loads(e, x, active) \subseteq Loads(d, x, active)
      BY <1>1 DEF Loads, RowsOf
    <3>2. Loads(d, x, active) \subseteq Loads(e, x, active)
      BY <1>1, <2>1 DEF Loads, RowsOf
    <3>3. Loads(e, x, active) = Loads(d, x, active)
      BY <3>1, <3>2
    <3>4. \A i \in Loads(d, x, active) : e.rows[i] = d.rows[i]
      BY <1>1, <3>2 DEF Loads, RowsOf
    <3> QED BY <1>2, <3>3, <3>4, SameMessages
  <2> QED BY <2>2, SameGrows DEF Archived, Active
<1>4. Linked(e)
  BY <1>1 DEF Linked, RowsOf
<1> QED
  BY <1>1, <1>3, <1>4 DEF Grown

\* Rows added to one conversation leave the others, and its archive, alone.
KeepsOthers(d, e, c, x) ==
  /\ MessagesOf(e.rows, x, FALSE) = MessagesOf(d.rows, x, FALSE)
  /\ x # c => MessagesOf(e.rows, x, TRUE) = MessagesOf(d.rows, x, TRUE)

LEMMA OthersKeptByRows ==
  ASSUME NEW d, Sound(d), NEW c \in Convs, NEW msgs \in Seq(Message),
         NEW x
  PROVE  KeepsOthers(d, WithRows(d, c, msgs), c, x)
<1> SUFFICES ASSUME NEW e, e = WithRows(d, c, msgs),
                    NEW active \in BOOLEAN, x # c \/ active = FALSE
             PROVE  MessagesOf(e.rows, x, active) = MessagesOf(d.rows, x, active)
  BY DEF KeepsOthers
<1>1. Sound(e) /\ HasAdded(e, d, c, msgs)
  BY WithRowsIsSound, WithRowsShape
<1>2. DOMAIN e.rows = DOMAIN d.rows \cup Added(d, msgs)
      /\ \A i \in DOMAIN d.rows : e.rows[i] = d.rows[i]
  BY <1>1 DEF HasAdded
<1>3. \A i \in Added(d, msgs) : e.rows[i].conv = c /\ e.rows[i].active = TRUE
  BY <1>1 DEF HasAdded
<1>4. Loads(e, x, active) \subseteq Loads(d, x, active)
  BY <1>2, <1>3 DEF Loads, RowsOf
<1>5. Loads(d, x, active) \subseteq Loads(e, x, active)
  BY <1>2 DEF Loads, RowsOf
<1>6. Loads(e, x, active) = Loads(d, x, active)
  BY <1>4, <1>5
<1>7. \A i \in Loads(d, x, active) : e.rows[i] = d.rows[i]
  BY <1>2 DEF Loads, RowsOf
<1> QED
  BY <1>1, <1>6, <1>7, SameMessages

LEMMA LinkedWithRows ==
  ASSUME NEW d, Sound(d), Linked(d), NEW c \in d.convs, NEW msgs \in Seq(Message)
  PROVE  Linked(WithRows(d, c, msgs)) /\ WithRows(d, c, msgs).convs = d.convs
<1> SUFFICES ASSUME NEW e, e = WithRows(d, c, msgs)
             PROVE  Linked(e) /\ e.convs = d.convs
  OBVIOUS
<1>1. c \in Convs
  BY DEF Sound, IsDatabase
<1>2. HasAdded(e, d, c, msgs)
  BY <1>1, WithRowsShape
<1> QED
  BY <1>2 DEF HasAdded, Linked

\* An append makes its conversation longer.
LEMMA AppendedIsGrown ==
  ASSUME NEW d, Sound(d), NEW c \in d.convs, NEW msgs \in Seq(Message)
  PROVE  Grown(d, WithRows(d, c, msgs))
<1> SUFFICES ASSUME NEW e, e = WithRows(d, c, msgs) PROVE Grown(d, e)
  OBVIOUS
<1>1. c \in Convs
  BY DEF Sound, IsDatabase
<1>a. HasAdded(e, d, c, msgs)
  BY <1>1, WithRowsShape
<1>2. e.convs = d.convs
  BY <1>a DEF HasAdded
<1>3. ASSUME NEW x \in e.convs PROVE GrowsTo(d, e, x)
  <2>a. KeepsOthers(d, e, c, x)
    BY <1>1, OthersKeptByRows
  <2>1. Archived(e, x) = Archived(d, x)
    BY <2>a DEF Archived, KeepsOthers
  <2>2. CASE x = c
    <3>1. Active(e, x) = Active(d, x) \o msgs
      BY <1>1, <2>2, AddedAtTheEnd DEF Active
    <3> QED BY <2>1, <3>1 DEF GrowsTo
  <2>3. CASE x # c
    <3>1. Active(e, x) = Active(d, x)
      BY <2>a, <2>3 DEF Active, KeepsOthers
    <3> QED BY <2>1, <3>1, SameGrows
  <2> QED BY <2>2, <2>3
<1> QED
  BY <1>2, <1>3 DEF Grown

\* A compaction: what was active is archived, and the messages are active.
LEMMA CompactedFollows ==
  ASSUME NEW d, Sound(d), Linked(d), NEW c \in d.convs,
         NEW msgs \in Seq(Message), msgs # << >>
  PROVE  LET e == WithRows(WithArchived(d, c), c, msgs)
         IN  Follows(d, e) /\ Linked(e) /\ e.convs = d.convs
<1> DEFINE a == WithArchived(d, c)
           e == WithRows(a, c, msgs)
<1>1. c \in Convs
  BY DEF Sound, IsDatabase
<1>2. Sound(a)
  BY WithArchivedIsSound
<1>3. /\ a.convs = d.convs /\ DOMAIN a.rows = DOMAIN d.rows
      /\ \A i \in DOMAIN d.rows :
           /\ a.rows[i].conv = d.rows[i].conv
           /\ a.rows[i].seq = d.rows[i].seq
           /\ a.rows[i].msg = d.rows[i].msg
           /\ a.rows[i].active = (d.rows[i].active /\ d.rows[i].conv # c)
  BY WithArchivedShape
<1>4. /\ MessagesOf(a.rows, c, FALSE)
           = MessagesOf(d.rows, c, FALSE) \o MessagesOf(d.rows, c, TRUE)
      /\ MessagesOf(a.rows, c, TRUE) = << >>
  BY ArchivedAtTheEnd
<1>5. \A i \in DOMAIN d.rows : d.rows[i].active \in BOOLEAN
  BY RowTypes DEF Sound
<1> HIDE DEF a
<1>6. Linked(a)
  BY <1>3 DEF Linked
<1>a. e = WithRows(a, c, msgs)
  OBVIOUS
<1> HIDE DEF e
<1>7. Linked(e) /\ e.convs = d.convs
  BY <1>2, <1>3, <1>6, <1>a, LinkedWithRows
<1>8. CompactsTo(d, e, c)
  <2>a. KeepsOthers(a, e, c, c)
    BY <1>1, <1>2, <1>a, OthersKeptByRows
  <2>1. MessagesOf(e.rows, c, FALSE) = MessagesOf(a.rows, c, FALSE)
    BY <2>a DEF KeepsOthers
  <2>2. MessagesOf(e.rows, c, TRUE) = MessagesOf(a.rows, c, TRUE) \o msgs
    BY <1>1, <1>2, <1>a, AddedAtTheEnd
  <2>3. << >> \o msgs = msgs
    BY ConcatEmptySeq
  <2> QED BY <1>4, <2>1, <2>2, <2>3 DEF CompactsTo, Archived, Active
<1>9. ASSUME NEW x, x # c, NEW active \in BOOLEAN
      PROVE  MessagesOf(e.rows, x, active) = MessagesOf(d.rows, x, active)
  <2>a. KeepsOthers(a, e, c, x)
    BY <1>1, <1>2, <1>a, OthersKeptByRows
  <2>1. MessagesOf(e.rows, x, active) = MessagesOf(a.rows, x, active)
    BY <2>a, <1>9 DEF KeepsOthers
  <2>2. \A i \in DOMAIN d.rows : d.rows[i].conv # c
           => (a.rows[i].active <=> d.rows[i].active) /\ a.rows[i].active \in BOOLEAN
    BY <1>3, <1>5, Zenon
  <2>3. \A i \in DOMAIN d.rows : d.rows[i].conv = x => a.rows[i].active = d.rows[i].active
    BY <1>9, <2>2, <1>5
  <2>4. Loads(a, x, active) \subseteq Loads(d, x, active)
    BY <1>3, <2>3 DEF Loads, RowsOf
  <2>5. Loads(d, x, active) \subseteq Loads(a, x, active)
    BY <1>3, <2>3 DEF Loads, RowsOf
  <2>6. Loads(a, x, active) = Loads(d, x, active)
    BY <2>4, <2>5
  <2>7. \A i \in Loads(d, x, active) :
          a.rows[i].seq = d.rows[i].seq /\ a.rows[i].msg = d.rows[i].msg
    BY <1>3 DEF Loads, RowsOf
  <2>8. MessagesOf(a.rows, x, active) = MessagesOf(d.rows, x, active)
    BY <1>2, <2>6, <2>7, SameMessages
  <2> QED BY <2>1, <2>8
<1>10. ASSUME NEW x, x # c PROVE GrowsTo(d, e, x)
  BY <1>9, <1>10, SameGrows DEF Archived, Active
<1>11. Follows(d, e)
  BY <1>7, <1>8, <1>10 DEF Follows
<1> QED
  BY <1>7, <1>11 DEF e, a

------------------------------------------------------------------------------
(* The two threads *)

\* What the connection sees follows what is committed; a conversation that is
\* there was given out, the agent's is committed, and is not the one imported.
LogInv ==
  /\ Follows(db, work) /\ Linked(db) /\ Linked(work)
  /\ db.convs \subseteq used /\ work.convs \subseteq used
  /\ session # NoConversation =>
       session \in db.convs /\ session \in work.convs /\ session # importing
  /\ importing # NoConversation => importing \in used
  /\ ui \in {"idle", "left"} => importing = NoConversation

\* The part of LogInv about the tables, and the move of what is committed.
TablesFollow ==
  /\ Follows(db', work') /\ Linked(db') /\ Linked(work')
  /\ Follows(db, db')

LEMMA NewConversations ==
  ASSUME LogInv, NEW new, \A c \in new.convs : c \in work.convs \/ c \notin used
  PROVE  \A c \in new.convs : c \in work.convs \/ c \notin db.convs
BY DEF LogInv

LEMMA WriteFollows ==
  ASSUME Tables, LogInv, NEW new, Sound(new), Linked(new), Grown(work, new),
         \A c \in new.convs : c \in work.convs \/ c \notin used,
         Write(new)
  PROVE  /\ TablesFollow
         /\ work'.convs = new.convs /\ db'.convs \in {db.convs, new.convs}
<1>1. Sound(db) /\ Sound(work) /\ (~in_txn => work = db) /\ in_txn \in BOOLEAN
  BY DEF Tables
<1>2. Follows(db, work) /\ Linked(db)
  BY DEF LogInv
<1>3. Follows(db, new)
  BY <1>1, <1>2, NewConversations, FollowsAndGrows
<1>4. Follows(db, db) /\ Follows(new, new)
  BY <1>1, StaysGrown
<1>5. work' = new /\ db' = IF in_txn THEN db ELSE new
  BY DEF Write
<1>6. CASE in_txn
  BY <1>2, <1>3, <1>4, <1>5, <1>6 DEF TablesFollow
<1>7. CASE ~in_txn
  BY <1>2, <1>3, <1>4, <1>5, <1>7 DEF TablesFollow
<1> QED
  BY <1>1, <1>6, <1>7

LEMMA KeptFollows ==
  ASSUME Tables, LogInv, UNCHANGED store
  PROVE  TablesFollow /\ work' = work /\ db' = db
<1>1. db' = db /\ work' = work
  BY DEF store
<1>2. Follows(db, db)
  BY StaysGrown DEF Tables
<1> QED
  BY <1>1, <1>2 DEF LogInv, TablesFollow

LEMMA CompressedIsNotEmpty ==
  ASSUME NEW msgs \in Seq(Message), NEW cut \in Cuts(msgs), NEW kind \in Kinds
  PROVE  Compressed(msgs, cut, kind) # << >>
<1> DEFINE first == SubSeq(msgs, 1, cut[1])
           rest == SubSeq(msgs, cut[2] + 1, Len(msgs))
           one == <<MessageOf(kind, 0)>>
<1>1. cut[1] \in Int /\ cut[1] <= Len(msgs) /\ cut[2] + 1 \in Int /\ cut[2] + 1 >= 1
      /\ Len(msgs) \in Int
  BY LenProperties DEF Cuts
<1>2. first \in Seq(Message)
  <2>1. \A i \in 1..cut[1] : msgs[i] \in Message
    BY <1>1, ElementOfSeq
  <2> QED BY <2>1, <1>1, SubSeqProperties
<1>3. rest \in Seq(Message)
  <2>1. \A i \in cut[2] + 1..Len(msgs) : msgs[i] \in Message
    BY <1>1, ElementOfSeq
  <2> QED BY <2>1, <1>1, SubSeqProperties
<1>4. one \in Seq(Message) /\ one # << >>
  BY MessageTypes
<1> HIDE DEF first, rest, one
<1>5. first \o one \in Seq(Message) /\ first \o one # << >>
  BY <1>2, <1>4, ConcatProperties, ConcatEqualIffEmpty
<1>6. (first \o one) \o rest # << >>
  BY <1>3, <1>5, ConcatEqualIffEmpty
<1> QED
  BY <1>6 DEF Compressed, first, one, rest

LEMMA AgentNextFollows ==
  ASSUME StoreInv, LogInv, AgentNext
  PROVE  LogInv' /\ Follows(db, db')
<1>1. /\ Sound(db) /\ Sound(work) /\ work.last \in Nat /\ Tables /\ ThreadTypes
      /\ Linked(work) /\ Linked(db)
  BY DEF StoreInv, Tables, Sound, IsDatabase, LogInv
<1>2. ASSUME NEW c \in Sessions, CreateConversation(c)
      PROVE  LogInv' /\ Follows(db, db')
  <2> DEFINE new == WithConversation(work, c)
  <2>1. c \in Convs /\ c \notin used /\ Write(new) /\ c # NoConversation
    BY <1>2, BoundsAreNaturals DEF Convs, CreateConversation
  <2>2. Sound(new) /\ Grown(work, new) /\ Linked(new)
        /\ new.convs = work.convs \cup {c}
    BY <1>1, <2>1, WithConversationIsSound, CreatedIsGrown
  <2>3. ~in_txn /\ session' = c /\ used' = used \cup {c}
        /\ ui' = ui /\ importing' = importing
    BY <1>2 DEF CreateConversation, calls
  <2> HIDE DEF new
  <2>4. db' = new /\ work' = new
    BY <2>1, <2>3 DEF Write
  <2>5. \A x \in new.convs : x \in work.convs \/ x \notin used
    BY <2>1, <2>2
  <2>6. TablesFollow
    BY <1>1, <2>1, <2>2, <2>5, WriteFollows
  <2> QED BY <2>1, <2>2, <2>3, <2>4, <2>6 DEF LogInv, TablesFollow
<1>3. ASSUME NEW kind \in Kinds, Say(kind)
      PROVE  LogInv' /\ Follows(db, db')
  <2> DEFINE msgs == <<MessageOf(kind, work.last + 1)>>
             new == WithRows(work, session, msgs)
  <2>1. session \in work.convs /\ session \in Convs /\ Write(new)
    BY <1>1, <1>3 DEF Say, ThreadTypes, LogInv
  <2>2. msgs \in Seq(Message)
    BY <1>1, MessageTypes
  <2> HIDE DEF msgs
  <2>3. Sound(new) /\ Grown(work, new) /\ Linked(new) /\ new.convs = work.convs
    BY <1>1, <2>1, <2>2, WithRowsIsSound, AppendedIsGrown, LinkedWithRows
  <2> HIDE DEF new
  <2>4. TablesFollow /\ work'.convs = new.convs
        /\ db'.convs \in {db.convs, new.convs}
    BY <1>1, <2>1, <2>3, WriteFollows
  <2>5. UNCHANGED <<ui, importing, session, used>>
    BY <1>3 DEF Say, calls
  <2> QED BY <2>3, <2>4, <2>5 DEF LogInv, TablesFollow
<1>4. ASSUME NEW kind \in Kinds,
             NEW cut \in Cuts(MessagesOf(work.rows, session, TRUE)),
             BeginArchive(Compressed(MessagesOf(work.rows, session, TRUE), cut, kind))
      PROVE  LogInv' /\ Follows(db, db')
  <2> DEFINE msgs == Compressed(MessagesOf(work.rows, session, TRUE), cut, kind)
             new == WithRows(WithArchived(work, session), session, msgs)
  <2>1. msgs \in Seq(Message) /\ msgs # << >>
    BY <1>1, LoadedAreMessages, CompressedAreMessages, CompressedIsNotEmpty
  <2> HIDE DEF msgs
  <2>2. BeginArchive(msgs)
    BY <1>4 DEF msgs
  <2>3. session \in work.convs /\ work' = new /\ db' = db /\ work = db
    BY <1>1, <2>2 DEF BeginArchive, ThreadTypes, LogInv, Tables
  <2>4. Follows(work, new) /\ Linked(new) /\ new.convs = work.convs
    BY <1>1, <2>1, <2>3, CompactedFollows
  <2> HIDE DEF new
  <2>5. UNCHANGED <<ui, importing, session, used>>
    BY <2>2 DEF BeginArchive, calls
  <2>6. Follows(db, db)
    BY <1>1, StaysGrown
  <2> QED BY <1>1, <2>3, <2>4, <2>5, <2>6 DEF LogInv
<1>5. ASSUME CommitArchive PROVE LogInv' /\ Follows(db, db')
  <2>1. db' = work /\ work' = work
    BY <1>5 DEF CommitArchive
  <2>2. UNCHANGED <<ui, importing, session, used>>
    BY <1>5 DEF CommitArchive, calls
  <2>3. Follows(work, work)
    BY <1>1, StaysGrown
  <2> QED BY <2>1, <2>2, <2>3 DEF LogInv
<1>6. ASSUME RollbackArchive PROVE LogInv' /\ Follows(db, db')
  <2>1. db' = db /\ work' = db
    BY <1>6 DEF RollbackArchive
  <2>2. UNCHANGED <<ui, importing, session, used>>
    BY <1>6 DEF RollbackArchive, calls
  <2>3. Follows(db, db)
    BY <1>1, StaysGrown
  <2> QED BY <2>1, <2>2, <2>3 DEF LogInv
<1> QED
  BY <1>2, <1>3, <1>4, <1>5, <1>6 DEF AgentNext

LEMMA StoreLineFollows ==
  ASSUME StoreInv, LogInv, NEW kind \in Kinds, StoreLine(kind)
  PROVE  /\ TablesFollow
         /\ work'.convs = work.convs /\ db'.convs \in {db.convs, work.convs}
<1> DEFINE msgs == <<MessageOf(kind, work.last + 1)>>
           new == WithRows(work, importing, msgs)
<1>1. Tables /\ Sound(work) /\ work.last \in Nat /\ work.convs \subseteq Convs
      /\ Linked(work)
  BY DEF StoreInv, Tables, Sound, IsDatabase, LogInv
<1>2. importing \in work.convs /\ importing \in Convs /\ Write(new)
  BY <1>1 DEF StoreLine
<1>3. msgs \in Seq(Message)
  BY <1>1, MessageTypes
<1> HIDE DEF msgs
<1>4. Sound(new) /\ Grown(work, new) /\ Linked(new) /\ new.convs = work.convs
  BY <1>1, <1>2, <1>3, WithRowsIsSound, AppendedIsGrown, LinkedWithRows
<1> HIDE DEF new
<1>5. TablesFollow /\ work'.convs = new.convs /\ db'.convs \in {db.convs, new.convs}
  BY <1>1, <1>2, <1>4, WriteFollows
<1> QED
  BY <1>4, <1>5

LEMMA ImportNextFollows ==
  ASSUME StoreInv, LogInv, ImportNext
  PROVE  LogInv' /\ Follows(db, db')
<1>1. Tables /\ ThreadTypes /\ Sound(work) /\ Linked(work)
  BY DEF StoreInv, Tables, LogInv
<1>2. ASSUME NEW c \in Imports, BeginImport(c)
      PROVE  LogInv' /\ Follows(db, db')
  <2> DEFINE new == WithConversation(work, c)
  <2>1. c \in Convs /\ c \notin used /\ Write(new)
    BY <1>2 DEF Convs, BeginImport
  <2>2. Sound(new) /\ Grown(work, new) /\ Linked(new)
        /\ new.convs = work.convs \cup {c}
    BY <1>1, <2>1, WithConversationIsSound, CreatedIsGrown
  <2>3. ui' = "import" /\ importing' = c /\ used' = used \cup {c} /\ session' = session
    BY <1>2 DEF BeginImport
  <2> HIDE DEF new
  <2>4. \A x \in new.convs : x \in work.convs \/ x \notin used
    BY <2>1, <2>2
  <2>5. TablesFollow /\ work'.convs = new.convs
        /\ db'.convs \in {db.convs, new.convs}
    BY <1>1, <2>1, <2>2, <2>4, WriteFollows
  <2>6. session # NoConversation => session # c
    BY <2>1 DEF LogInv
  <2> QED BY <2>2, <2>3, <2>5, <2>6 DEF LogInv, TablesFollow
<1>3. ASSUME NEW kind \in Kinds, ImportLine(kind)
      PROVE  LogInv' /\ Follows(db, db')
  <2>1. /\ TablesFollow
        /\ work'.convs = work.convs /\ db'.convs \in {db.convs, work.convs}
    BY <1>3, StoreLineFollows DEF ImportLine
  <2>2. UNCHANGED <<ui, importing, session, used>>
    BY <1>3 DEF ImportLine, calls
  <2> QED BY <2>1, <2>2 DEF LogInv, TablesFollow
<1>4. ASSUME NEW kind \in Kinds, ImportLineFails(kind)
      PROVE  LogInv' /\ Follows(db, db')
  <2>1. StoreLine(kind) \/ UNCHANGED store
    BY <1>4 DEF ImportLineFails
  <2>2. /\ TablesFollow
        /\ work'.convs = work.convs /\ db'.convs \in {db.convs, work.convs}
    BY <1>1, <2>1, StoreLineFollows, KeptFollows
  <2>3. UNCHANGED <<importing, session, used>> /\ ui' = "remove"
    BY <1>4 DEF ImportLineFails
  <2> QED BY <2>2, <2>3 DEF LogInv, TablesFollow
<1>5. ASSUME RemovePartial PROVE LogInv' /\ Follows(db, db')
  <2> DEFINE new == Without(work, importing)
  <2>1. Sound(new) /\ Grown(work, new) /\ Linked(new)
        /\ new.convs = work.convs \ {importing}
    BY <1>1, WithoutIsSound, RemovedIsGrown
  <2> HIDE DEF new
  <2>2. ui' = "idle" /\ importing' = NoConversation /\ UNCHANGED <<session, used>>
    BY <1>5 DEF RemovePartial
  <2>3. CASE Write(new)
    <3>1. TablesFollow /\ work'.convs = new.convs
          /\ db'.convs \in {db.convs, new.convs}
      BY <1>1, <2>1, <2>3, WriteFollows
    <3> QED BY <2>1, <2>2, <3>1 DEF LogInv, TablesFollow
  <2>4. CASE UNCHANGED store
    BY <1>1, <2>2, <2>4, KeptFollows DEF LogInv, TablesFollow
  <2> QED BY <1>5, <2>3, <2>4 DEF RemovePartial, new
<1>6. ASSUME ImportReturns PROVE LogInv' /\ Follows(db, db')
  <2>1. UNCHANGED store /\ UNCHANGED <<session, used>>
        /\ ui' = "idle" /\ importing' = NoConversation
    BY <1>6 DEF ImportReturns
  <2> QED BY <1>1, <2>1, KeptFollows DEF LogInv, TablesFollow
<1> QED
  BY <1>2, <1>3, <1>4, <1>5, <1>6 DEF ImportNext

LEMMA NextFollows ==
  ASSUME StoreInv, LogInv, Next
  PROVE  LogInv' /\ Follows(db, db')
<1>1. Tables /\ ThreadTypes
  BY DEF StoreInv
<1>2. ASSUME UNCHANGED <<store, importing, used>>,
             ui' \in {ui, "left"}, ui' = ui \/ ui = "idle",
             \/ session' \in {session, NoConversation}
             \/ session' \in work.convs /\ work = db /\ importing = NoConversation
      PROVE  LogInv' /\ Follows(db, db')
  <2>1. TablesFollow /\ work' = work /\ db' = db
    BY <1>1, <1>2, KeptFollows
  <2>2. session' # NoConversation =>
          session' \in db.convs /\ session' \in work.convs /\ session' # importing
    BY <1>2 DEF LogInv
  <2> QED BY <1>2, <2>1, <2>2 DEF LogInv, TablesFollow
<1>3. CASE StoreNext
  BY <1>3, AgentNextFollows, ImportNextFollows DEF StoreNext
<1>4. CASE WorkerNext
  <2>1. UNCHANGED <<store, calls, session, used>>
    BY <1>4, Zenon DEF WorkerNext, StartupCatchUp, TakeJob, WorkerEnds, Load,
       LoadCutShort, LoadFromStart, ProcessFails, ProviderAnswers, FactsStored,
       SetWatermark, WatermarkNotSet, storeVars
  <2> QED BY <1>2, <2>1 DEF calls
<1>5. CASE SessionNext
  <2>1. CASE StartNewSession
    BY <1>2, <2>1 DEF StartNewSession, calls
  <2>2. ASSUME NEW c \in Convs, ResumeSession(c) PROVE LogInv' /\ Follows(db, db')
    <3>1. work = db /\ importing = NoConversation
      BY <1>1, <2>2 DEF ResumeSession, Tables, LogInv
    <3> QED BY <1>2, <2>2, <3>1 DEF ResumeSession, calls
  <2>3. CASE Leave
    BY <1>2, <2>3 DEF Leave
  <2>4. CASE Shutdown
    BY <1>2, <2>4 DEF Shutdown, storeVars, calls
  <2> QED BY <1>5, <2>1, <2>2, <2>3, <2>4 DEF SessionNext
<1>6. CASE WorkerJoined \/ Crash
  <2>1. StoreClosed
    BY <1>6 DEF WorkerJoined, Crash, Ended
  <2>2. /\ db' = db /\ work' = db /\ used' = used /\ ui' = "idle"
        /\ importing' = NoConversation /\ session' = NoConversation
    BY <2>1 DEF StoreClosed
  <2>3. Follows(db, db)
    BY <1>1, StaysGrown DEF Tables
  <2> QED BY <2>2, <2>3 DEF LogInv
<1>7. CASE StartProcess
  BY <1>2, <1>7 DEF StartProcess, storeVars, calls
<1> QED
  BY <1>3, <1>4, <1>5, <1>6, <1>7 DEF Next

------------------------------------------------------------------------------
(* The refinement *)

TranscriptsOf(d) ==
  [c \in d.convs |-> [archived |-> Archived(d, c), active |-> Active(d, c)]]

LEMMA FollowsMoves ==
  ASSUME NEW d, NEW e, Sound(d), Sound(e), Follows(d, e)
  PROVE  Log!Moves(TranscriptsOf(d), TranscriptsOf(e))
<1> DEFINE before == TranscriptsOf(d)
           after == TranscriptsOf(e)
<1>1. DOMAIN before = d.convs /\ DOMAIN after = e.convs
  BY DEF TranscriptsOf
<1>2. \A c \in d.convs : before[c].archived = Archived(d, c)
                       /\ before[c].active = Active(d, c)
  BY DEF TranscriptsOf
<1>3. \A c \in e.convs :
        after[c] = [archived |-> Archived(e, c), active |-> Active(e, c)]
  BY DEF TranscriptsOf
<1> HIDE DEF before, after
<1>4. ASSUME NEW c \in d.convs, c \in e.convs, GrowsTo(d, e, c)
      PROVE  Log!Grows(before[c], after[c])
  <2>1. PICK more \in Seq(Message) : Active(e, c) = Active(d, c) \o more
    BY <1>4 DEF GrowsTo
  <2> DEFINE s == Active(d, c)
             t == Active(e, c)
  <2>2. s \in Seq(Message) /\ t \in Seq(Message) /\ Len(s) \in Nat
    BY ListsAreMessages, LenProperties
  <2>3. t = s \o more
    BY <2>1
  <2> HIDE DEF s, t
  <2>4. Len(t) = Len(s) + Len(more) /\ Len(more) \in Nat
        /\ \A i \in 1..Len(s) : t[i] = s[i]
    BY <2>2, <2>3, ConcatProperties, LenProperties
  <2>5. Len(s) <= Len(t)
    BY <2>2, <2>4
  <2>6. SubSeq(s, 1, Len(s)) = SubSeq(t, 1, Len(s))
    <3> DEFINE u == SubSeq(s, 1, Len(s))
               v == SubSeq(t, 1, Len(s))
    <3>1. \A i \in 1..Len(s) : s[i] \in Message /\ t[i] \in Message
      BY <2>2, <2>4, ElementOfSeq
    <3>2. 1 \in Int /\ Len(s) \in Int /\ (1 <= Len(s) \/ Len(s) = 0)
      BY <2>2
    <3>3. /\ u \in Seq(Message) /\ Len(u) = Len(s)
          /\ \A i \in 1..Len(s) : u[i] = s[i]
      BY <3>1, <3>2, SubSeqProperties
    <3>4. /\ v \in Seq(Message) /\ Len(v) = Len(s)
          /\ \A i \in 1..Len(s) : v[i] = t[i]
      BY <3>1, <3>2, SubSeqProperties
    <3> HIDE DEF u, v
    <3>5. u = v
      BY <2>4, <3>3, <3>4, SeqEqual
    <3> QED BY <3>5 DEF u, v
  <2>7. Log!IsPrefix(s, t)
    BY <2>5, <2>6 DEF Log!IsPrefix
  <2>8. after[c] = [archived |-> Archived(e, c), active |-> t]
    BY <1>3, <1>4 DEF t
  <2>9. after[c].active = t /\ after[c].archived = Archived(e, c)
    BY <2>8
  <2>10. before[c].active = s /\ before[c].archived = Archived(d, c)
    BY <1>2 DEF s
  <2> QED BY <1>4, <2>7, <2>9, <2>10 DEF Log!Grows, GrowsTo
<1>5. ASSUME NEW c \in d.convs, c \in e.convs, CompactsTo(d, e, c)
      PROVE  Log!IsCompacted(before[c], after[c])
  <2>1. after[c] = [archived |-> Archived(e, c), active |-> Active(e, c)]
    BY <1>3, <1>5
  <2>2. after[c].active = Active(e, c)
    BY <2>1
  <2>3. before[c].archived = Archived(d, c) /\ before[c].active = Active(d, c)
    BY <1>2
  <2>4. after[c] = Log!Compacted(before[c], after[c].active)
    BY <1>5, <2>1, <2>2, <2>3 DEF Log!Compacted, CompactsTo
  <2> QED BY <1>5, <2>2, <2>4 DEF Log!IsCompacted, CompactsTo
<1>6. ASSUME NEW c \in e.convs, c \notin d.convs
      PROVE  after[c].archived = << >>
  <2>1. Archived(e, c) = << >>
    BY <1>6 DEF Follows
  <2>2. after[c] = [archived |-> Archived(e, c), active |-> Active(e, c)]
    BY <1>3
  <2>3. after[c].archived = Archived(e, c)
    BY <2>2
  <2> QED BY <2>1, <2>3
<1>7. ASSUME NEW c \in DOMAIN after
      PROVE  IF c \notin DOMAIN before THEN after[c].archived = << >>
             ELSE Log!Grows(before[c], after[c]) \/ Log!IsCompacted(before[c], after[c])
  BY <1>1, <1>4, <1>5, <1>6, <1>7 DEF Follows
<1>8. Log!Moves(before, after)
  BY <1>7 DEF Log!Moves
<1> QED
  BY <1>8 DEF before, after

LEMMA LogInitSound == Init => LogInv /\ Log!Init
<1> SUFFICES ASSUME Init PROVE LogInv /\ Log!Init
  OBVIOUS
<1>1. db = EmptyDatabase /\ work = EmptyDatabase /\ ui = "idle"
      /\ importing = NoConversation /\ session = NoConversation /\ used = {}
  BY DEF Init, StoreInit
<1>2. db.convs = {} /\ db.rows = << >>
  BY <1>1 DEF EmptyDatabase
<1>3. DOMAIN db.rows = {}
  BY <1>2
<1>4. Linked(db) /\ Follows(db, work)
  BY <1>1, <1>2, <1>3 DEF Linked, Follows
<1>5. LogInv
  BY <1>1, <1>2, <1>4 DEF LogInv
<1>6. Transcripts = << >>
  BY <1>2 DEF Transcripts
<1> QED
  BY <1>5, <1>6 DEF Log!Init

LEMMA LogNextSound ==
  IInv /\ LogInv /\ [Next]_vars => LogInv' /\ [Log!Next]_Transcripts
<1> SUFFICES ASSUME IInv, LogInv, [Next]_vars
             PROVE  LogInv' /\ [Log!Next]_Transcripts
  OBVIOUS
<1>1. CASE Next
  <2>1. LogInv' /\ Follows(db, db')
    BY <1>1, NextFollows DEF IInv
  <2>2. Sound(db) /\ Sound(db)'
    BY <1>1, NextKeepsStore DEF IInv, StoreInv, Tables
  <2>3. Log!Moves(TranscriptsOf(db), TranscriptsOf(db'))
    BY <2>1, <2>2, FollowsMoves
  <2>4. Transcripts = TranscriptsOf(db) /\ Transcripts' = TranscriptsOf(db')
    BY DEF Transcripts, TranscriptsOf, Archived, Active
  <2> QED BY <2>1, <2>3, <2>4 DEF Log!Next
<1>2. CASE UNCHANGED vars
  <2>1. UNCHANGED <<db, work, ui, importing, session, used>>
    BY <1>2 DEF vars, storeVars, store, calls
  <2>2. LogInv'
    BY <2>1 DEF LogInv
  <2>3. Transcripts' = Transcripts
    BY <2>1 DEF Transcripts
  <2> QED BY <2>2, <2>3
<1> QED
  BY <1>1, <1>2

\* The committed conversations implement TranscriptLog: each grows at its end
\* or is compacted as a whole, whatever rows, transactions, the two threads of
\* the connection, rollbacks and crashes do (SqliteConversationStore).
THEOREM StoreImplementsLog == Spec => ImplementsTranscriptLog
<1>1. Spec => []IInv
  BY Invariant
<1>2. Init => LogInv /\ Log!Init
  BY LogInitSound
<1>3. IInv /\ LogInv /\ [Next]_vars => LogInv' /\ [Log!Next]_Transcripts
  BY LogNextSound
<1> QED
  BY <1>1, <1>2, <1>3, PTL DEF Spec, ImplementsTranscriptLog, Log!Spec

=============================================================================
