----------------------------- MODULE FactMemory -----------------------------
(***************************************************************************)
(* The fact memory: facts, entities and the links between them in one      *)
(* SQLite database (src/src/memory/HolographicMemory.cpp), the queries     *)
(* over them (FactRetriever.cpp) and the tools that call it                *)
(* (FactStoreTool.cpp, FactFeedbackTool.cpp, MemoryTool.cpp).  An          *)
(* operation is several SQL statements without a transaction, on one       *)
(* connection that the threads of the process share, and                   *)
(* last_insert_rowid() belongs to the connection.  Foreign keys are not    *)
(* switched on, so a removed fact leaves its links behind.                 *)
(*                                                                         *)
(* A content is a set of words.  Trust is counted in steps of 0.05.  Left  *)
(* out: tags, times, importance and retrieval counts, which no decision    *)
(* reads; vectors are represented by the content they encode.              *)
(***************************************************************************)
EXTENDS Integers, FiniteSets

CONSTANTS
  FactThreads,   \* threads that use the memory: of agents, and the extractor's worker
  FactExtractor, \* the worker
  FactContents,  \* contents of facts
  FactWords,     \* words of each content, a function
  FactNames,     \* words the extractor takes for entities
  FactStopWords, \* words the sanitizer drops
  FactCategory,  \* category each content is added with, a function
  FactMaxOps     \* bound: operations

ASSUME FactAssumption ==
  /\ FactMaxOps \in Nat
  /\ DOMAIN FactWords = FactContents /\ DOMAIN FactCategory = FactContents

VARIABLES
  facts,         \* id -> [content, trust, vector]
  factEntities,  \* table entities: name -> entity_id
  factLinks,     \* table fact_entities: pairs of fact_id and entity_id
  factNextId,    \* next id of AUTOINCREMENT
  factLastRow,   \* sqlite3_last_insert_rowid of the connection
  factCall,      \* operation of each thread
  factOps,       \* operations begun
  factOverlap    \* two operations have been under way together

factVars == <<facts, factEntities, factLinks, factNextId, factLastRow, factCall,
              factOps, factOverlap>>

FactFloor == 0    \* trust_floor
FactCeiling == 20 \* trust_ceiling
FactAddTrust == 10
FactMinTrust == 6

FactClamp(x) ==
  IF x < FactFloor THEN FactFloor ELSE IF x > FactCeiling THEN FactCeiling ELSE x
FactStoreTrust(importance) ==
  IF 6 + importance > FactCeiling THEN FactCeiling ELSE 6 + importance

-----------------------------------------------------------------------------
\* EntityExtractor and FtsSanitizer.

Extract(c) == FactWords[c] \cap FactNames
Tokenize(c) == FactWords[c]
Sanitize(c) == Tokenize(c) \ FactStopWords
\* In twelfths.
Jaccard(a, b) ==
  IF a \cup b = {} THEN 12 ELSE (12 * Cardinality(a \cap b)) \div Cardinality(a \cup b)

-----------------------------------------------------------------------------
\* The queries, as functions of the tables.

FactLinksOf(id) == {e \in DOMAIN factEntities : <<id, factEntities[e]>> \in factLinks}
FactTrusted(min) == {id \in DOMAIN facts : facts[id].trust >= min}
FactIn(S, category) ==
  {id \in S : category # "" => FactCategory[facts[id].content] = category}

\* The subsets of S that ORDER BY key DESC LIMIT n may return.
FactTops(S, n, key) ==
  LET size == IF Cardinality(S) < n THEN Cardinality(S) ELSE n
  IN {T \in SUBSET S : Cardinality(T) = size /\ \A x \in T, y \in S \ T : key[x] >= key[y]}
FactByTrust == [id \in DOMAIN facts |-> facts[id].trust]

FindByEntity(e, category, limit) ==
  FactTops(FactIn({id \in FactTrusted(FactMinTrust) : e \in FactLinksOf(id)}, category),
           limit, FactByTrust)

\* Both joins go through the entity itself: a fact is related when another has it too.
FindRelated(e, category, limit) ==
  LET carriers == {id \in DOMAIN facts : e \in FactLinksOf(id)}
  IN FactTops(FactIn({id \in carriers \cap FactTrusted(FactMinTrust) :
                        carriers \ {id} # {}}, category), limit, FactByTrust)

FindByEntities(E, category, limit) ==
  FactTops(FactIn({id \in FactTrusted(FactMinTrust) : E \subseteq FactLinksOf(id)}, category),
           limit, FactByTrust)

FindContradictions(category, threshold) ==
  {p \in FactIn(FactTrusted(FactMinTrust), category) \X
         FactIn(FactTrusted(FactMinTrust), category) :
     /\ p[1] < p[2]
     /\ LET shared == FactLinksOf(p[1]) \cap FactLinksOf(p[2])
            alike == Jaccard(Tokenize(facts[p[1]].content), Tokenize(facts[p[2]].content))
        IN shared # {} /\ Cardinality(shared) * (12 - alike) >= threshold}

\* probe: find_by_entity, its answer reordered by the vectors.
FactProbe(e, category, limit) == FindByEntity(e, category, limit)

FtsCandidates(q, limit) ==
  LET hits == {id \in DOMAIN facts : Sanitize(q) \cap Tokenize(facts[id].content) # {}}
  IN FactTops(hits, limit, [id \in DOMAIN facts |->
                              Cardinality(Sanitize(q) \cap Tokenize(facts[id].content))])

\* The substring search takes the query as written, stop words included.
LikeCandidates(q, category, minTrust) ==
  FactIn({id \in FactTrusted(minTrust) :
            Tokenize(q) \subseteq Tokenize(facts[id].content)}, category)

FactScores(q) ==
  [id \in DOMAIN facts |->
     facts[id].trust * Jaccard(Tokenize(q), Tokenize(facts[id].content))]

\* Candidates are cut to three times the limit before trust and category are looked at.
FactSearch(q, category, minTrust, limit) ==
  LET chosen(C) == IF C = {} THEN LikeCandidates(q, category, minTrust) ELSE C
  IN UNION {FactTops(FactIn(chosen(C) \cap FactTrusted(minTrust), category),
                     limit, FactScores(q)) : C \in FtsCandidates(q, 3 * limit)}

ListFacts(category, minTrust, limit) ==
  FactTops(FactIn(FactTrusted(minTrust), category), limit, FactByTrust)

-----------------------------------------------------------------------------
\* Statements of the operations.  A call: what it does, the row it works on,
\* the names still to be linked, and the next statement.

FactIdle == [op |-> "none", pc |-> "idle", id |-> 0, content |-> "", trust |-> 0, todo |-> {}]
FactBusy == {t \in FactThreads : factCall[t] # FactIdle}
FactIdOf(c) == CHOOSE id \in DOMAIN facts : facts[id].content = c
FactHas(c) == \E id \in DOMAIN facts : facts[id].content = c

FactGo(t, call) == factCall' = [factCall EXCEPT ![t] = call]
FactAt(t, pc) == factCall[t].pc = pc

FactBegin(t, op, pc, id, content, trust) ==
  /\ factCall[t] = FactIdle /\ factOps < FactMaxOps
  /\ FactGo(t, [op |-> op, pc |-> pc, id |-> id, content |-> content, trust |-> trust,
                todo |-> {}])
  /\ factOps' = factOps + 1
  /\ factOverlap' = (factOverlap \/ FactBusy # {})
  /\ UNCHANGED <<facts, factEntities, factLinks, factNextId, factLastRow>>

\* add_fact and store begin with the same test for a duplicate.
FactCheck(t) ==
  /\ FactAt(t, "check")
  /\ FactGo(t, IF FactHas(factCall[t].content) THEN FactIdle
               ELSE [factCall[t] EXCEPT !.pc = "insert"])
  /\ UNCHANGED <<facts, factEntities, factLinks, factNextId, factLastRow, factOps, factOverlap>>

\* Faulty variant: the id of a removed fact is used again, as without AUTOINCREMENT.
FactInsertReused(t) ==
  LET c == factCall[t]
      free == CHOOSE n \in 1..factNextId :
        n \notin DOMAIN facts /\ \A id \in DOMAIN facts : id < n
  IN /\ FactAt(t, "insert")
     /\ facts' = [id \in DOMAIN facts \cup {free} |->
                    IF id = free THEN [content |-> c.content, trust |-> c.trust, vector |-> ""]
                    ELSE facts[id]]
     /\ factNextId' = factNextId + 1 /\ factLastRow' = free
     /\ FactGo(t, [c EXCEPT !.pc = "rowid"])
     /\ UNCHANGED <<factEntities, factLinks, factOps, factOverlap>>

\* INSERT INTO facts: the content is UNIQUE, the id is never used again.
FactInsert(t) ==
  LET c == factCall[t]
  IN /\ FactAt(t, "insert")
     /\ IF FactHas(c.content)
        THEN /\ FactGo(t, FactIdle)
             /\ UNCHANGED <<facts, factNextId, factLastRow>>
        ELSE /\ facts' = [id \in DOMAIN facts \cup {factNextId} |->
                            IF id = factNextId
                            THEN [content |-> c.content, trust |-> c.trust, vector |-> ""]
                            ELSE facts[id]]
             /\ factNextId' = factNextId + 1 /\ factLastRow' = factNextId
             /\ FactGo(t, [c EXCEPT !.pc = "rowid"])
     /\ UNCHANGED <<factEntities, factLinks, factOps, factOverlap>>

FactRowId(t) ==
  /\ FactAt(t, "rowid")
  /\ FactGo(t, [factCall[t] EXCEPT !.pc = "ensure", !.id = factLastRow,
                                   !.todo = Extract(factCall[t].content)])
  /\ UNCHANGED <<facts, factEntities, factLinks, factNextId, factLastRow, factOps, factOverlap>>

\* The names are taken in the extractor's order.
FactNextName(t) == CHOOSE e \in factCall[t].todo : TRUE

\* ensure_entity: INSERT OR IGNORE.
EnsureEntity(t) ==
  LET e == FactNextName(t)
      id == Cardinality(DOMAIN factEntities) + 1
  IN /\ FactAt(t, "ensure") /\ factCall[t].todo # {}
     /\ IF e \in DOMAIN factEntities
        THEN UNCHANGED <<factEntities, factLastRow>>
        ELSE /\ factEntities' = [n \in DOMAIN factEntities \cup {e} |->
                                   IF n = e THEN id ELSE factEntities[n]]
             /\ factLastRow' = id
     /\ FactGo(t, [factCall[t] EXCEPT !.pc = "link"])
     /\ UNCHANGED <<facts, factLinks, factNextId, factOps, factOverlap>>

\* link_fact_entity: the pair is stored whether or not there is such a fact.
LinkFactEntity(t) ==
  LET c == factCall[t]
      e == FactNextName(t)
      pair == <<c.id, factEntities[e]>>
  IN /\ FactAt(t, "link")
     /\ factLinks' = factLinks \cup {pair}
     /\ factLastRow' = IF pair \in factLinks THEN factLastRow
                       ELSE Cardinality(factLinks) + 1
     /\ FactGo(t, [c EXCEPT !.pc = "ensure", !.todo = @ \ {e}])
     /\ UNCHANGED <<facts, factEntities, factNextId, factOps, factOverlap>>

\* The vector is stored with the fact added; update_fact leaves the old one.
FactVector(t) ==
  LET c == factCall[t]
  IN /\ FactAt(t, "ensure") /\ c.todo = {}
     /\ facts' = IF c.op \in {"add", "store"} /\ c.id \in DOMAIN facts
                 THEN [facts EXCEPT ![c.id].vector = c.content] ELSE facts
     /\ FactGo(t, FactIdle)
     /\ UNCHANGED <<factEntities, factLinks, factNextId, factLastRow, factOps, factOverlap>>

\* update_fact: one UPDATE, which fails when another fact has the content.
FactUpdate(t) ==
  LET c == factCall[t]
      clash == c.content # "" /\ FactHas(c.content) /\ FactIdOf(c.content) # c.id
      changed == c.id \in DOMAIN facts /\ ~clash
  IN /\ FactAt(t, "update")
     /\ facts' = IF changed
                 THEN [facts EXCEPT ![c.id].content = IF c.content = "" THEN @ ELSE c.content,
                                    ![c.id].trust = FactClamp(@ + c.trust)]
                 ELSE facts
     /\ FactGo(t, IF changed /\ c.content # "" THEN [c EXCEPT !.pc = "unlink"] ELSE FactIdle)
     /\ UNCHANGED <<factEntities, factLinks, factNextId, factLastRow, factOps, factOverlap>>

FactUnlink(t) ==
  /\ FactAt(t, "unlink")
  /\ factLinks' = {p \in factLinks : p[1] # factCall[t].id}
  /\ FactGo(t, [factCall[t] EXCEPT !.pc = "ensure", !.todo = Extract(factCall[t].content)])
  /\ UNCHANGED <<facts, factEntities, factNextId, factLastRow, factOps, factOverlap>>

\* remove_fact: the row goes, its links stay.
FactRemove(t) ==
  /\ FactAt(t, "remove")
  /\ facts' = [id \in DOMAIN facts \ {factCall[t].id} |-> facts[id]]
  /\ FactGo(t, FactIdle)
  /\ UNCHANGED <<factEntities, factLinks, factNextId, factLastRow, factOps, factOverlap>>

\* record_feedback: the trust is read, then written.
FeedbackRead(t) ==
  LET c == factCall[t]
  IN /\ FactAt(t, "feedback")
     /\ FactGo(t, IF c.id \in DOMAIN facts
                  THEN [c EXCEPT !.pc = "write", !.trust = FactClamp(facts[c.id].trust + @)]
                  ELSE FactIdle)
     /\ UNCHANGED <<facts, factEntities, factLinks, factNextId, factLastRow, factOps, factOverlap>>

FeedbackWrite(t) ==
  LET c == factCall[t]
  IN /\ FactAt(t, "write")
     /\ facts' = IF c.id \in DOMAIN facts THEN [facts EXCEPT ![c.id].trust = c.trust] ELSE facts
     /\ FactGo(t, FactIdle)
     /\ UNCHANGED <<factEntities, factLinks, factNextId, factLastRow, factOps, factOverlap>>

-----------------------------------------------------------------------------
\* Who calls what.

FactIds == 1..FactMaxOps

FactStoreTool(t) ==
  \/ \E c \in FactContents : FactBegin(t, "add", "check", 0, c, FactAddTrust)
  \/ \E id \in FactIds, c \in FactContents \cup {""}, delta \in {-5, 0} :
       FactBegin(t, "update", "update", id, c, delta)
  \/ \E id \in FactIds : FactBegin(t, "remove", "remove", id, "", 0)

FactFeedbackTool(t) ==
  \E id \in FactIds, delta \in {1, -2} : FactBegin(t, "feedback", "feedback", id, "", delta)

\* The memory tool: store() and forget().
FactMemoryTool(t) ==
  \/ \E c \in FactContents, importance \in {1, 9} :
       FactBegin(t, "store", "check", 0, c, FactStoreTrust(importance))
  \/ \E id \in FactIds : FactBegin(t, "remove", "remove", id, "", 0)

\* MemoryExtractor, with this memory.
ExtractorAdds(t) == \E c \in FactContents : FactBegin(t, "add", "check", 0, c, FactAddTrust)

FactStep(t) ==
  \/ FactCheck(t) \/ FactInsert(t) \/ FactRowId(t)
  \/ EnsureEntity(t) \/ LinkFactEntity(t) \/ FactVector(t)
  \/ FactUpdate(t) \/ FactUnlink(t) \/ FactRemove(t)
  \/ FeedbackRead(t) \/ FeedbackWrite(t)

FactInit ==
  /\ facts = [id \in {} |-> FactIdle] /\ factEntities = [e \in {} |-> 0]
  /\ factLinks = {} /\ factNextId = 1 /\ factLastRow = 0
  /\ factCall = [t \in FactThreads |-> FactIdle] /\ factOps = 0 /\ factOverlap = FALSE

FactNext ==
  \E t \in FactThreads :
    \/ t # FactExtractor /\ (FactStoreTool(t) \/ FactFeedbackTool(t) \/ FactMemoryTool(t))
    \/ t = FactExtractor /\ ExtractorAdds(t)
    \/ FactStep(t)

FactSpec == FactInit /\ [][FactNext]_factVars

-----------------------------------------------------------------------------
FactTypeOK ==
  /\ DOMAIN facts \subseteq 1..factNextId - 1
  /\ \A id \in DOMAIN facts : /\ facts[id].content \in FactContents
                              /\ facts[id].trust \in FactFloor..FactCeiling
  /\ factLinks \subseteq Nat \X Nat /\ factOps \in 0..FactMaxOps

FactMentions(E) == {id \in FactTrusted(FactMinTrust) : E \subseteq Extract(facts[id].content)}

(***************************************************************************)
(* As long as operations do not overlap, an entity query answers with the  *)
(* facts whose content mentions the entities, though removed facts leave   *)
(* links that no statement deletes: an id must never be used again and an  *)
(* update must replace the links.  Two contradicting facts share an entity *)
(* both mention.  A search that is not cut returns every fact that matches *)
(* (HolographicMemory::update_fact, remove_fact; FactRetriever).           *)
(***************************************************************************)
FactQueriesAreExact ==
  ~factOverlap /\ FactBusy = {} =>
    /\ \A e \in FactNames : FactProbe(e, "", FactMaxOps) = {FactMentions({e})}
    /\ \A E \in SUBSET FactNames \ {{}} :
         FindByEntities(E, "", FactMaxOps) = {FactMentions(E)}
    /\ \A e \in FactNames : FindRelated(e, "", FactMaxOps) \subseteq SUBSET FactMentions({e})
    /\ \A p \in FindContradictions("", 1) :
         Extract(facts[p[1]].content) \cap Extract(facts[p[2]].content) # {}
    /\ \A q \in FactContents : \A answer \in FactSearch(q, "", FactMinTrust, FactMaxOps) :
         {id \in FactTrusted(FactMinTrust) :
            Sanitize(q) \cap Tokenize(facts[id].content) # {}} \subseteq answer

=============================================================================
