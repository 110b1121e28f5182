--------------------------- MODULE Answers_proofs ---------------------------
(***************************************************************************)
(* Proofs about what is asked and what is answered, for any answers,       *)
(* dialects, numbers of calls and threads:                                 *)
(*   UsageAccounted  every use that is told of is counted once             *)
(*   AnswersWhole    a streamed answer comes back whole                    *)
(*   RequestsFollow  a provider is asked again as its reply allows         *)
(*   McpAnswersOwn   an MCP caller gets the answer to its own request      *)
(*   FactsExact      entity queries of the fact memory answer from the     *)
(*                   contents, while operations do not overlap             *)
(* and, of each of these components, that its state has its type.          *)
(***************************************************************************)
EXTENDS Budget, ProviderStream, ProviderStack, Mcp, FactMemory, Integers, NaturalSets,
        FiniteSetTheorems, SequenceTheorems, TLAPS

-----------------------------------------------------------------------------
(* Budget: what is used is counted once *)

\* The sum of the uses of a set, taken one after the other in any order.
LEMMA BudSumTake ==
  ASSUME NEW T, IsFiniteSet(T), \A u \in T : u.tokens \in Nat
  PROVE  /\ \A s \in SUBSET T : BudSum(s) \in Nat
         /\ BudSum({}) = 0
         /\ \A s \in SUBSET T : \A u \in s : BudSum(s) = u.tokens + BudSum(s \ {u})
<1> DEFINE w == [u \in T |-> u.tokens]
<1>1. CanAddUp(w, T) /\ \A u \in T : w[u] = u.tokens
  BY DEF CanAddUp
<1> HIDE DEF w
<1>2. PICK f : AddsUp(f, w, T) /\ SumsAre(f, w, T)
  BY <1>1, SumsAddUp
<1>3. ASSUME NEW s \in SUBSET T PROVE BudSum(s) = f[s]
  <2> DEFINE v == [u \in s |-> u.tokens]
  <2>1. DOMAIN v = s /\ \A u \in s : v[u] = w[u]
    BY <1>1
  <2>2. BudSum(s) = SumFunction(v)
    BY DEF BudSum
  <2> HIDE DEF v
  <2> QED BY <1>2, <2>1, <2>2 DEF SumsAre
<1>4. {} \in SUBSET T /\ f[{}] = 0
  BY <1>2 DEF AddsUp
<1>5. ASSUME NEW s \in SUBSET T, NEW u \in s
      PROVE  BudSum(s) = u.tokens + BudSum(s \ {u})
  <2>1. s \ {u} \in SUBSET T /\ f[s] = w[u] + f[s \ {u}]
    BY <1>2 DEF AddsUp
  <2> QED BY <1>1, <1>3, <2>1
<1>6. \A s \in SUBSET T : f[s] \in Nat
  BY <1>2 DEF AddsUp
<1> QED
  BY <1>3, <1>4, <1>5, <1>6

\* One more use is added.
LEMMA BudSumAdd ==
  ASSUME NEW S, IsFiniteSet(S), NEW x, x \notin S, \A u \in S \cup {x} : u.tokens \in Nat
  PROVE  BudSum(S \cup {x}) = BudSum(S) + x.tokens /\ BudSum(S) \in Nat
<1> DEFINE T == S \cup {x}
<1>1. IsFiniteSet(T) /\ T \in SUBSET T /\ S \in SUBSET T /\ x \in T /\ T \ {x} = S
  BY FS_AddElement
<1>2. \A u \in T : u.tokens \in Nat
  OBVIOUS
<1> HIDE DEF T
<1>3. BudSum(T) = x.tokens + BudSum(S) /\ BudSum(S) \in Nat /\ x.tokens \in Nat
  BY <1>1, <1>2, BudSumTake
<1> QED
  BY <1>3 DEF T

\* Records of uses, each under an id of its own, have no more tokens than the uses.
LEMMA BudSumOfRecords ==
  ASSUME NEW R, IsFiniteSet(R), NEW U, IsFiniteSet(U),
         \A u \in U : u.tokens \in Nat, \A r \in R : r.tokens \in Nat,
         \A r, q \in R : r.id = q.id => r = q,
         \A r \in R : \E u \in U : u.id = r.id /\ u.tokens = r.tokens
  PROVE  BudSum(R) <= BudSum(U)
<1> DEFINE Covers(t, s) == \A r \in s : \E u \in t : u.id = r.id /\ u.tokens = r.tokens
           P == {s \in SUBSET R : \A t \in SUBSET U : Covers(t, s) => BudSum(s) <= BudSum(t)}
<1>1. {} \in P
  <2>1. BudSum({}) = 0 /\ \A t \in SUBSET U : BudSum(t) \in Nat
    BY BudSumTake
  <2> QED BY <2>1
<1>2. ASSUME NEW s \in SUBSET R, s # {}, \A x \in s : s \ {x} \in P PROVE s \in P
  <2> SUFFICES ASSUME NEW t \in SUBSET U, Covers(t, s) PROVE BudSum(s) <= BudSum(t)
    OBVIOUS
  <2>1. PICK r \in s : BudSum(s) = r.tokens + BudSum(s \ {r})
    BY <1>2, BudSumTake
  <2>2. PICK u \in t : u.id = r.id /\ u.tokens = r.tokens
    OBVIOUS
  <2>3. Covers(t \ {u}, s \ {r})
    BY <2>2
  <2>4. BudSum(s \ {r}) <= BudSum(t \ {u})
    <3>1. t \ {u} \in SUBSET U /\ s \ {r} \in P
      BY <1>2
    <3> HIDE DEF Covers
    <3> QED BY <2>3, <3>1
  <2>5. BudSum(t) = u.tokens + BudSum(t \ {u})
    BY BudSumTake
  <2>6. r.tokens \in Nat /\ BudSum(s \ {r}) \in Nat /\ BudSum(t \ {u}) \in Nat
    <3>1. t \ {u} \in SUBSET U /\ s \ {r} \in SUBSET R
      OBVIOUS
    <3> QED BY <3>1, BudSumTake
  <2> HIDE DEF P, Covers
  <2> QED BY <2>1, <2>2, <2>4, <2>5, <2>6
<1>3. \A s \in SUBSET R : s \in P
  <2> HIDE DEF P
  <2> QED BY <1>1, <1>2, FiniteSubsets
<1> QED
  BY <1>3

-----------------------------------------------------------------------------
\* A call under way is of the present session and has an id of its own: none is counted
\* before it is told of, and none is recorded before it is written.
BudCallOK(c) ==
  /\ DOMAIN budCall[c] = DOMAIN BudIdle
  /\ budCall[c] # BudIdle =>
    /\ budBusy /\ budCall[c].epoch = budEpoch /\ budCall[c].id \in 1..budCalls
    /\ \A r \in budRecords : r.id # budCall[c].id
    /\ \A d \in BudCallers \ {c} : budCall[d].id # budCall[c].id
    /\ budCall[c].pc = "provider" => \A u \in budSpent : u.id # budCall[c].id
    /\ budCall[c].pc = "store" =>
         \E u \in budSpent : u.id = budCall[c].id /\ u.tokens = budCall[c].tokens

BudUses ==
  /\ IsFiniteSet(budSpent)
  /\ \A u \in budSpent : u.tokens \in Nat /\ u.id \in 1..budCalls /\ u.epoch \in 0..budEpoch
BudWritten ==
  /\ IsFiniteSet(budRecords)
  /\ \A r \in budRecords : \E u \in budSpent : u.id = r.id /\ u.tokens = r.tokens
  /\ \A r, q \in budRecords : r.id = q.id => r = q

BudInv ==
  /\ budCalls \in Nat /\ budEpoch \in Nat
  /\ DOMAIN budCall = BudCallers
  /\ \A c \in BudCallers : BudCallOK(c)
  /\ BudUses /\ BudWritten
  /\ budGlobal = BudSum(budSpent)
  /\ budSession = BudSum({u \in budSpent : u.epoch = budEpoch})

\* The records are of different uses, each with its tokens.
LEMMA BudInvImpliesAccounted == BudInv => UsageIsAccounted
<1> SUFFICES ASSUME BudInv PROVE UsageIsAccounted
  OBVIOUS
<1>1. BudSum(budRecords) <= BudSum(budSpent)
  <2>1. /\ \A u \in budSpent : u.tokens \in Nat
        /\ \A r \in budRecords : r.tokens \in Nat
        /\ IsFiniteSet(budRecords) /\ IsFiniteSet(budSpent)
        /\ \A r, q \in budRecords : r.id = q.id => r = q
        /\ \A r \in budRecords : \E u \in budSpent : u.id = r.id /\ u.tokens = r.tokens
    BY DEF BudInv, BudUses, BudWritten
  <2> QED BY <2>1, BudSumOfRecords
<1>2. BudTotalUsage("") = BudSum(budRecords)
  <2>1. {r \in budRecords : "" # "" => r.sid = ""} = budRecords
    OBVIOUS
  <2> QED BY <2>1 DEF BudTotalUsage
<1> QED
  BY <1>1, <1>2 DEF BudInv, BudWritten, UsageIsAccounted

\* Nothing is used, and no call is under way.
LEMMA BudInitHolds == BudInit => BudInv
<1> SUFFICES ASSUME BudInit PROVE BudInv
  OBVIOUS
<1>1. BudSum({}) = 0 /\ {u \in {} : u.epoch = budEpoch} = {} /\ IsFiniteSet({})
  BY BudSumTake, FS_EmptySet
<1> QED
  BY <1>1 DEF BudInit, BudInv, BudUses, BudWritten, BudCallOK

\* A thread without a call.
LEMMA BudIdleCall == BudIdle.pc = "idle" /\ BudIdle.id = 0
  BY DEF BudIdle

\* A call begins, under the next id.
LEMMA BudBeginKeeps ==
  ASSUME BudInv, NEW c \in BudCallers, NEW streamed, BudBegin(c, streamed)
  PROVE  BudInv'
<1> DEFINE call == [BudIdle EXCEPT !.pc = "provider", !.epoch = budEpoch,
                                   !.streamed = streamed, !.id = budCalls + 1]
<1>1. /\ budBusy /\ budCall[c] = BudIdle /\ budCalls' = budCalls + 1
      /\ budCall' = [budCall EXCEPT ![c] = call]
      /\ UNCHANGED <<budSession, budGlobal, budSid, budStore, budRecords, budBusy, budConv,
                     budOps, budEpoch, budSpent>>
  BY DEF BudBegin, BudGo, budCounters, budUi
<1>2. /\ budCalls \in Nat /\ DOMAIN budCall = BudCallers
      /\ \A d \in BudCallers : BudCallOK(d)
  BY DEF BudInv
<1>3. /\ call.pc = "provider" /\ call.epoch = budEpoch /\ call.id = budCalls + 1
      /\ DOMAIN call = DOMAIN BudIdle
  BY DEF BudIdle
<1> HIDE DEF call
<1>4. /\ DOMAIN budCall' = BudCallers /\ budCall'[c] = call
      /\ \A d \in BudCallers \ {c} : budCall'[d] = budCall[d]
  BY <1>1, <1>2
<1>5. /\ \A u \in budSpent : u.id \in 1..budCalls
      /\ \A r \in budRecords : r.id \in 1..budCalls
      /\ \A d \in BudCallers : budCall[d].id \in 0..budCalls
  <2>1. \A d \in BudCallers : budCall[d] = BudIdle \/ budCall[d].id \in 1..budCalls
    BY <1>2 DEF BudCallOK
  <2>2. \A u \in budSpent : u.id \in 1..budCalls
    BY DEF BudInv, BudUses
  <2>3. ASSUME NEW r \in budRecords PROVE r.id \in 1..budCalls
    <3>1. PICK u \in budSpent : u.id = r.id
      BY DEF BudInv, BudWritten
    <3> QED BY <2>2, <3>1
  <2>4. ASSUME NEW d \in BudCallers PROVE budCall[d].id \in 0..budCalls
    <3>1. BudIdle.id = 0
      BY DEF BudIdle
    <3> QED BY <1>2, <2>1, <3>1
  <2> QED BY <2>2, <2>3, <2>4
<1>6. BudCallOK(c)'
  BY <1>1, <1>2, <1>3, <1>4, <1>5 DEF BudCallOK
<1>7. ASSUME NEW d \in BudCallers \ {c} PROVE BudCallOK(d)'
  BY <1>1, <1>2, <1>3, <1>4, <1>5 DEF BudCallOK
<1>8. BudUses' /\ BudWritten'
  BY <1>1, <1>2 DEF BudInv, BudUses, BudWritten
<1> QED
  BY <1>1, <1>2, <1>4, <1>6, <1>7, <1>8 DEF BudInv

\* A step after which the call of a thread is over.
LEMMA BudEndsKeep ==
  ASSUME NEW c \in BudCallers, DOMAIN budCall = BudCallers, BudGo(c, BudIdle),
         \A d \in BudCallers : BudCallOK(d), budBusy' = budBusy, budEpoch' = budEpoch,
         budCalls' = budCalls, budSpent \subseteq budSpent',
         \A u \in budSpent' \ budSpent : u.id = budCall[c].id,
         \A r \in budRecords' \ budRecords : r.id = budCall[c].id, budCall[c] # BudIdle
  PROVE  /\ \A d \in BudCallers : BudCallOK(d)'
         /\ DOMAIN budCall' = BudCallers
<1>1. /\ DOMAIN budCall' = BudCallers /\ budCall'[c] = BudIdle
      /\ \A d \in BudCallers \ {c} : budCall'[d] = budCall[d]
  BY DEF BudGo
<1>2. ASSUME NEW d \in BudCallers \ {c} PROVE BudCallOK(d)'
  <2> SUFFICES ASSUME budCall[d] # BudIdle PROVE BudCallOK(d)'
    BY <1>1 DEF BudCallOK
  <2>1. budCall[d].id # budCall[c].id /\ BudCallOK(d) /\ budCall[d].id # 0
    BY DEF BudCallOK
  <2>2. BudIdle.id = 0
    BY DEF BudIdle
  <2>3. \A e \in BudCallers \ {d} : budCall'[e].id # budCall[d].id
    BY <1>1, <2>1, <2>2 DEF BudCallOK
  <2> QED BY <1>1, <2>1, <2>3 DEF BudCallOK
<1>3. BudCallOK(c)'
  BY <1>1 DEF BudCallOK
<1> QED
  BY <1>1, <1>2, <1>3

\* A call ends without a use.
LEMMA BudUncountedKeeps ==
  ASSUME BudInv, NEW c \in BudCallers, BudUncounted(c)
  PROVE  BudInv'
<1>1. /\ budCall[c].pc = "provider" /\ BudGo(c, BudIdle)
      /\ UNCHANGED <<budSession, budGlobal, budSid, budStore, budRecords, budBusy, budConv,
                     budOps, budEpoch, budCalls, budSpent>>
  BY DEF BudUncounted, budCounters, budUi
<1>2. budCall[c] # BudIdle
  BY <1>1, BudIdleCall
<1>3. DOMAIN budCall' = BudCallers /\ \A d \in BudCallers : BudCallOK(d)'
  BY <1>1, <1>2, BudEndsKeep DEF BudInv
<1> QED
  BY <1>1, <1>3 DEF BudInv, BudUses, BudWritten

\* A use is counted: its id is new, so both sums grow by its tokens.
LEMMA BudRecordUsageKeeps ==
  ASSUME BudInv, NEW c \in BudCallers, NEW tokens \in Nat, BudRecordUsage(c, tokens)
  PROVE  BudInv'
<1> DEFINE use == [id |-> budCall[c].id, epoch |-> budCall[c].epoch, tokens |-> tokens]
           told == [budCall[c] EXCEPT !.pc = "store", !.tokens = tokens, !.sid = budSid]
<1>1. /\ budCall[c].pc = "provider" /\ budSession' = budSession + tokens
      /\ budGlobal' = budGlobal + tokens /\ budSpent' = budSpent \cup {use}
      /\ BudGo(c, IF budStore THEN told ELSE BudIdle)
      /\ UNCHANGED <<budSid, budStore, budRecords, budBusy, budConv, budOps, budEpoch, budCalls>>
  BY DEF BudRecordUsage, budUi
<1>2. use.id = budCall[c].id /\ use.epoch = budCall[c].epoch /\ use.tokens = tokens
  OBVIOUS
<1> HIDE DEF use
<1>3. budCall[c] # BudIdle
  BY <1>1, BudIdleCall
<1>4. /\ budCalls \in Nat /\ budEpoch \in Nat /\ DOMAIN budCall = BudCallers
      /\ \A d \in BudCallers : BudCallOK(d)
  BY DEF BudInv
<1>5. /\ budCall[c].epoch = budEpoch /\ budCall[c].id \in 1..budCalls /\ budBusy
      /\ \A u \in budSpent : u.id # budCall[c].id
      /\ \A r \in budRecords : r.id # budCall[c].id
      /\ \A d \in BudCallers \ {c} : budCall[d].id # budCall[c].id
  BY <1>1, <1>3, <1>4 DEF BudCallOK
<1>6. use \notin budSpent
  BY <1>2, <1>5
<1>7. BudUses'
  <2>1. IsFiniteSet(budSpent')
    BY <1>1, FS_AddElement DEF BudInv, BudUses
  <2>2. \A u \in budSpent' : u.tokens \in Nat /\ u.id \in 1..budCalls /\ u.epoch \in 0..budEpoch
    BY <1>1, <1>2, <1>4, <1>5 DEF BudInv, BudUses
  <2> QED BY <1>1, <2>1, <2>2 DEF BudUses
<1>8. BudWritten'
  BY <1>1 DEF BudInv, BudWritten
<1>9. budGlobal' = BudSum(budSpent')
  <2>1. IsFiniteSet(budSpent) /\ \A u \in budSpent \cup {use} : u.tokens \in Nat
    BY <1>2 DEF BudInv, BudUses
  <2>2. BudSum(budSpent \cup {use}) = BudSum(budSpent) + use.tokens
    BY <1>6, <2>1, BudSumAdd
  <2>3. budGlobal = BudSum(budSpent)
    BY DEF BudInv
  <2>4. BudSum(budSpent') = BudSum(budSpent \cup {use})
    BY <1>1
  <2> QED BY <1>1, <1>2, <2>2, <2>3, <2>4
<1>10. budSession' = BudSum({u \in budSpent' : u.epoch = budEpoch'})
  <2> DEFINE now == {u \in budSpent : u.epoch = budEpoch}
  <2>1. {u \in budSpent' : u.epoch = budEpoch'} = now \cup {use}
    BY <1>1, <1>2, <1>5
  <2>2. IsFiniteSet(now) /\ use \notin now /\ \A u \in now \cup {use} : u.tokens \in Nat
    <3>1. now \subseteq budSpent /\ IsFiniteSet(budSpent)
      BY DEF BudInv, BudUses
    <3> QED BY <1>2, <1>6, <3>1, FS_Subset DEF BudInv, BudUses
  <2>3. budSession = BudSum(now)
    BY DEF BudInv
  <2> HIDE DEF now
  <2>4. BudSum(now \cup {use}) = BudSum(now) + use.tokens
    BY <2>2, BudSumAdd
  <2>5. BudSum({u \in budSpent' : u.epoch = budEpoch'}) = BudSum(now \cup {use})
    BY <2>1
  <2> QED BY <1>1, <1>2, <2>3, <2>4, <2>5
<1>11. DOMAIN budCall' = BudCallers /\ \A d \in BudCallers : BudCallOK(d)'
  <2>1. CASE budStore
    <3>1. /\ DOMAIN budCall' = BudCallers /\ budCall'[c] = told
          /\ \A d \in BudCallers \ {c} : budCall'[d] = budCall[d]
      BY <1>1, <1>4, <2>1 DEF BudGo
    <3>2. told.pc = "store" /\ told.id = budCall[c].id /\ told.epoch = budEpoch
          /\ told.tokens = tokens
      <4>1. DOMAIN budCall[c] = {"pc", "epoch", "tokens", "sid", "streamed", "id"}
        BY <1>4 DEF BudCallOK, BudIdle
      <4> QED BY <1>5, <4>1
    <3>5. DOMAIN told = DOMAIN BudIdle
      BY <1>4 DEF BudCallOK
    <3> HIDE DEF told
    <3>3. BudCallOK(c)'
      BY <1>1, <1>2, <1>5, <3>1, <3>2, <3>5 DEF BudCallOK
    <3>4. ASSUME NEW d \in BudCallers \ {c} PROVE BudCallOK(d)'
      <4>1. BudCallOK(d) /\ budCall[d].id # budCall[c].id
        BY <1>4, <1>5
      <4> QED BY <1>1, <1>2, <3>1, <3>2, <4>1 DEF BudCallOK
    <3> QED BY <3>1, <3>3, <3>4
  <2>2. CASE ~budStore
    BY <1>1, <1>2, <1>3, <1>4, <2>2, BudEndsKeep
  <2> QED BY <2>1, <2>2
<1> QED
  BY <1>1, <1>4, <1>7, <1>8, <1>9, <1>10, <1>11 DEF BudInv

\* Its record is written, or is not.
LEMMA BudStoreRecordKeeps ==
  ASSUME BudInv, NEW c \in BudCallers, NEW stored \in BOOLEAN, BudStoreRecord(c, stored)
  PROVE  BudInv'
<1>1. /\ budCall[c].pc = "store" /\ BudGo(c, BudIdle)
      /\ budRecords' = IF stored THEN budRecords \cup {UsageRecord(c)} ELSE budRecords
      /\ UNCHANGED <<budSession, budGlobal, budSid, budStore, budBusy, budConv, budOps,
                     budEpoch, budCalls, budSpent>>
  BY DEF BudStoreRecord, budCounters, budUi
<1>2. budCall[c] # BudIdle
  BY <1>1, BudIdleCall
<1>3. UsageRecord(c).id = budCall[c].id /\ UsageRecord(c).tokens = budCall[c].tokens
  BY DEF UsageRecord
<1>4. budRecords' \ budRecords \subseteq {UsageRecord(c)}
      /\ budRecords' \subseteq budRecords \cup {UsageRecord(c)}
  BY <1>1
<1>5. DOMAIN budCall' = BudCallers /\ \A d \in BudCallers : BudCallOK(d)'
  BY <1>1, <1>2, <1>3, <1>4, BudEndsKeep DEF BudInv
<1>6. BudWritten'
  <2>1. IsFiniteSet(budRecords')
    BY <1>1, FS_AddElement DEF BudInv, BudWritten
  <2>2. /\ \A r \in budRecords : r.id # budCall[c].id
        /\ \E u \in budSpent : u.id = budCall[c].id /\ u.tokens = budCall[c].tokens
    BY <1>1, <1>2 DEF BudInv, BudCallOK
  <2>3. \A r \in budRecords' : \E u \in budSpent' : u.id = r.id /\ u.tokens = r.tokens
    BY <1>1, <1>3, <1>4, <2>2 DEF BudInv, BudWritten
  <2>4. \A r, q \in budRecords' : r.id = q.id => r = q
    BY <1>3, <1>4, <2>2 DEF BudInv, BudWritten
  <2> QED BY <2>1, <2>3, <2>4 DEF BudWritten
<1> QED
  BY <1>1, <1>5, <1>6 DEF BudInv, BudUses

\* A run starts or returns, or a session is resumed: nothing is counted.
LEMMA BudRunsKeep ==
  ASSUME BudInv, (\E conv : BudRunStarts(conv) \/ BudResumeSession(conv)) \/ BudRunReturns
  PROVE  BudInv'
<1>1. UNCHANGED <<budSession, budGlobal, budRecords, budCall, budCalls, budEpoch, budSpent>>
  BY DEF BudRunStarts, BudRunReturns, BudResumeSession, budCounters
<1>2. budBusy => budBusy' \/ \A c \in BudCallers : budCall[c] = BudIdle
  BY DEF BudRunStarts, BudRunReturns, BudResumeSession
<1>3. ASSUME NEW c \in BudCallers PROVE BudCallOK(c)'
  <2>1. BudCallOK(c)
    BY DEF BudInv
  <2> QED BY <1>1, <1>2, <2>1 DEF BudCallOK
<1> QED
  BY <1>1, <1>3 DEF BudInv, BudUses, BudWritten

\* /new with no run: no use is of the new session yet, and no call can add one of the old.
LEMMA BudNewSessionKeeps ==
  ASSUME BudInv, BudNewSession
  PROVE  BudInv'
<1>1. /\ ~budBusy /\ budSession' = 0 /\ budEpoch' = budEpoch + 1
      /\ UNCHANGED <<budGlobal, budRecords, budCall, budBusy, budCalls, budSpent>>
  BY DEF BudNewSession
<1>2. \A c \in BudCallers : budCall[c] = BudIdle
  BY <1>1 DEF BudInv, BudCallOK
<1>3. \A c \in BudCallers : BudCallOK(c)'
  BY <1>1, <1>2 DEF BudCallOK
<1>4. BudUses' /\ BudWritten'
  BY <1>1 DEF BudInv, BudUses, BudWritten
<1>5. {u \in budSpent' : u.epoch = budEpoch'} = {}
  BY <1>1 DEF BudInv, BudUses
<1>6. BudSum({}) = 0
  BY FS_EmptySet, BudSumTake
<1> QED
  BY <1>1, <1>3, <1>4, <1>5, <1>6 DEF BudInv

\* What is counted of a session and in all is the sum of the uses told of, and what is stored
\* is never more: UsageIsAccounted, with calls on any threads and any order of their steps.
THEOREM UsageAccounted == BudSpec => []UsageIsAccounted
<1>1. BudInv /\ [BudNext]_budVars => BudInv'
  <2> SUFFICES ASSUME BudInv, [BudNext]_budVars PROVE BudInv'
    OBVIOUS
  <2>1. ASSUME NEW c \in BudCallers, BudChat(c) \/ BudStreamChat(c) PROVE BudInv'
    BY <2>1, BudBeginKeeps DEF BudChat, BudStreamChat
  <2>2. ASSUME NEW c \in BudCallers, NEW tokens \in BudTokens, BudRecordUsage(c, tokens)
        PROVE  BudInv'
    BY <2>2, BudRecordUsageKeeps, BudAssumption
  <2>3. CASE UNCHANGED budVars
    BY <2>3 DEF BudInv, BudUses, BudWritten, BudCallOK, budVars
  <2> QED
    BY <2>1, <2>2, <2>3, BudUncountedKeeps, BudStoreRecordKeeps, BudRunsKeep, BudNewSessionKeeps
    DEF BudNext
<1> QED
  BY <1>1, BudInitHolds, BudInvImpliesAccounted, PTL DEF BudSpec

-----------------------------------------------------------------------------
(* Streamed answers: what the next request says of a response *)

\* The history of a response: its text and calls, then an answer to each call.
LEMMA StrHistoryIs ==
  ASSUME NEW resp, NEW m \in Nat, DOMAIN resp.calls = 1..m
  PROVE  LET h == StrHistory(resp)
             S == {h[i] : i \in 1..m + 3}
         IN /\ h \in Seq(S) /\ Len(h) = m + 3 /\ DOMAIN h = 1..m + 3
            /\ h[1].role = "system" /\ h[2].role = "user"
            /\ h[3] = StrMessage("assistant", resp.content, resp.calls, 0, "")
            /\ \A c \in 1..m : h[c + 3] = StrMessage("tool", <<0>>, <<>>, resp.calls[c].name,
                                                     resp.calls[c].id)
<1> DEFINE sys == StrMessage("system", <<0>>, <<>>, 0, "")
           user == StrMessage("user", <<0>>, <<>>, 0, "")
           said == StrMessage("assistant", resp.content, resp.calls, 0, "")
           tool(c) == StrMessage("tool", <<0>>, <<>>, resp.calls[c].name, resp.calls[c].id)
           tools == [c \in 1..m |-> tool(c)]
           h == StrHistory(resp)
           M == {sys, user, said} \cup {tool(c) : c \in 1..m}
<1>1. h = (<<sys, user>> \o <<said>>) \o tools
  BY DEF StrHistory, StrPrompt
<1>2. sys.role = "system" /\ user.role = "user"
  BY DEF StrMessage
<1> HIDE DEF sys, user, said, tool, h
<1>3. tools \in Seq(M) /\ Len(tools) = m /\ \A c \in 1..m : tools[c] = tool(c)
  OBVIOUS
<1>4. <<sys, user>> \in Seq(M) /\ <<said>> \in Seq(M)
  OBVIOUS
<1> HIDE DEF M, tools
<1>5. /\ <<sys, user>> \o <<said>> \in Seq(M) /\ Len(<<sys, user>> \o <<said>>) = 3
      /\ (<<sys, user>> \o <<said>>)[1] = sys /\ (<<sys, user>> \o <<said>>)[2] = user
      /\ (<<sys, user>> \o <<said>>)[3] = said
  BY <1>4, ConcatProperties
<1>6. /\ h \in Seq(M) /\ Len(h) = m + 3 /\ h[1] = sys /\ h[2] = user /\ h[3] = said
      /\ \A c \in 1..m : h[c + 3] = tool(c)
  <2> DEFINE a == <<sys, user>> \o <<said>>
  <2> HIDE DEF a
  <2>1. /\ a \in Seq(M) /\ Len(a) = 3 /\ a[1] = sys /\ a[2] = user /\ a[3] = said
        /\ h = a \o tools
    BY <1>1, <1>5 DEF a
  <2>2. /\ h \in Seq(M) /\ Len(h) = 3 + m
        /\ \A i \in 1..3 + m : h[i] = IF i <= 3 THEN a[i] ELSE tools[i - 3]
    <3>1. /\ a \o tools \in Seq(M) /\ Len(a \o tools) = Len(a) + Len(tools)
          /\ \A i \in 1..Len(a) + Len(tools) :
               (a \o tools)[i] = IF i <= Len(a) THEN a[i] ELSE tools[i - Len(a)]
      BY <1>3, <2>1, ConcatProperties
    <3>2. Len(a) = 3 /\ Len(tools) = m /\ h = a \o tools
      BY <1>3, <2>1
    <3> QED BY ONLY <3>1, <3>2
  <2>3. h[1] = sys /\ h[2] = user /\ h[3] = said
    BY <2>1, <2>2
  <2>4. ASSUME NEW c \in 1..m PROVE h[c + 3] = tool(c)
    <3>1. c + 3 \in 1..3 + m /\ ~(c + 3 <= 3) /\ c + 3 - 3 = c
      OBVIOUS
    <3> QED BY <1>3, <2>2, <3>1
  <2> QED BY <2>2, <2>3, <2>4
<1>7. DOMAIN h = 1..m + 3 /\ h \in Seq({h[i] : i \in 1..m + 3})
  BY <1>6
<1> QED
  BY <1>2, <1>6, <1>7, Zenon DEF said, tool, h

\* The system message is left out of the fold, and the rest is kept in order.
LEMMA AnthropicRequestIs ==
  ASSUME NEW S, NEW h \in Seq(S), NEW m \in Nat, Len(h) = m + 1, h[1].role = "system",
         \A i \in 2..m + 1 : h[i].role # "system", NEW req, req = AnthropicRequest(h)
  PROVE  /\ Len(req) = m /\ DOMAIN req = 1..m
         /\ \A i \in 1..m : req[i] = AnthropicMessage(h[i + 1])
<1> DEFINE n == m + 1
           M == {AnthropicMessage(h[i]) : i \in 1..n}
           V == Seq(M)
           next(list, msg) == IF msg.role = "system" THEN list
                              ELSE Append(list, AnthropicMessage(msg))
           step == [p \in (1..n) \X V |-> next(p[2], h[p[1]])]
<1>1. n \in Nat /\ DOMAIN h = 1..n /\ <<>> \in V
  OBVIOUS
<1>2. \A i \in 1..n, list \in V : next(list, h[i]) \in V
  <2> SUFFICES ASSUME NEW i \in 1..n, NEW list \in V PROVE next(list, h[i]) \in V
    OBVIOUS
  <2>1. AnthropicMessage(h[i]) \in M
    OBVIOUS
  <2> HIDE DEF M
  <2>2. Append(list, AnthropicMessage(h[i])) \in V
    BY <2>1, AppendProperties
  <2> QED BY <2>2
<1> HIDE DEF M, V, next
<1>3. /\ step \in [(1..n) \X V -> V]
      /\ \A i \in 1..n, list \in V : step[<<i, list>>] = next(list, h[i])
  BY <1>2
<1> HIDE DEF n, step
<1>4. PICK f : FoldsUpTo(f, n, V, <<>>, step)
  BY <1>1, <1>3, RecursionOnIntervals DEF CanFold
<1> DEFINE Rec(it) == it = [s \in SUBSET (1..n) |->
                        IF s = {} THEN <<>>
                        ELSE LET x == Max(s) IN next(it[s \ {x}], h[x])]
           iter == CHOOSE it : Rec(it)
<1>5. AnthropicRequest(h) = iter[1..n]
  BY <1>1 DEF AnthropicRequest, FoldLeft, MapThenFoldSet, next
<1>6. Rec(f)
  <2>1. ASSUME NEW s \in SUBSET (1..n), s # {}
        PROVE  f[s] = next(f[s \ {Max(s)}], h[Max(s)])
    <3>1. Max(s) \in 1..n
      BY <1>4, <2>1 DEF FoldsUpTo
    <3> QED BY <1>3, <1>4, <2>1, <3>1 DEF FoldsUpTo
  <2>2. f = [s \in SUBSET (1..n) |-> f[s]] /\ f[{}] = <<>>
    BY <1>4 DEF FoldsUpTo
  <2> QED BY <2>1, <2>2
<1>7. Rec(iter)
  <2> HIDE DEF Rec
  <2> QED BY <1>6
<1> HIDE DEF iter
<1>8. iter[1..n] = f[1..n]
  <2>1. iter[{}] = f[{}]
    BY <1>6, <1>7
  <2>2. ASSUME NEW s \in SUBSET (1..n), s # {}, iter[s \ {Max(s)}] = f[s \ {Max(s)}]
        PROVE  iter[s] = f[s]
    <3>1. f[s] = next(f[s \ {Max(s)}], h[Max(s)])
      BY <1>6, <2>2
    <3>2. iter[s] = next(iter[s \ {Max(s)}], h[Max(s)])
      BY <1>7, <2>2
    <3> QED BY <2>2, <3>1, <3>2, Zenon
  <2>3. Alike(n, iter, f)
    <3> HIDE DEF Rec
    <3> QED BY <1>1, <2>1, <2>2 DEF Alike
  <2> QED BY <2>3, FoldsAgree
<1> HIDE DEF Rec
<1> DEFINE Kept(list, k) == /\ list \in Seq(M) /\ Len(list) = k
                            /\ \A i \in 1..k : list[i] = AnthropicMessage(h[i + 1])
           P == {k \in 0..m : Kept(f[1..k + 1], k)}
<1>9. \A k \in 1..n : f[1..k - 1] \in V /\ f[1..k] = next(f[1..k - 1], h[k])
  <2> SUFFICES ASSUME NEW k \in 1..n PROVE f[1..k - 1] \in V /\ f[1..k] = next(f[1..k - 1], h[k])
    OBVIOUS
  <2>1. k - 1 \in 0..n
    BY <1>1
  <2>2. f[1..k - 1] \in V /\ f[1..k] = step[<<k, f[1..k - 1]>>]
    BY <1>4, <2>1 DEF FoldsUpTo
  <2> QED BY <1>3, <2>2
<1>10. 0 \in P
  <2>1. 1..0 = {} /\ 1 \in 1..n /\ 1 - 1 = 0 /\ 0 + 1 = 1 /\ 0 \in 0..m
    BY <1>1 DEF n
  <2>2. f[1..1] = next(<<>>, h[1])
    <3>1. f[{}] = <<>>
      BY <1>4 DEF FoldsUpTo
    <3>2. f[1..1] = next(f[1..1 - 1], h[1])
      BY <1>9, <2>1
    <3>3. 1..1 - 1 = {}
      BY ONLY <2>1
    <3> QED BY <3>1, <3>2, <3>3, Zenon
  <2>3. f[1..1] = <<>>
    BY <2>2 DEF next
  <2>4. Kept(<<>>, 0)
    OBVIOUS
  <2> QED BY <2>1, <2>3, <2>4
<1>11. ASSUME NEW k \in 0..m - 1, k \in P PROVE k + 1 \in P
  <2>1. k + 2 \in 1..n /\ k + 2 \in 2..m + 1 /\ k + 2 - 1 = k + 1 /\ k + 1 \in 0..m
        /\ k + 1 + 1 = k + 2
    BY <1>1 DEF n
  <2>2. f[1..k + 2] = Append(f[1..k + 1], AnthropicMessage(h[k + 2]))
    <3>1. h[k + 2].role # "system"
      BY <2>1
    <3>2. f[1..k + 2] = next(f[1..k + 2 - 1], h[k + 2])
      BY <1>9, <2>1
    <3>3. 1..k + 2 - 1 = 1..k + 1
      BY <2>1
    <3> QED BY <3>1, <3>2, <3>3 DEF next
  <2>3. Kept(f[1..k + 1], k) /\ AnthropicMessage(h[k + 2]) \in M
    BY <1>11, <2>1 DEF M
  <2>4. Kept(f[1..k + 2], k + 1)
    <3> DEFINE list == f[1..k + 1]
               elt == AnthropicMessage(h[k + 2])
    <3> HIDE DEF list, elt
    <3>1. list \in Seq(M) /\ elt \in M /\ Len(list) = k /\ f[1..k + 2] = Append(list, elt)
          /\ \A i \in 1..k : list[i] = AnthropicMessage(h[i + 1])
      BY <2>2, <2>3 DEF list, elt
    <3>2. /\ Append(list, elt) \in Seq(M) /\ Len(Append(list, elt)) = k + 1
          /\ \A i \in 1..k : Append(list, elt)[i] = list[i]
          /\ Append(list, elt)[k + 1] = elt
      BY <3>1, AppendProperties
    <3>3. \A i \in 1..k + 1 : i \in 1..k \/ i = k + 1
      OBVIOUS
    <3>4. elt = AnthropicMessage(h[k + 1 + 1])
      BY <2>1 DEF elt
    <3> QED BY <3>1, <3>2, <3>3, <3>4
  <2> QED BY <2>1, <2>4
<1>12. m \in P
  <2> HIDE DEF P
  <2>1. \A k \in 0..m : k \in P
    BY <1>10, <1>11, NaturalsUpTo
  <2> QED BY <2>1
<1>13. AnthropicRequest(h) = f[1..m + 1] /\ Kept(f[1..m + 1], m)
  BY <1>5, <1>8, <1>12 DEF n
<1> QED
  BY <1>13
-----------------------------------------------------------------------------
\* A response that holds the whole answer.
StrWhole(resp, a) ==
  /\ resp.content = StrText(a)
  /\ resp.calls = [c \in DOMAIN a.parts |-> resp.calls[c]]
  /\ \A c \in DOMAIN a.parts :
       /\ DOMAIN resp.calls[c] = {"id", "name", "args"} /\ resp.calls[c].name = c
       /\ DOMAIN resp.calls[c].args = {"form", "parts"}
       /\ resp.calls[c].args.parts = StrArgs("text", a.parts[c]).parts

\* A request that says it, in message k.
StrSays(req, k, m, resp, a) ==
  /\ DOMAIN req = 1..m + k /\ Len(req) = m + k /\ k \in 1..m + k
  /\ \A i \in 1..m + k : req[i].role = "assistant" <=> i = k
  /\ req[k].text = resp.content
  /\ req[k].calls = [c \in 1..m |-> req[k].calls[c]]
  /\ \A c \in 1..m : /\ req[k].calls[c].name = c
                     /\ req[k].calls[c].args.parts = StrArgs("text", a.parts[c]).parts
                     /\ req[k + c].ref = StrNames(req[k].calls[c])

\* The places of m results after message k.
LEMMA StrShift ==
  ASSUME NEW m \in Nat, NEW k \in Nat
  PROVE  /\ k + 1 \in Int /\ m + k \in Int /\ m + k - (k + 1) + 1 = m
         /\ k + 1 <= m + k <=> m # 0
         /\ \A c \in 1..m : k + 1 + c - 1 = k + c
OBVIOUS

\* A request that says a response says its answer (StrSaid of the model).
LEMMA StrSaysIsSaid ==
  ASSUME NEW m \in Nat, NEW k \in Nat, StrSays(strRequest, k, m, strResponse, strAnswer),
         DOMAIN strAnswer.parts = 1..m, Len(strAnswer.parts) = m,
         StrWhole(strResponse, strAnswer)
  PROVE  StrSaidWhole
<1>1. StrAssistant = k
  BY Zenon DEF StrSays, StrAssistant
<1>2. /\ Len(strRequest) = m + k /\ strRequest[k].text = strResponse.content
      /\ strRequest[k].calls = [c \in 1..m |-> strRequest[k].calls[c]]
      /\ \A c \in 1..m :
           /\ strRequest[k].calls[c].name = c
           /\ strRequest[k].calls[c].args.parts = StrArgs("text", strAnswer.parts[c]).parts
           /\ strRequest[k + c].ref = StrNames(strRequest[k].calls[c])
  BY Zenon DEF StrSays
<1>3. strResponse.content = StrText(strAnswer)
  BY DEF StrWhole
<1>4. Len(strRequest[k].calls) = m /\ DOMAIN strRequest[k].calls = 1..m
  BY <1>2
<1>5. /\ Len(StrResults) = m /\ DOMAIN StrResults = 1..m
      /\ \A c \in 1..m : StrResults[c] = strRequest[k + c]
  <2> DEFINE S == {strRequest[i] : i \in k + 1..m + k}
  <2>1. StrResults = SubSeq(strRequest, k + 1, m + k)
    BY <1>1, <1>2 DEF StrResults
  <2>2. \A i \in k + 1..m + k : strRequest[i] \in S
    OBVIOUS
  <2> HIDE DEF S
  <2> DEFINE lo == k + 1
             hi == m + k
  <2>3. lo \in Int /\ hi \in Int /\ hi - lo + 1 = m /\ (lo <= hi <=> m # 0)
        /\ \A c \in 1..m : lo + c - 1 = k + c
    BY StrShift
  <2>4. StrResults = SubSeq(strRequest, lo, hi) /\ \A i \in lo..hi : strRequest[i] \in S
    BY <2>1, <2>2
  <2> HIDE DEF lo, hi
  <2>5. /\ StrResults \in Seq(S) /\ Len(StrResults) = IF lo <= hi THEN hi - lo + 1 ELSE 0
        /\ \A i \in 1..hi - lo + 1 : StrResults[i] = strRequest[lo + i - 1]
    BY <2>3, <2>4, SubSeqProperties
  <2>6. Len(StrResults) = m /\ \A c \in 1..m : StrResults[c] = strRequest[lo + c - 1]
    BY <2>3, <2>5
  <2>7. \A c \in 1..m : StrResults[c] = strRequest[k + c]
    BY <2>3, <2>6
  <2> QED BY <2>5, <2>6, <2>7
<1> DEFINE said == strRequest[k]
           results == StrResults
<1> HIDE DEF said, results
<1>6. /\ said = strRequest[StrAssistant] /\ results = StrResults
      /\ said.text = StrText(strAnswer) /\ strResponse.content = said.text
      /\ Len(said.calls) = Len(strAnswer.parts) /\ DOMAIN said.calls = 1..m
      /\ Len(results) = Len(said.calls) /\ DOMAIN results = 1..m
      /\ \A c \in 1..m : results[c] = strRequest[k + c]
  BY <1>1, <1>2, <1>3, <1>4, <1>5 DEF said, results
<1>7. \A c \in 1..m : /\ said.calls[c].name = c
                     /\ said.calls[c].args.parts = StrArgs("text", strAnswer.parts[c]).parts
                     /\ strRequest[k + c].ref = StrNames(said.calls[c])
  BY <1>2 DEF said
<1>8. \A c \in 1..m : results[c].ref = StrNames(said.calls[c])
  BY <1>6, <1>7
<1> QED
  BY <1>6, <1>7, <1>8, Zenon DEF StrSaidWhole

\* Arguments are dumped whole.
LEMMA StrDumpedKeeps ==
  ASSUME NEW args, DOMAIN args = {"form", "parts"}
  PROVE  StrDumped(args).parts = args.parts
BY DEF StrDumped

\* The request made after a whole response says it, in each dialect.
LEMMA StrWholeIsSaid ==
  ASSUME strDialect \in {"openai", "anthropic", "ollama"}, NEW m \in Nat,
         DOMAIN strAnswer.parts = 1..m, Len(strAnswer.parts) = m,
         StrWhole(strResponse, strAnswer), strRequest = StrNextRequest(strResponse)
  PROVE  StrSaidWhole
<1> DEFINE resp == strResponse
           h == StrHistory(resp)
           S == {h[i] : i \in 1..m + 3}
<1>1. /\ resp.calls = [c \in 1..m |-> resp.calls[c]]
      /\ \A c \in 1..m :
           /\ DOMAIN resp.calls[c] = {"id", "name", "args"} /\ resp.calls[c].name = c
           /\ DOMAIN resp.calls[c].args = {"form", "parts"}
           /\ resp.calls[c].args.parts = StrArgs("text", strAnswer.parts[c]).parts
  BY DEF StrWhole
<1>2. DOMAIN resp.calls = 1..m
  BY <1>1
<1>3. /\ h \in Seq(S) /\ Len(h) = m + 3 /\ DOMAIN h = 1..m + 3
      /\ h[1].role = "system" /\ h[2].role = "user"
      /\ h[3] = StrMessage("assistant", resp.content, resp.calls, 0, "")
      /\ \A c \in 1..m : h[c + 3] = StrMessage("tool", <<0>>, <<>>, resp.calls[c].name,
                                               resp.calls[c].id)
  BY <1>2, StrHistoryIs
<1> HIDE DEF h, S
<1>4. /\ h[3].role = "assistant" /\ h[3].text = resp.content /\ h[3].calls = resp.calls
      /\ \A c \in 1..m : /\ h[c + 3].role = "tool" /\ h[c + 3].name = c
                         /\ h[c + 3].ref = resp.calls[c].id
  <2>1. h[3].role = "assistant" /\ h[3].text = resp.content /\ h[3].calls = resp.calls
    <3>1. h[3] = StrMessage("assistant", resp.content, resp.calls, 0, "")
      BY <1>3
    <3>2. LET msg == StrMessage("assistant", resp.content, resp.calls, 0, "")
          IN msg.role = "assistant" /\ msg.text = resp.content /\ msg.calls = resp.calls
      BY DEF StrMessage
    <3> QED BY <3>1, <3>2, Zenon
  <2>2. ASSUME NEW c \in 1..m
        PROVE  h[c + 3].role = "tool" /\ h[c + 3].name = c /\ h[c + 3].ref = resp.calls[c].id
    <3>1. h[c + 3] = StrMessage("tool", <<0>>, <<>>, resp.calls[c].name, resp.calls[c].id)
      BY <1>3
    <3>2. resp.calls[c].name = c
      BY <1>1
    <3> HIDE DEF resp
    <3> QED BY <3>1, <3>2 DEF StrMessage
  <2> QED BY <2>1, <2>2
<1>5. \A i \in 1..m + 3 : i = 1 \/ i = 2 \/ i = 3 \/ (i - 3 \in 1..m /\ i - 3 + 3 = i)
  OBVIOUS
<1>6. \A i \in 1..m + 3 : h[i].role = "assistant" <=> i = 3
  BY <1>3, <1>4, <1>5
<1>7. CASE strDialect = "openai"
  <2> DEFINE msg(i) ==
        [role |-> h[i].role, text |-> h[i].text, ref |-> h[i].ref,
         calls |-> [c \in DOMAIN h[i].calls |->
                      [h[i].calls[c] EXCEPT !.args = StrDumped(@)]]]
  <2>1. strRequest = [i \in 1..m + 3 |-> msg(i)]
    BY <1>3, <1>7 DEF StrNextRequest, OpenAIRequest, h
  <2>2. StrSays(strRequest, 3, m, resp, strAnswer)
    <3>1. DOMAIN strRequest = 1..m + 3 /\ Len(strRequest) = m + 3 /\ 3 \in 1..m + 3
          /\ \A i \in 1..m + 3 : strRequest[i] = msg(i)
      BY <2>1
    <3>2. strRequest[3].calls = [c \in 1..m |-> [resp.calls[c] EXCEPT !.args = StrDumped(@)]]
          /\ strRequest[3].text = resp.content
      <4>1. strRequest[3] = msg(3) /\ DOMAIN h[3].calls = 1..m /\ h[3].calls = resp.calls
        BY <1>2, <1>4, <3>1
      <4>2. h[3].text = resp.content
        BY <1>4
      <4> HIDE DEF resp
      <4> QED BY <4>1, <4>2
    <3>3. \A i \in 1..m + 3 : strRequest[i].role = h[i].role /\ strRequest[i].ref = h[i].ref
      BY <3>1
    <3> HIDE DEF msg
    <3>4. ASSUME NEW c \in 1..m
          PROVE  /\ strRequest[3].calls[c].name = c
                 /\ strRequest[3].calls[c].args.parts = StrArgs("text", strAnswer.parts[c]).parts
                 /\ strRequest[3 + c].ref = strRequest[3].calls[c].id
      <4>1. 3 + c \in 1..m + 3 /\ 3 + c = c + 3
        OBVIOUS
      <4>2. strRequest[3].calls[c] = [resp.calls[c] EXCEPT !.args = StrDumped(@)]
        BY <3>2
      <4>3. /\ strRequest[3].calls[c].name = c
            /\ strRequest[3].calls[c].args = StrDumped(resp.calls[c].args)
            /\ strRequest[3].calls[c].id = resp.calls[c].id
        BY <1>1, <4>2
      <4>4. strRequest[3].calls[c].args.parts = StrArgs("text", strAnswer.parts[c]).parts
        <5>1. StrDumped(resp.calls[c].args).parts = resp.calls[c].args.parts
          BY <1>1, StrDumpedKeeps
        <5>2. resp.calls[c].args.parts = StrArgs("text", strAnswer.parts[c]).parts
          BY <1>1
        <5> QED BY <4>3, <5>1, <5>2, Zenon
      <4>5. strRequest[3 + c].ref = resp.calls[c].id
        BY <1>4, <3>3, <4>1
      <4> QED BY <4>3, <4>4, <4>5, Zenon
    <3> QED BY <1>6, <1>7, <3>1, <3>2, <3>3, <3>4 DEF StrSays, StrNames
  <2> QED BY <2>2, StrSaysIsSaid
<1>8. CASE strDialect = "ollama"
  <2> DEFINE ref(i) == IF h[i].role = "tool" /\ h[i].name # 0 THEN h[i].name ELSE h[i].ref
             call(i, c) == [StrEmptyCall EXCEPT !.name = h[i].calls[c].name,
                                                !.args = StrDumped(h[i].calls[c].args)]
             msg(i) ==
               [role |-> h[i].role, text |-> h[i].text, ref |-> ref(i),
                calls |-> [c \in DOMAIN h[i].calls |-> call(i, c)]]
  <2>1. strRequest = [i \in 1..m + 3 |-> msg(i)]
    BY <1>3, <1>8 DEF StrNextRequest, OllamaRequest, h
  <2>a. \A i, c : /\ call(i, c).name = h[i].calls[c].name
                  /\ call(i, c).args = StrDumped(h[i].calls[c].args)
    BY DEF StrEmptyCall, StrCall
  <2> HIDE DEF call
  <2>2. StrSays(strRequest, 3, m, resp, strAnswer)
    <3>1. DOMAIN strRequest = 1..m + 3 /\ Len(strRequest) = m + 3 /\ 3 \in 1..m + 3
          /\ \A i \in 1..m + 3 : strRequest[i] = msg(i)
      BY <2>1
    <3>2. strRequest[3].calls = [c \in 1..m |-> call(3, c)] /\ strRequest[3].text = resp.content
      BY <1>2, <1>4, <3>1
    <3>3. \A i \in 1..m + 3 : strRequest[i].role = h[i].role /\ strRequest[i].ref = ref(i)
      BY <3>1
    <3> HIDE DEF msg
    <3>4. ASSUME NEW c \in 1..m
          PROVE  /\ strRequest[3].calls[c].name = c
                 /\ strRequest[3].calls[c].args.parts = StrArgs("text", strAnswer.parts[c]).parts
                 /\ strRequest[3 + c].ref = strRequest[3].calls[c].name
      <4>1. 3 + c \in 1..m + 3 /\ 3 + c = c + 3 /\ c # 0
        OBVIOUS
      <4>2. strRequest[3].calls[c] = call(3, c)
        BY <3>2
      <4>3. /\ strRequest[3].calls[c].name = c
            /\ strRequest[3].calls[c].args = StrDumped(resp.calls[c].args)
        BY <1>1, <1>4, <2>a, <4>2
      <4>4. ref(c + 3) = c
        BY <1>4, <4>1
      <4>5. strRequest[3].calls[c].args.parts = StrArgs("text", strAnswer.parts[c]).parts
        <5>1. StrDumped(resp.calls[c].args).parts = resp.calls[c].args.parts
          BY <1>1, StrDumpedKeeps
        <5>2. resp.calls[c].args.parts = StrArgs("text", strAnswer.parts[c]).parts
          BY <1>1
        <5> QED BY <4>3, <5>1, <5>2, Zenon
      <4> HIDE DEF ref
      <4>6. strRequest[3 + c].ref = c
        BY <3>3, <4>1, <4>4
      <4> QED BY <4>3, <4>5, <4>6, Zenon
    <3> QED BY <1>6, <1>8, <3>1, <3>2, <3>3, <3>4 DEF StrSays, StrNames
  <2> QED BY <2>2, StrSaysIsSaid
<1>9. CASE strDialect = "anthropic"
  <2>1. strRequest = AnthropicRequest(h)
    BY <1>9 DEF StrNextRequest, h
  <2>2. ASSUME NEW i \in 2..m + 3 PROVE h[i].role # "system"
    <3>1. i = 2 \/ i = 3 \/ (i - 3 \in 1..m /\ i - 3 + 3 = i)
      OBVIOUS
    <3>2. CASE i - 3 \in 1..m /\ i - 3 + 3 = i
      <4>1. h[i - 3 + 3].role = "tool"
        BY <1>4, <3>2
      <4> QED BY <3>2, <4>1
    <3> QED BY <1>3, <1>4, <3>1, <3>2
  <2>3. /\ Len(strRequest) = m + 2 /\ DOMAIN strRequest = 1..m + 2
        /\ \A i \in 1..m + 2 : strRequest[i] = AnthropicMessage(h[i + 1])
    <3>1. PICK n \in Nat : n = m + 2
      OBVIOUS
    <3>2. n + 1 = m + 3
      BY <3>1
    <3>3. h \in Seq(S) /\ Len(h) = n + 1 /\ h[1].role = "system"
      BY <1>3, <3>2
    <3>4. \A i \in 2..n + 1 : h[i].role # "system"
      BY <2>2, <3>2
    <3>5. PICK req : req = AnthropicRequest(h)
      OBVIOUS
    <3> HIDE DEF S
    <3>6. /\ Len(req) = n /\ DOMAIN req = 1..n
          /\ \A i \in 1..n : req[i] = AnthropicMessage(h[i + 1])
      BY ONLY <3>1, <3>3, <3>4, <3>5, AnthropicRequestIs
    <3> QED BY <2>1, <3>1, <3>5, <3>6
  <2>4. \A i \in 1..m + 2 : /\ strRequest[i].role = IF h[i + 1].role = "tool" THEN "user"
                                                    ELSE h[i + 1].role
                            /\ strRequest[i].text = h[i + 1].text
                            /\ strRequest[i].ref = h[i + 1].ref
                            /\ strRequest[i].calls = h[i + 1].calls
    BY <2>3 DEF AnthropicMessage
  <2>5. StrSays(strRequest, 2, m, resp, strAnswer)
    <3>1. \A i \in 1..m + 2 : strRequest[i].role = "assistant" <=> i = 2
      <4>1. \A i \in 1..m + 2 : i + 1 \in 1..m + 3 /\ (i + 1 = 3 <=> i = 2)
        OBVIOUS
      <4> QED BY <1>6, <2>4, <4>1
    <3>2. 2 \in 1..m + 2 /\ strRequest[2].text = resp.content /\ strRequest[2].calls = resp.calls
      BY <1>4, <2>4
    <3>3. ASSUME NEW c \in 1..m PROVE strRequest[2 + c].ref = resp.calls[c].id
      <4>1. 2 + c \in 1..m + 2 /\ 2 + c + 1 = c + 3
        OBVIOUS
      <4> QED BY <1>4, <2>4, <4>1
    <3> QED BY <1>1, <1>9, <2>3, <3>1, <3>2, <3>3 DEF StrSays, StrNames
  <2> QED BY <2>5, StrSaysIsSaid
<1> QED
  BY <1>7, <1>8, <1>9
-----------------------------------------------------------------------------
\* What the server has sent after some of its events, for the dialect d and the answer a.
StrAnswerOK(a) == a.text \in Nat /\ a.parts \in Seq(Nat)
StrServerOK(s, d, a) ==
  /\ DOMAIN s = {"text", "parts", "ended"} /\ s.text \in Nat /\ s.ended \in BOOLEAN
  /\ s.parts \in Seq(Nat) /\ Len(s.parts) <= Len(a.parts)
  /\ d = "ollama" => \A c \in 1..Len(s.parts) : s.parts[c] = a.parts[c]
  /\ s.ended => /\ s.text = a.text /\ Len(s.parts) = Len(a.parts)
                /\ \A c \in 1..Len(a.parts) : s.parts[c] = a.parts[c]

\* One event takes the server from s to t.
StrStep(s, e, t, d, a) ==
  /\ ~s.ended
  /\ \/ e.kind = "text" /\ e.arg = s.text + 1 /\ t = [s EXCEPT !.text = e.arg]
     \/ /\ e.kind = "open" /\ e.arg = Len(s.parts) + 1
        /\ d = "openai" => e.index = Len(s.parts)
        /\ t = [s EXCEPT !.parts = Append(@, IF d = "ollama" THEN a.parts[e.arg] ELSE 0)]
     \/ /\ e.kind = "part"
        /\ \E c \in 1..Len(s.parts) :
             /\ d = "openai" => e.index = c - 1
             /\ e.arg = s.parts[c] + 1 /\ t = [s EXCEPT !.parts[c] = e.arg]
     \/ e.kind = "finish" /\ t = [s EXCEPT !.ended = TRUE]

StrOnes(n) == [i \in 1..n |-> i]
\* What the client has made of those events.  Nothing is said of Anthropic's tool calls.
StrClient(s, acc, resp, shown, d, a) ==
  /\ DOMAIN resp = {"content", "calls"}
  /\ shown = StrOnes(s.text) /\ resp.content = StrOnes(s.text)
  /\ d = "openai" /\ ~s.ended =>
       /\ resp.calls = <<>>
       /\ acc = [c \in 1..Len(s.parts) |-> StrCall(c, c, StrArgs("text", s.parts[c]))]
  /\ d = "openai" /\ s.ended =>
       resp.calls = [c \in 1..Len(s.parts) |->
                       StrCall(c, c, StrParsed(StrArgs("text", s.parts[c])))]
  /\ d = "ollama" =>
       /\ acc = [c \in 1..Len(s.parts) |-> StrEmptyCall]
       /\ resp.calls = [c \in 1..Len(s.parts) |->
                          StrCall(c - 1, c, StrParsed(StrArgs("text", a.parts[c])))]

\* One more member of a sequence of naturals.
LEMMA StrAppendTo ==
  ASSUME NEW n \in Nat, NEW s, s = [i \in 1..n |-> s[i]], NEW x
  PROVE  /\ Append(s, x) = [i \in 1..n + 1 |-> IF i = n + 1 THEN x ELSE s[i]]
         /\ Len(s) = n
<1> DEFINE S == {s[i] : i \in 1..n} \cup {x}
<1>1. s \in Seq(S) /\ Len(s) = n /\ x \in S
  OBVIOUS
<1> HIDE DEF S
<1>2. /\ Append(s, x) \in Seq(S) /\ Len(Append(s, x)) = n + 1
      /\ \A i \in 1..n : Append(s, x)[i] = s[i]
      /\ Append(s, x)[n + 1] = x
  BY <1>1, AppendProperties
<1> DEFINE t == Append(s, x)
<1> HIDE DEF t
<1>3. DOMAIN t = 1..n + 1 /\ t = [i \in 1..n + 1 |-> t[i]]
  BY <1>2 DEF t
<1>4. \A i \in 1..n + 1 : t[i] = IF i = n + 1 THEN x ELSE s[i]
  BY <1>2 DEF t
<1>5. t = [i \in 1..n + 1 |-> IF i = n + 1 THEN x ELSE s[i]]
  BY <1>3, <1>4
<1> QED
  BY <1>1, <1>5 DEF t

\* One more number in a row.
LEMMA StrOnesAppend ==
  ASSUME NEW n \in Nat
  PROVE  Append(StrOnes(n), n + 1) = StrOnes(n + 1)
<1> DEFINE s == StrOnes(n)
<1>1. s = [i \in 1..n |-> s[i]] /\ \A i \in 1..n : s[i] = i
  BY DEF StrOnes
<1> HIDE DEF s
<1>2. Append(s, n + 1) = [i \in 1..n + 1 |-> IF i = n + 1 THEN n + 1 ELSE s[i]]
  BY <1>1, StrAppendTo
<1>3. \A i \in 1..n + 1 : (IF i = n + 1 THEN n + 1 ELSE s[i]) = i
  BY <1>1
<1>4. [i \in 1..n + 1 |-> IF i = n + 1 THEN n + 1 ELSE s[i]] = [i \in 1..n + 1 |-> i]
  BY <1>3
<1> QED
  BY <1>2, <1>4 DEF StrOnes, s

\* The fields of a call.
LEMMA StrCallFields ==
  ASSUME NEW id, NEW name, NEW args, NEW other
  PROVE  /\ DOMAIN StrCall(id, name, args) = {"id", "name", "args"}
         /\ StrCall(id, name, args).id = id /\ StrCall(id, name, args).name = name
         /\ StrCall(id, name, args).args = args
         /\ [StrCall(id, name, args) EXCEPT !.args = other] = StrCall(id, name, other)
BY DEF StrCall

\* OpenAI: the calls are accumulated, each under its index.
LEMMA OpenAIEventKeeps ==
  ASSUME NEW a, NEW s, NEW t, NEW e, NEW acc, NEW resp, NEW shown, StrAnswerOK(a),
         StrServerOK(s, "openai", a), StrStep(s, e, t, "openai", a),
         StrClient(s, acc, resp, shown, "openai", a),
         NEW r, r = OpenAIEvent(e, [acc |-> acc, resp |-> resp]),
         NEW seen, seen = IF e.kind = "text" THEN Append(shown, e.arg) ELSE shown
  PROVE  StrClient(t, r.acc, r.resp, seen, "openai", a)
<1> DEFINE L == Len(s.parts)
           q == [acc |-> acc, resp |-> resp]
           call(c) == StrCall(c, c, StrArgs("text", s.parts[c]))
<1>1. /\ DOMAIN s = {"text", "parts", "ended"} /\ s.text \in Nat /\ s.ended = FALSE
      /\ s.parts \in Seq(Nat) /\ L \in Nat
  BY DEF StrServerOK, StrStep
<1>2. /\ DOMAIN resp = {"content", "calls"} /\ shown = StrOnes(s.text)
      /\ resp.content = StrOnes(s.text) /\ resp.calls = <<>>
      /\ acc = [c \in 1..L |-> call(c)]
  BY <1>1 DEF StrClient
<1>3. CASE e.kind = "text"
  <2>1. e.arg = s.text + 1 /\ t = [s EXCEPT !.text = e.arg]
    BY <1>3 DEF StrStep
  <2>2. t.text = s.text + 1 /\ t.parts = s.parts /\ t.ended = FALSE
    BY <1>1, <2>1
  <2>3. r = [q EXCEPT !.resp = StrSaid(@, e.arg)]
    BY <1>3 DEF OpenAIEvent
  <2>4. r.acc = acc /\ r.resp = [resp EXCEPT !.content = Append(@, e.arg)]
    BY <2>3 DEF StrSaid
  <2>5. /\ DOMAIN r.resp = {"content", "calls"} /\ r.resp.calls = resp.calls
        /\ r.resp.content = Append(resp.content, e.arg)
    BY <1>2, <2>4
  <2>6. Append(StrOnes(s.text), e.arg) = StrOnes(t.text)
    BY <1>1, <2>1, <2>2, StrOnesAppend
  <2> HIDE DEF call
  <2> QED BY <1>2, <1>3, <2>2, <2>4, <2>5, <2>6 DEF StrClient, call
<1>4. CASE e.kind = "open"
  <2>1. /\ e.arg = L + 1 /\ e.index = L
        /\ t = [s EXCEPT !.parts = Append(@, 0)]
    BY <1>4 DEF StrStep
  <2>2. t.text = s.text /\ t.parts = Append(s.parts, 0) /\ t.ended = FALSE
    BY <1>1, <2>1
  <2>3. /\ Len(t.parts) = L + 1 /\ t.parts[L + 1] = 0
        /\ \A c \in 1..L : t.parts[c] = s.parts[c]
    BY <1>1, <2>2
  <2> DEFINE padded == StrPadded(acc, L)
             new == StrCall(L + 1, L + 1, StrArgs("text", 0))
  <2>4. padded = [k \in 1..L + 1 |-> IF k \in DOMAIN acc THEN acc[k] ELSE StrEmptyCall]
    <3>1. Len(acc) = L
      BY <1>1, <1>2
    <3> QED BY <1>1, <3>1 DEF StrPadded
  <2>5. r = [q EXCEPT !.acc = [padded EXCEPT ![L + 1] = new]]
    BY <1>4, <2>1 DEF OpenAIEvent
  <2>6. r.resp = resp /\ r.acc = [padded EXCEPT ![L + 1] = new]
    BY <2>5
  <2>7. r.acc = [c \in 1..L + 1 |-> StrCall(c, c, StrArgs("text", t.parts[c]))]
    <3> HIDE DEF padded, new, call
    <3>1. \A c \in 1..L : padded[c] = call(c)
      BY <1>1, <1>2, <2>4
    <3>2. r.acc = [c \in 1..L + 1 |-> IF c = L + 1 THEN new ELSE padded[c]]
      BY <1>1, <2>4, <2>6
    <3>3. ASSUME NEW c \in 1..L + 1
          PROVE  (IF c = L + 1 THEN new ELSE padded[c])
                   = StrCall(c, c, StrArgs("text", t.parts[c]))
      <4>1. CASE c = L + 1
        BY <2>3, <4>1 DEF new
      <4>2. CASE c # L + 1
        <5>1. c \in 1..L
          BY <1>1, <4>2
        <5> QED BY <2>3, <3>1, <4>2, <5>1 DEF call
      <4> QED BY <4>1, <4>2
    <3> QED BY <3>2, <3>3
  <2> HIDE DEF L
  <2> QED BY <1>2, <1>4, <2>2, <2>3, <2>6, <2>7 DEF StrClient
<1>5. CASE e.kind = "part"
  <2>1. PICK c \in 1..L : /\ e.index = c - 1 /\ e.arg = s.parts[c] + 1
                          /\ t = [s EXCEPT !.parts[c] = e.arg]
    BY <1>5 DEF StrStep
  <2>2. t.text = s.text /\ t.parts = [s.parts EXCEPT ![c] = e.arg] /\ t.ended = FALSE
    BY <1>1, <2>1
  <2>3. /\ Len(t.parts) = L /\ t.parts[c] = e.arg /\ s.parts[c] \in Nat
        /\ \A k \in 1..L : k # c => t.parts[k] = s.parts[k]
    BY <1>1, <2>2
  <2> DEFINE padded == StrPadded(acc, e.index)
  <2>4. padded = acc
    <3>1. Len(acc) = L /\ L > e.index /\ DOMAIN acc = 1..L
      BY <1>1, <1>2, <2>1
    <3>2. padded = [k \in 1..L |-> IF k \in DOMAIN acc THEN acc[k] ELSE StrEmptyCall]
      BY <3>1 DEF StrPadded
    <3> HIDE DEF padded
    <3>3. \A k \in 1..L : padded[k] = acc[k]
      BY <3>1, <3>2
    <3> HIDE DEF call
    <3>4. acc = [k \in 1..L |-> acc[k]]
      BY <1>2
    <3> QED BY <3>2, <3>3, <3>4
  <2>5. e.index + 1 = c
    BY <2>1
  <2>6. r = [q EXCEPT !.acc = [padded EXCEPT ![c].args = StrAppendPart(@, e.arg)]]
    BY <1>5, <2>5 DEF OpenAIEvent
  <2> HIDE DEF padded
  <2>7. r.resp = resp /\ r.acc = [acc EXCEPT ![c].args = StrAppendPart(@, e.arg)]
    BY <2>4, <2>6
  <2>8. [acc[c] EXCEPT !.args = StrAppendPart(@, e.arg)] = StrCall(c, c, StrArgs("text", e.arg))
    <3>1. acc[c] = StrCall(c, c, StrArgs("text", s.parts[c]))
      BY <1>2
    <3>2. StrAppendPart(StrArgs("text", s.parts[c]), e.arg) = StrArgs("text", e.arg)
      <4>1. Append(StrOnes(s.parts[c]), e.arg) = StrOnes(e.arg)
        BY <2>1, <2>3, StrOnesAppend
      <4> QED BY <4>1 DEF StrAppendPart, StrArgs, StrOnes
    <3>3. [acc[c] EXCEPT !.args = StrAppendPart(@, e.arg)]
            = [acc[c] EXCEPT !.args = StrAppendPart(acc[c].args, e.arg)]
      OBVIOUS
    <3> QED BY <3>1, <3>2, <3>3, StrCallFields
  <2>9. r.acc = [k \in 1..L |-> StrCall(k, k, StrArgs("text", t.parts[k]))]
    <3> DEFINE new == [acc[c] EXCEPT !.args = StrAppendPart(@, e.arg)]
    <3>1. r.acc = [acc EXCEPT ![c] = new]
      BY <2>7
    <3> HIDE DEF new
    <3>2. r.acc = [k \in 1..L |-> IF k = c THEN new ELSE acc[k]]
      <4> HIDE DEF call
      <4> QED BY <1>2, <2>1, <3>1
    <3>3. ASSUME NEW k \in 1..L
          PROVE  (IF k = c THEN new ELSE acc[k]) = StrCall(k, k, StrArgs("text", t.parts[k]))
      BY <1>2, <2>3, <2>8 DEF new
    <3> QED BY <3>2, <3>3
  <2> HIDE DEF L, call
  <2> QED BY <1>2, <1>5, <2>2, <2>3, <2>7, <2>9 DEF StrClient
<1>6. CASE e.kind = "finish"
  <2>1. t = [s EXCEPT !.ended = TRUE]
    BY <1>6 DEF StrStep
  <2>2. t.text = s.text /\ t.parts = s.parts /\ t.ended = TRUE
    BY <1>1, <2>1
  <2>3. r.resp = StrEnded(resp, acc)
    BY <1>6 DEF OpenAIEvent
  <2> DEFINE done == [k \in DOMAIN acc |-> [acc[k] EXCEPT !.args = StrParsed(@)]]
  <2>4. r.resp = [resp EXCEPT !.calls = resp.calls \o done]
    BY <2>3 DEF StrEnded
  <2>5. done = [k \in 1..L |-> StrCall(k, k, StrParsed(StrArgs("text", s.parts[k])))]
    <3>1. ASSUME NEW k \in 1..L
          PROVE  [acc[k] EXCEPT !.args = StrParsed(@)]
                   = StrCall(k, k, StrParsed(StrArgs("text", s.parts[k])))
      <4>1. acc[k] = StrCall(k, k, StrArgs("text", s.parts[k]))
        BY <1>2
      <4> QED BY <4>1, StrCallFields
    <3>2. DOMAIN acc = 1..L
      BY <1>2
    <3> QED BY <3>1, <3>2
  <2>6. <<>> \o done = done
    <3> DEFINE S == {done[k] : k \in 1..L}
    <3>1. done \in Seq(S)
      BY <1>1, <2>5
    <3> HIDE DEF done, S
    <3> QED BY <3>1, ConcatEmptySeq
  <2>7. /\ DOMAIN r.resp = {"content", "calls"} /\ r.resp.content = resp.content
        /\ r.resp.calls = done
    <3> HIDE DEF done
    <3> QED BY <1>2, <2>4, <2>6
  <2> HIDE DEF done
  <2> QED BY <1>2, <1>6, <2>2, <2>5, <2>7 DEF StrClient
<1> QED
  BY <1>3, <1>4, <1>5, <1>6 DEF StrStep

\* Ollama: a call comes whole, and counts for its id.
LEMMA OllamaEventKeeps ==
  ASSUME NEW e, NEW s, NEW t, NEW acc, NEW resp, NEW shown, StrAnswerOK(strAnswer),
         StrServerOK(s, "ollama", strAnswer), StrServerOK(t, "ollama", strAnswer),
         StrStep(s, e, t, "ollama", strAnswer),
         StrClient(s, acc, resp, shown, "ollama", strAnswer),
         NEW r, r = OllamaEvent(e, [acc |-> acc, resp |-> resp]),
         NEW seen, seen = IF e.kind = "text" THEN Append(shown, e.arg) ELSE shown
  PROVE  StrClient(t, r.acc, r.resp, seen, "ollama", strAnswer)
<1> DEFINE L == Len(s.parts)
           q == [acc |-> acc, resp |-> resp]
           call(c) == StrCall(c - 1, c, StrParsed(StrArgs("text", strAnswer.parts[c])))
<1>1. /\ DOMAIN s = {"text", "parts", "ended"} /\ s.text \in Nat
      /\ s.parts \in Seq(Nat) /\ L \in Nat
      /\ \A c \in 1..L : s.parts[c] = strAnswer.parts[c]
  BY DEF StrServerOK
<1>2. /\ DOMAIN resp = {"content", "calls"} /\ shown = StrOnes(s.text)
      /\ resp.content = StrOnes(s.text) /\ acc = [c \in 1..L |-> StrEmptyCall]
      /\ resp.calls = [c \in 1..L |-> call(c)]
  BY DEF StrClient
<1>3. CASE e.kind = "text"
  <2>1. e.arg = s.text + 1 /\ t = [s EXCEPT !.text = e.arg]
    BY <1>3 DEF StrStep
  <2>2. t.text = s.text + 1 /\ t.parts = s.parts
    BY <1>1, <2>1
  <2>3. r = [q EXCEPT !.resp = StrSaid(@, e.arg)]
    BY <1>3 DEF OllamaEvent
  <2>4. r.acc = acc /\ r.resp = [resp EXCEPT !.content = Append(@, e.arg)]
    BY <2>3 DEF StrSaid
  <2>5. /\ DOMAIN r.resp = {"content", "calls"} /\ r.resp.calls = resp.calls
        /\ r.resp.content = Append(resp.content, e.arg)
    BY <1>2, <2>4
  <2>6. Append(StrOnes(s.text), e.arg) = StrOnes(t.text)
    BY <1>1, <2>1, <2>2, StrOnesAppend
  <2> HIDE DEF call
  <2> QED BY <1>2, <1>3, <2>2, <2>4, <2>5, <2>6 DEF StrClient, call
<1>4. CASE e.kind = "open"
  <2>1. e.arg = L + 1 /\ t = [s EXCEPT !.parts = Append(@, strAnswer.parts[e.arg])]
    BY <1>4 DEF StrStep
  <2>2. t.text = s.text /\ t.parts = Append(s.parts, strAnswer.parts[L + 1])
    BY <1>1, <2>1
  <2>3. Len(t.parts) = L + 1
    <3>1. s.parts = [c \in 1..L |-> s.parts[c]]
      BY <1>1
    <3>2. t.parts = [c \in 1..L + 1 |-> IF c = L + 1 THEN strAnswer.parts[L + 1] ELSE s.parts[c]]
      BY <1>1, <2>2, <3>1, StrAppendTo
    <3> QED BY <1>1, <3>2
  <2> DEFINE new == StrCall(Len(acc), e.arg, StrParsed(StrArgs("text", strAnswer.parts[e.arg])))
  <2>4. /\ r.acc = Append(acc, StrEmptyCall)
        /\ r.resp = [resp EXCEPT !.calls = Append(@, new)]
    BY <1>4 DEF OllamaEvent
  <2>5. r.acc = [c \in 1..L + 1 |-> StrEmptyCall] /\ Len(acc) = L
    <3>1. acc = [c \in 1..L |-> acc[c]] /\ \A c \in 1..L : acc[c] = StrEmptyCall
      BY <1>2
    <3>2. /\ Append(acc, StrEmptyCall)
               = [c \in 1..L + 1 |-> IF c = L + 1 THEN StrEmptyCall ELSE acc[c]]
          /\ Len(acc) = L
      BY <1>1, <3>1, StrAppendTo
    <3>3. \A c \in 1..L + 1 : (IF c = L + 1 THEN StrEmptyCall ELSE acc[c]) = StrEmptyCall
      BY <1>1, <3>1
    <3> QED BY <2>4, <3>2, <3>3
  <2>6. new = call(L + 1)
    <3>1. L + 1 - 1 = L
      BY <1>1
    <3> QED BY <2>1, <2>5, <3>1
  <2>7. /\ DOMAIN r.resp = {"content", "calls"} /\ r.resp.content = resp.content
        /\ r.resp.calls = Append(resp.calls, call(L + 1))
    <3> HIDE DEF new, call
    <3> QED BY <1>2, <2>4, <2>6
  <2>8. r.resp.calls = [c \in 1..L + 1 |-> call(c)]
    <3> HIDE DEF call
    <3>1. resp.calls = [c \in 1..L |-> resp.calls[c]] /\ \A c \in 1..L : resp.calls[c] = call(c)
      BY <1>2
    <3>2. r.resp.calls = [c \in 1..L + 1 |-> IF c = L + 1 THEN call(L + 1) ELSE resp.calls[c]]
      <4>1. PICK calls, x : calls = resp.calls /\ x = call(L + 1)
        OBVIOUS
      <4>2. Append(calls, x) = [c \in 1..L + 1 |-> IF c = L + 1 THEN x ELSE calls[c]]
        BY <1>1, <3>1, <4>1, StrAppendTo
      <4> QED BY <2>7, <4>1, <4>2
    <3>3. \A c \in 1..L + 1 : (IF c = L + 1 THEN call(L + 1) ELSE resp.calls[c]) = call(c)
      BY <1>1, <3>1
    <3> QED BY <3>2, <3>3
  <2> HIDE DEF L, new
  <2> QED BY <1>2, <1>4, <2>2, <2>3, <2>5, <2>7, <2>8 DEF StrClient
<1>5. CASE e.kind = "part"
  <2>1. PICK c \in 1..L : e.arg = s.parts[c] + 1 /\ t = [s EXCEPT !.parts[c] = e.arg]
    BY <1>5 DEF StrStep
  <2>2. t.parts = [s.parts EXCEPT ![c] = e.arg]
    BY <1>1, <2>1
  <2>3. Len(t.parts) = L /\ t.parts[c] = s.parts[c] + 1 /\ s.parts[c] \in Nat
    BY <1>1, <2>1, <2>2
  <2>4. t.parts[c] = strAnswer.parts[c]
    BY <2>3 DEF StrServerOK
  <2> QED BY <1>1, <2>3, <2>4
<1>6. CASE e.kind = "finish"
  <2>1. t = [s EXCEPT !.ended = TRUE]
    BY <1>6 DEF StrStep
  <2>2. t.text = s.text /\ t.parts = s.parts
    BY <1>1, <2>1
  <2>3. r.resp = resp /\ r.acc = acc
    BY <1>6 DEF OllamaEvent
  <2> HIDE DEF call
  <2> QED BY <1>2, <1>6, <2>2, <2>3 DEF StrClient, call
<1> QED
  BY <1>3, <1>4, <1>5, <1>6 DEF StrStep

\* Anthropic: the text.
LEMMA AnthropicEventKeeps ==
  ASSUME NEW a, NEW s, NEW t, NEW e, NEW acc, NEW resp, NEW shown,
         StrServerOK(s, "anthropic", a), StrStep(s, e, t, "anthropic", a),
         StrClient(s, acc, resp, shown, "anthropic", a),
         NEW r, r = AnthropicEvent(e, [acc |-> acc, resp |-> resp]),
         NEW seen, seen = IF e.kind = "text" THEN Append(shown, e.arg) ELSE shown
  PROVE  StrClient(t, r.acc, r.resp, seen, "anthropic", a)
<1> DEFINE q == [acc |-> acc, resp |-> resp]
<1>1. DOMAIN s = {"text", "parts", "ended"} /\ s.text \in Nat
  BY DEF StrServerOK
<1>2. /\ DOMAIN resp = {"content", "calls"} /\ shown = StrOnes(s.text)
      /\ resp.content = StrOnes(s.text)
  BY DEF StrClient
<1>3. CASE e.kind = "text"
  <2>1. e.arg = s.text + 1 /\ t = [s EXCEPT !.text = e.arg]
    BY <1>3 DEF StrStep
  <2>2. t.text = s.text + 1
    BY <1>1, <2>1
  <2>3. r = [q EXCEPT !.resp = StrSaid(@, e.arg)]
    BY <1>3 DEF AnthropicEvent
  <2>4. r.resp = [resp EXCEPT !.content = Append(@, e.arg)]
    BY <2>3 DEF StrSaid
  <2>5. DOMAIN r.resp = {"content", "calls"} /\ r.resp.content = Append(resp.content, e.arg)
    BY <1>2, <2>4
  <2>6. Append(StrOnes(s.text), e.arg) = StrOnes(t.text)
    BY <1>1, <2>1, <2>2, StrOnesAppend
  <2> QED BY <1>2, <1>3, <2>5, <2>6 DEF StrClient
<1>4. CASE e.kind # "text"
  <2>1. t.text = s.text
    BY <1>1, <1>4 DEF StrStep
  <2>2. DOMAIN r.resp = {"content", "calls"} /\ r.resp.content = resp.content
    <3>1. e.kind = "open" \/ e.kind = "part" \/ e.kind = "finish"
      BY <1>4 DEF StrStep
    <3>2. CASE e.kind = "open" \/ e.kind = "part"
      BY <1>2, <3>2 DEF AnthropicEvent
    <3>3. CASE e.kind = "finish"
      <4>1. r.resp = StrEnded(resp, acc)
        BY <3>3 DEF AnthropicEvent
      <4> QED BY <1>2, <4>1 DEF StrEnded
    <3> QED BY <3>1, <3>2, <3>3
  <2> QED BY <1>2, <1>4, <2>1, <2>2 DEF StrClient
<1> QED
  BY <1>3, <1>4

\* An event that is handled leaves the client with what the server has sent.
LEMMA StrHandleKeeps ==
  ASSUME strDialect \in {"openai", "anthropic", "ollama"}, StrAnswerOK(strAnswer),
         NEW s, NEW t, NEW e,
         StrServerOK(s, strDialect, strAnswer), StrServerOK(t, strDialect, strAnswer),
         StrStep(s, e, t, strDialect, strAnswer),
         StrClient(s, strAcc, strResponse, strShown, strDialect, strAnswer),
         NEW seen, seen = IF e.kind = "text" THEN Append(strShown, e.arg) ELSE strShown
  PROVE  StrClient(t, StrHandle(e).acc, StrHandle(e).resp, seen, strDialect, strAnswer)
<1> DEFINE q == [acc |-> strAcc, resp |-> strResponse]
<1>1. CASE strDialect = "openai"
  <2>1. StrHandle(e) = OpenAIEvent(e, q)
    BY <1>1 DEF StrHandle
  <2> QED BY <1>1, <2>1, OpenAIEventKeeps
<1>2. CASE strDialect = "ollama"
  <2>1. StrHandle(e) = OllamaEvent(e, q)
    BY <1>2 DEF StrHandle
  <2> QED BY <1>2, <2>1, OllamaEventKeeps
<1>3. CASE strDialect = "anthropic"
  <2>1. StrHandle(e) = AnthropicEvent(e, q)
    BY <1>3 DEF StrHandle
  <2> QED BY <1>3, <2>1, AnthropicEventKeeps
<1> QED
  BY <1>1, <1>2, <1>3

-----------------------------------------------------------------------------
(* What the server sends, and what the client has at its end *)

StrEventSet == [kind : {"text", "open", "part", "finish"}, index : Nat, arg : Nat]
StrPieceSet == [event : StrEventSet, last : BOOLEAN]

\* The fields of an event.
LEMMA StrEventIs ==
  ASSUME NEW kind \in {"text", "open", "part", "finish"}, NEW index \in Nat, NEW arg \in Nat
  PROVE  /\ StrEvent(kind, index, arg) \in StrEventSet
         /\ StrEvent(kind, index, arg).kind = kind /\ StrEvent(kind, index, arg).arg = arg
         /\ StrEvent(kind, index, arg).index = index
BY DEF StrEvent, StrEventSet

\* What a server may send next.
LEMMA StrSendableIs ==
  ASSUME strDialect \in {"openai", "anthropic", "ollama"}, StrAnswerOK(strAnswer),
         StrServerOK(strSent, strDialect, strAnswer), NEW e \in StrSendable
  PROVE  /\ e \in StrEventSet /\ ~strSent.ended
         /\ \/ e.kind = "text" /\ e.arg = strSent.text + 1
            \/ /\ e.kind = "open" /\ e.arg = Len(strSent.parts) + 1
               /\ e.arg \in 1..Len(strAnswer.parts)
               /\ strDialect = "openai" => e.index = Len(strSent.parts)
            \/ /\ e.kind = "part" /\ strDialect # "ollama"
               /\ \E c \in 1..Len(strSent.parts) :
                    e.index = StrBlock(c) /\ e.arg = strSent.parts[c] + 1
            \/ e.kind = "finish" /\ StrAllSent
<1>1. /\ strSent.text \in Nat /\ strSent.parts \in Seq(Nat)
      /\ strDialect = "ollama" =>
           \A c \in 1..Len(strSent.parts) : strSent.parts[c] = strAnswer.parts[c]
  BY DEF StrServerOK
<1>2. strAnswer.parts \in Seq(Nat)
  BY DEF StrAnswerOK
<1>a. /\ DOMAIN strAnswer.parts = 1..Len(strAnswer.parts)
      /\ DOMAIN strSent.parts = 1..Len(strSent.parts)
      /\ Len(strSent.parts) \in Nat
  BY <1>1, <1>2
<1>b. \A c \in Nat : c >= 1 => StrBlock(c) \in Nat
  BY DEF StrBlock
<1> DEFINE next == Len(strSent.parts) + 1
           texts == IF StrTextSent THEN {} ELSE {StrEvent("text", 0, strSent.text + 1)}
           opens == IF /\ next \in DOMAIN strAnswer.parts
                       /\ strDialect # "openai" => StrTextSent
                       /\ strDialect = "anthropic" => \A c \in 1..next - 1 : StrCallSent(c)
                    THEN {StrEvent("open", StrBlock(next), next)} ELSE {}
           parts == {StrEvent("part", StrBlock(c), strSent.parts[c] + 1) :
                       c \in {k \in DOMAIN strSent.parts : ~StrCallSent(k)}}
           ends == IF StrAllSent THEN {StrEvent("finish", 0, 0)} ELSE {}
<1>3. ~strSent.ended /\ e \in texts \cup opens \cup parts \cup ends
  BY Zenon DEF StrSendable
<1>4. CASE e \in texts
  <2>1. e = StrEvent("text", 0, strSent.text + 1)
    BY <1>4
  <2>2. e \in StrEventSet /\ e.kind = "text" /\ e.arg = strSent.text + 1
    <3>1. PICK n \in Nat : n = strSent.text + 1
      BY <1>1
    <3> QED BY <2>1, <3>1, StrEventIs
  <2> QED BY <1>3, <2>2
<1>5. CASE e \in opens
  <2>1. e = StrEvent("open", StrBlock(next), next) /\ next \in 1..Len(strAnswer.parts)
    BY <1>a, <1>5
  <2>2. StrBlock(next) \in Nat /\ (strDialect = "openai" => StrBlock(next) = Len(strSent.parts))
    <3>1. next \in Nat /\ next >= 1 /\ next - 1 = Len(strSent.parts)
      BY <1>a
    <3> QED BY <1>b, <3>1 DEF StrBlock
  <2> HIDE DEF next
  <2>3. e \in StrEventSet /\ e.kind = "open" /\ e.arg = next /\ e.index = StrBlock(next)
    BY <1>a, <2>1, <2>2, StrEventIs DEF next
  <2> QED BY <1>3, <2>1, <2>2, <2>3 DEF next
<1>6. CASE e \in parts
  <2>1. PICK c \in 1..Len(strSent.parts) :
          ~StrCallSent(c) /\ e = StrEvent("part", StrBlock(c), strSent.parts[c] + 1)
    BY <1>a, <1>6
  <2>2. strSent.parts[c] + 1 \in Nat /\ StrBlock(c) \in Nat
    <3>1. strSent.parts[c] \in Nat
      BY <1>1
    <3>2. c \in Nat /\ c >= 1
      BY <1>a
    <3> QED BY <1>b, <3>1, <3>2
  <2>3. /\ e \in StrEventSet /\ e.kind = "part" /\ e.index = StrBlock(c)
        /\ e.arg = strSent.parts[c] + 1
    BY <2>1, <2>2, StrEventIs
  <2>4. strDialect # "ollama"
    BY <1>1, <1>a, <2>1 DEF StrCallSent
  <2> QED BY <1>3, <2>3, <2>4
<1>7. CASE e \in ends
  <2>1. e = StrEvent("finish", 0, 0) /\ StrAllSent
    BY <1>7
  <2>2. e \in StrEventSet /\ e.kind = "finish"
    BY <2>1, StrEventIs
  <2> QED BY <1>3, <2>1, <2>2
<1> QED
  BY <1>3, <1>4, <1>5, <1>6, <1>7

\* What is sent takes the server one event on.
LEMMA StrSendSteps ==
  ASSUME strDialect \in {"openai", "anthropic", "ollama"}, StrAnswerOK(strAnswer),
         StrServerOK(strSent, strDialect, strAnswer), NEW e \in StrSendable, NEW whole,
         StrSend(e, whole)
  PROVE  /\ StrStep(strSent, e, strSent', strDialect, strAnswer)
         /\ StrServerOK(strSent', strDialect, strAnswer)
<1>1. /\ DOMAIN strSent = {"text", "parts", "ended"} /\ strSent.text \in Nat
      /\ strSent.parts \in Seq(Nat) /\ strSent.ended \in BOOLEAN
      /\ Len(strSent.parts) <= Len(strAnswer.parts)
      /\ strDialect = "ollama" =>
           \A c \in 1..Len(strSent.parts) : strSent.parts[c] = strAnswer.parts[c]
  BY DEF StrServerOK
<1>2. strAnswer.text \in Nat /\ strAnswer.parts \in Seq(Nat)
  BY DEF StrAnswerOK
<1> DEFINE L == Len(strSent.parts)
           c0 == IF e.kind = "part" /\ StrBlock(1) = 1 THEN e.index ELSE e.index + 1
<1>3. strSent' = CASE e.kind = "text" -> [strSent EXCEPT !.text = @ + 1]
            [] e.kind = "open" ->
                 [strSent EXCEPT !.parts = Append(@, IF strDialect = "ollama"
                                                     THEN strAnswer.parts[e.arg] ELSE 0)]
            [] e.kind = "part" -> [strSent EXCEPT !.parts[c0] = @ + 1]
            [] e.kind = "finish" -> [strSent EXCEPT !.ended = TRUE]
  BY DEF StrSend
<1>4. /\ ~strSent.ended
      /\ \/ e.kind = "text" /\ e.arg = strSent.text + 1
         \/ /\ e.kind = "open" /\ e.arg = L + 1
            /\ e.arg \in 1..Len(strAnswer.parts)
            /\ strDialect = "openai" => e.index = L
         \/ /\ e.kind = "part" /\ strDialect # "ollama"
            /\ \E c \in 1..L : e.index = StrBlock(c) /\ e.arg = strSent.parts[c] + 1
         \/ e.kind = "finish" /\ StrAllSent
  BY StrSendableIs
<1>a. strSent.ended = FALSE /\ L \in Nat
  BY <1>1, <1>4
<1>5. CASE e.kind = "text"
  <2>1. strSent' = [strSent EXCEPT !.text = e.arg] /\ e.arg \in Nat
    BY <1>1, <1>3, <1>4, <1>5
  <2>2. /\ DOMAIN strSent' = {"text", "parts", "ended"} /\ strSent'.text = e.arg
        /\ strSent'.parts = strSent.parts /\ strSent'.ended = FALSE
    BY <1>1, <1>a, <2>1
  <2>3. StrServerOK(strSent', strDialect, strAnswer)
    BY <1>1, <2>1, <2>2 DEF StrServerOK
  <2> QED BY <1>4, <1>5, <2>1, <2>3 DEF StrStep
<1>6. CASE e.kind = "open"
  <2> DEFINE x == IF strDialect = "ollama" THEN strAnswer.parts[e.arg] ELSE 0
  <2>1. strSent' = [strSent EXCEPT !.parts = Append(@, x)] /\ x \in Nat
    BY <1>2, <1>3, <1>4, <1>6
  <2>2. /\ DOMAIN strSent' = {"text", "parts", "ended"} /\ strSent'.text = strSent.text
        /\ strSent'.parts = Append(strSent.parts, x) /\ strSent'.ended = FALSE
    BY <1>1, <1>a, <2>1
  <2>3. /\ strSent'.parts \in Seq(Nat) /\ Len(strSent'.parts) = L + 1
        /\ \A c \in 1..L : strSent'.parts[c] = strSent.parts[c]
        /\ strSent'.parts[L + 1] = x
    <3> HIDE DEF x
    <3> QED BY <1>1, <2>1, <2>2, AppendProperties
  <2>4. L + 1 <= Len(strAnswer.parts) /\ e.arg = L + 1
    BY <1>2, <1>4, <1>6
  <2>5. strDialect = "ollama" => \A c \in 1..L + 1 : strSent'.parts[c] = strAnswer.parts[c]
    <3>1. \A c \in 1..L + 1 : c \in 1..L \/ c = L + 1
      BY <1>a
    <3> QED BY <1>1, <2>3, <2>4, <3>1
  <2>6. StrServerOK(strSent', strDialect, strAnswer)
    BY <1>1, <2>2, <2>3, <2>4, <2>5 DEF StrServerOK
  <2> QED BY <1>4, <1>6, <2>1, <2>6 DEF StrStep
<1>7. CASE e.kind = "part"
  <2>1. PICK c \in 1..L : e.index = StrBlock(c) /\ e.arg = strSent.parts[c] + 1
    BY <1>4, <1>7
  <2>2. c0 = c
    BY <1>7, <2>1 DEF StrBlock
  <2>3. strDialect = "openai" => e.index = c - 1
    BY <2>1 DEF StrBlock
  <2> HIDE DEF c0
  <2>4. strSent' = [strSent EXCEPT !.parts[c] = e.arg] /\ e.arg \in Nat
    <3>1. strSent' = [strSent EXCEPT !.parts[c] = @ + 1]
      BY <1>3, <1>7, <2>2
    <3> QED BY <1>1, <2>1, <3>1
  <2>5. /\ DOMAIN strSent' = {"text", "parts", "ended"} /\ strSent'.text = strSent.text
        /\ strSent'.parts = [strSent.parts EXCEPT ![c] = e.arg] /\ strSent'.ended = FALSE
    BY <1>1, <1>a, <2>4
  <2>6. strSent'.parts \in Seq(Nat) /\ Len(strSent'.parts) = L
    BY <1>1, <2>1, <2>4, <2>5
  <2>7. strDialect # "ollama"
    BY <1>4, <1>7
  <2>8. StrServerOK(strSent', strDialect, strAnswer)
    BY <1>1, <2>5, <2>6, <2>7 DEF StrServerOK
  <2> QED BY <1>4, <1>7, <2>1, <2>3, <2>4, <2>8 DEF StrStep
<1>8. CASE e.kind = "finish"
  <2>1. strSent' = [strSent EXCEPT !.ended = TRUE] /\ StrAllSent
    BY <1>3, <1>4, <1>8
  <2>2. /\ DOMAIN strSent' = {"text", "parts", "ended"} /\ strSent'.text = strSent.text
        /\ strSent'.parts = strSent.parts /\ strSent'.ended = TRUE
    BY <1>1, <2>1
  <2>3. /\ strSent.text = strAnswer.text
        /\ \A c \in 1..Len(strAnswer.parts) : /\ c \in 1..L
                                              /\ strSent.parts[c] = strAnswer.parts[c]
    BY <1>1, <1>2, <2>1 DEF StrAllSent, StrTextSent, StrCallSent
  <2>4. L = Len(strAnswer.parts)
    <3> PICK n : n = Len(strAnswer.parts)
      OBVIOUS
    <3>1. n \in Nat /\ L <= n /\ \A c \in 1..n : c \in 1..L
      BY <1>1, <1>2, <2>3
    <3>2. n = 0 \/ n \in 1..n
      BY <3>1
    <3> QED BY <1>a, <3>1, <3>2
  <2>5. StrServerOK(strSent', strDialect, strAnswer)
    BY <1>1, <2>2, <2>3, <2>4 DEF StrServerOK
  <2> QED BY <1>4, <1>8, <2>1, <2>5 DEF StrStep
<1> QED
  BY <1>4, <1>5, <1>6, <1>7, <1>8

StrRenamed(call, id, args) == [call EXCEPT !.id = id, !.args = args]

\* A call the client has made of its parts has them all.
LEMMA StrCallNoId ==
  ASSUME NEW id, NEW name, NEW args, NEW other, NEW none
  PROVE  StrRenamed(StrCall(id, name, args), none, other) = StrCall(none, name, other)
<1> DEFINE F == {"id", "name", "args"}
<1>1. [f \in F |-> CASE f = "id" -> id [] f = "name" -> name [] f = "args" -> args]
        = StrCall(id, name, args)
  BY DEF StrCall
<1>2. PICK call : /\ call = StrCall(id, name, args)
                  /\ call = [f \in F |-> CASE f = "id" -> id [] f = "name" -> name
                                           [] f = "args" -> args]
  BY <1>1
<1>3. [call EXCEPT !.id = none, !.args = other]
        = [f \in F |-> CASE f = "id" -> none [] f = "name" -> name [] f = "args" -> other]
  BY <1>2
<1>4. [f \in F |-> CASE f = "id" -> none [] f = "name" -> name [] f = "args" -> other]
        = StrCall(none, name, other)
  BY DEF StrCall
<1> QED
  BY <1>2, <1>3, <1>4 DEF StrRenamed

\* Arguments are parsed whole.
LEMMA StrParsedKeeps ==
  ASSUME NEW n \in Nat
  PROVE  LET args == StrParsed(StrArgs("text", n))
         IN DOMAIN args = {"form", "parts"} /\ args.parts = StrArgs("text", n).parts
BY DEF StrParsed, StrArgs

\* The arguments of a call.
LEMMA StrArgsFields ==
  ASSUME NEW form, NEW n
  PROVE  /\ DOMAIN StrArgs(form, n) = {"form", "parts"}
         /\ StrArgs(form, n).parts = StrArgs("text", n).parts
BY DEF StrArgs

\* A response whose calls are those of the answer, whatever their ids.
StrMadeOf(resp, a, id, args) ==
  /\ StrAnswerOK(a) /\ resp.content = StrText(a)
  /\ resp.calls = [c \in 1..Len(a.parts) |-> StrCall(id[c], c, args[c])]
  /\ \A c \in 1..Len(a.parts) : /\ DOMAIN args[c] = {"form", "parts"}
                                /\ args[c].parts = StrArgs("text", a.parts[c]).parts

\* A response made so is whole.
LEMMA StrMadeWhole ==
  ASSUME NEW a, NEW resp, NEW id, NEW args, StrMadeOf(resp, a, id, args)
  PROVE  StrWhole(resp, a)
<1> DEFINE m == Len(a.parts)
<1>1. /\ DOMAIN a.parts = 1..m /\ resp.content = StrText(a)
      /\ resp.calls = [c \in 1..m |-> StrCall(id[c], c, args[c])]
      /\ \A c \in 1..m : /\ DOMAIN args[c] = {"form", "parts"}
                         /\ args[c].parts = StrArgs("text", a.parts[c]).parts
  BY DEF StrMadeOf, StrAnswerOK
<1>2. ASSUME NEW c \in 1..m
      PROVE  /\ DOMAIN resp.calls[c] = {"id", "name", "args"} /\ resp.calls[c].name = c
             /\ DOMAIN resp.calls[c].args = {"form", "parts"}
             /\ resp.calls[c].args.parts = StrArgs("text", a.parts[c]).parts
  <2>1. resp.calls[c] = StrCall(id[c], c, args[c])
    BY <1>1
  <2> QED BY <1>1, <2>1, StrCallFields
<1>3. resp.calls = [c \in 1..m |-> resp.calls[c]]
  BY <1>1
<1> QED
  BY <1>1, <1>2, <1>3 DEF StrWhole

\* When the server has ended, the client has the answer.
LEMMA StrClientEnds ==
  ASSUME NEW s, NEW acc, NEW resp, NEW shown, NEW d \in {"openai", "anthropic", "ollama"},
         NEW a, StrAnswerOK(a), StrServerOK(s, d, a), s.ended,
         StrClient(s, acc, resp, shown, d, a)
  PROVE  shown = StrText(a) /\ (d # "anthropic" => StrWhole(resp, a))
<1>1. /\ s.text = a.text /\ Len(s.parts) = Len(a.parts)
      /\ \A c \in 1..Len(a.parts) : s.parts[c] = a.parts[c]
  BY DEF StrServerOK
<1>2. StrOnes(s.text) = StrText(a)
  BY <1>1 DEF StrOnes, StrText
<1>3. shown = StrText(a) /\ resp.content = StrText(a)
  BY <1>2 DEF StrClient
<1> DEFINE m == Len(a.parts)
<1>4. m \in Nat /\ \A c \in 1..m : a.parts[c] \in Nat
  BY DEF StrAnswerOK
<1> DEFINE args == [c \in 1..m |-> StrParsed(StrArgs("text", a.parts[c]))]
<1>5. ASSUME NEW c \in 1..m
      PROVE  /\ DOMAIN args[c] = {"form", "parts"}
             /\ args[c].parts = StrArgs("text", a.parts[c]).parts
  BY <1>4, StrParsedKeeps
<1>6. CASE d = "openai"
  <2> DEFINE id == [c \in 1..m |-> c]
  <2>1. resp.calls = [c \in 1..m |-> StrCall(c, c, StrParsed(StrArgs("text", s.parts[c])))]
    BY <1>1, <1>6 DEF StrClient
  <2>2. resp.calls = [c \in 1..m |-> StrCall(id[c], c, args[c])]
    BY <1>1, <2>1
  <2> HIDE DEF id, args
  <2>3. StrMadeOf(resp, a, id, args)
    BY <1>3, <1>5, <2>2 DEF StrMadeOf
  <2> QED BY <1>3, <2>3, StrMadeWhole
<1>7. CASE d = "ollama"
  <2> DEFINE id == [c \in 1..m |-> c - 1]
  <2>1. resp.calls = [c \in 1..m |-> StrCall(c - 1, c, StrParsed(StrArgs("text", a.parts[c])))]
    BY <1>1, <1>7 DEF StrClient
  <2>2. resp.calls = [c \in 1..m |-> StrCall(id[c], c, args[c])]
    BY <2>1
  <2> HIDE DEF id, args
  <2>3. StrMadeOf(resp, a, id, args)
    BY <1>3, <1>5, <2>2 DEF StrMadeOf
  <2> QED BY <1>3, <2>3, StrMadeWhole
<1> QED
  BY <1>3, <1>6, <1>7

\* chat() of each dialect returns the answer.
LEMMA StrParseIsWhole ==
  ASSUME strDialect \in {"openai", "anthropic", "ollama"}, NEW a, StrAnswerOK(a)
  PROVE  StrWhole(StrParse(a), a)
<1> DEFINE m == Len(a.parts)
           call(c) == StrCall(c, c, StrArgs("text", a.parts[c]))
<1>1. /\ m \in Nat /\ DOMAIN a.parts = 1..m /\ \A c \in 1..m : a.parts[c] \in Nat
  BY DEF StrAnswerOK
<1>2. StrCalls(a) = [c \in 1..m |-> call(c)]
  BY <1>1 DEF StrCalls
<1>3. CASE strDialect = "openai"
  <2> DEFINE id == [c \in 1..m |-> c]
             args == [c \in 1..m |-> StrParsed(StrArgs("text", a.parts[c]))]
  <2>1. ASSUME NEW c \in 1..m
        PROVE  [StrCalls(a)[c] EXCEPT !.args = StrParsed(@)] = StrCall(id[c], c, args[c])
    <3>1. StrCalls(a)[c] = call(c)
      BY <1>2
    <3> QED BY <3>1, StrCallFields
  <2>2. StrParse(a) = StrReply(StrText(a), [c \in 1..m |-> StrCall(id[c], c, args[c])])
    BY <1>1, <1>3, <2>1 DEF StrParse, OpenAIParse
  <2>3. ASSUME NEW c \in 1..m
        PROVE  /\ DOMAIN args[c] = {"form", "parts"}
               /\ args[c].parts = StrArgs("text", a.parts[c]).parts
    BY <1>1, StrParsedKeeps
  <2> HIDE DEF id, args
  <2>4. /\ StrParse(a).content = StrText(a)
        /\ StrParse(a).calls = [c \in 1..m |-> StrCall(id[c], c, args[c])]
    BY <2>2 DEF StrReply
  <2>5. StrMadeOf(StrParse(a), a, id, args)
    BY <2>3, <2>4 DEF StrMadeOf
  <2> QED BY <2>5, StrMadeWhole
<1>4. CASE strDialect = "anthropic"
  <2> DEFINE id == [c \in 1..m |-> c]
             args == [c \in 1..m |-> StrArgs("object", a.parts[c])]
  <2>1. ASSUME NEW c \in 1..m
        PROVE  [StrCalls(a)[c] EXCEPT !.args = StrArgs("object", a.parts[c])]
                 = StrCall(id[c], c, args[c])
    <3>1. StrCalls(a)[c] = call(c)
      BY <1>2
    <3> QED BY <3>1, StrCallFields
  <2>2. StrParse(a) = StrReply(StrText(a), [c \in 1..m |-> StrCall(id[c], c, args[c])])
    BY <1>1, <1>4, <2>1 DEF StrParse, AnthropicParse
  <2>3. ASSUME NEW c \in 1..m
        PROVE  /\ DOMAIN args[c] = {"form", "parts"}
               /\ args[c].parts = StrArgs("text", a.parts[c]).parts
    BY StrArgsFields
  <2> HIDE DEF id, args
  <2>4. /\ StrParse(a).content = StrText(a)
        /\ StrParse(a).calls = [c \in 1..m |-> StrCall(id[c], c, args[c])]
    BY <2>2 DEF StrReply
  <2>5. StrMadeOf(StrParse(a), a, id, args)
    BY <2>3, <2>4 DEF StrMadeOf
  <2> QED BY <2>5, StrMadeWhole
<1>5. CASE strDialect = "ollama"
  <2> DEFINE id == [c \in 1..m |-> ""]
             args == [c \in 1..m |-> StrParsed(StrArgs("text", a.parts[c]))]
  <2>1. ASSUME NEW c \in 1..m
        PROVE  [StrCalls(a)[c] EXCEPT !.id = "", !.args = StrParsed(@)]
                 = StrCall(id[c], c, args[c])
    <3>1. StrCalls(a)[c] = call(c)
      BY <1>2
    <3>2. [call(c) EXCEPT !.id = "", !.args = args[c]] = StrCall("", c, args[c])
      <4>1. PICK none, x : none = "" /\ x = args[c]
        OBVIOUS
      <4>2. StrRenamed(call(c), none, x) = StrCall(none, c, x)
        BY StrCallNoId
      <4> HIDE DEF args, call
      <4> QED BY <4>1, <4>2 DEF StrRenamed
    <3>3. args[c] = StrParsed(call(c).args)
      BY StrCallFields
    <3> HIDE DEF args, call
    <3>4. [call(c) EXCEPT !.id = "", !.args = StrParsed(@)]
            = [call(c) EXCEPT !.id = "", !.args = args[c]]
      BY <3>3
    <3> QED BY <3>1, <3>2, <3>4
  <2>2. StrParse(a) = StrReply(StrText(a), [c \in 1..m |-> StrCall(id[c], c, args[c])])
    BY <1>1, <1>5, <2>1 DEF StrParse, OllamaParse
  <2>3. ASSUME NEW c \in 1..m
        PROVE  /\ DOMAIN args[c] = {"form", "parts"}
               /\ args[c].parts = StrArgs("text", a.parts[c]).parts
    BY <1>1, StrParsedKeeps
  <2> HIDE DEF id, args
  <2>4. /\ StrParse(a).content = StrText(a)
        /\ StrParse(a).calls = [c \in 1..m |-> StrCall(id[c], c, args[c])]
    BY <2>2 DEF StrReply
  <2>5. StrMadeOf(StrParse(a), a, id, args)
    BY <2>3, <2>4 DEF StrMadeOf
  <2> QED BY <2>5, StrMadeWhole
<1> QED
  BY <1>3, <1>4, <1>5

-----------------------------------------------------------------------------
(* The events on their way, cut anywhere *)

\* The pieces that the parser has not handled yet, in their order.
StrPieces(buf, wire) ==
  [k \in 1..Len(buf) + Len(wire) |-> IF k <= Len(buf) THEN buf[k] ELSE wire[k - Len(buf)]]

\* What the server had sent before and after each of n pieces q: sts[0] is what the client
\* has handled.
StrHeads(sts, q, n, sent, d, a) ==
  /\ \A k \in 0..n : StrServerOK(sts[k], d, a)
  /\ sts[n] = sent
  /\ \A k \in 1..n : IF q[k].last THEN StrStep(sts[k - 1], q[k].event, sts[k], d, a)
                     ELSE sts[k] = sts[k - 1]

StrReading(buf, wire, sent, acc, resp, shown, d, a) ==
  /\ StrServerOK(sent, d, a)
  /\ buf \in Seq(StrPieceSet) /\ wire \in Seq(StrPieceSet)
  /\ \E sts : /\ StrHeads(sts, StrPieces(buf, wire), Len(buf) + Len(wire), sent, d, a)
              /\ StrClient(sts[0], acc, resp, shown, d, a)

StrInv ==
  /\ strDialect \in {"openai", "anthropic", "ollama"} /\ StrAnswerOK(strAnswer)
  /\ strStatus = "reading" =>
       StrReading(strBuffer, strWire, strSent, strAcc, strResponse, strShown, strDialect,
                  strAnswer)
  /\ strStatus = "ok" =>
       /\ strPath = "stream" \/ strPath = "simulated" => strShown = StrText(strAnswer)
       /\ (strPath = "stream" => strDialect # "anthropic") =>
            StrWhole(strResponse, strAnswer) /\ strRequest = StrNextRequest(strResponse)

\* An answer begins: nothing is sent, and nothing is read.
LEMMA StrReadingStarts ==
  ASSUME NEW a, NEW d \in {"openai", "anthropic", "ollama"}, StrAnswerOK(a)
  PROVE  StrReading(<<>>, <<>>, [text |-> 0, parts |-> <<>>, ended |-> FALSE], <<>>,
                    StrReply(<<>>, <<>>), <<>>, d, a)
<1> DEFINE s == [text |-> 0, parts |-> <<>>, ended |-> FALSE]
           sts == [k \in 0..0 |-> s]
           resp == StrReply(<<>>, <<>>)
<1>1. /\ DOMAIN s = {"text", "parts", "ended"} /\ s.text = 0 /\ s.ended = FALSE
      /\ s.parts = <<>>
  OBVIOUS
<1> HIDE DEF s
<1>2. StrServerOK(s, d, a)
  <2>1. <<>> \in Seq(Nat) /\ Len(<<>>) = 0 /\ Len(a.parts) \in Nat /\ 1..0 = {}
    BY DEF StrAnswerOK
  <2>2. s.parts \in Seq(Nat) /\ Len(s.parts) = 0
    BY <1>1, <2>1
  <2>3. Len(s.parts) <= Len(a.parts) /\ \A c \in 1..Len(s.parts) : s.parts[c] = a.parts[c]
    BY <2>1, <2>2
  <2>4. s.text \in Nat /\ DOMAIN s = {"text", "parts", "ended"}
    BY <1>1
  <2>5. s.ended \in BOOLEAN
    BY <1>1
  <2>6. ~s.ended
    BY <1>1
  <2> QED BY <2>2, <2>3, <2>4, <2>5, <2>6, Zenon DEF StrServerOK
<1>3. DOMAIN resp = {"content", "calls"} /\ resp.content = <<>> /\ resp.calls = <<>>
  BY DEF StrReply
<1> HIDE DEF resp
<1>4. StrOnes(0) = <<>>
  BY DEF StrOnes
<1>5. StrClient(s, <<>>, resp, <<>>, d, a)
  BY <1>1, <1>3, <1>4 DEF StrClient
<1>6. StrHeads(sts, StrPieces(<<>>, <<>>), 0, s, d, a)
  BY <1>2 DEF StrHeads
<1>7. sts[0] = s
  OBVIOUS
<1>8. Len(<<>>) + Len(<<>>) = 0
  OBVIOUS
<1> HIDE DEF sts
<1>9. \E ss : /\ StrHeads(ss, StrPieces(<<>>, <<>>), Len(<<>>) + Len(<<>>), s, d, a)
              /\ StrClient(ss[0], <<>>, resp, <<>>, d, a)
  <2>1. StrClient(sts[0], <<>>, resp, <<>>, d, a)
    BY <1>5, <1>7, Zenon
  <2>2. StrHeads(sts, StrPieces(<<>>, <<>>), Len(<<>>) + Len(<<>>), s, d, a)
    BY ONLY <1>6, <1>8
  <2> QED BY <2>1, <2>2, Zenon
<1> QED
  BY <1>2, <1>9 DEF StrReading, s, resp

\* More pieces at the end of the wire: j of them, the last one whole.
LEMMA StrReadingSends ==
  ASSUME NEW a, NEW d, NEW buf, NEW wire, NEW sent, NEW acc, NEW resp, NEW shown,
         StrReading(buf, wire, sent, acc, resp, shown, d, a),
         NEW e \in StrEventSet, NEW t, StrStep(sent, e, t, d, a), StrServerOK(t, d, a),
         NEW last \in BOOLEAN
  PROVE  /\ StrReading(buf, wire \o <<[event |-> e, last |-> TRUE]>>, t, acc, resp, shown, d, a)
         /\ StrReading(buf,
                       wire \o <<[event |-> e, last |-> FALSE], [event |-> e, last |-> TRUE]>>,
                       t, acc, resp, shown, d, a)
<1> DEFINE L == Len(buf)
           W == Len(wire)
           part == [event |-> e, last |-> FALSE]
           whole == [event |-> e, last |-> TRUE]
           q == StrPieces(buf, wire)
<1>1. /\ StrServerOK(sent, d, a) /\ buf \in Seq(StrPieceSet) /\ wire \in Seq(StrPieceSet)
      /\ L \in Nat /\ W \in Nat
  BY DEF StrReading
<1>2. PICK sts : /\ StrHeads(sts, q, L + W, sent, d, a)
                 /\ StrClient(sts[0], acc, resp, shown, d, a)
  BY DEF StrReading
<1>3. /\ part \in StrPieceSet /\ whole \in StrPieceSet /\ whole.event = e /\ ~part.last
      /\ whole.last /\ part.last = FALSE /\ whole.last = TRUE
  BY DEF StrPieceSet
<1> HIDE DEF part, whole
<1>4. ASSUME NEW more, NEW j \in {1, 2}, more \in Seq(StrPieceSet), Len(more) = j,
             more[j] = whole, j = 2 => more[1] = part
      PROVE  StrReading(buf, wire \o more, t, acc, resp, shown, d, a)
  <2> DEFINE wire2 == wire \o more
             q2 == StrPieces(buf, wire2)
             n == L + W
             sts2 == [k \in 0..n + j |-> IF k <= n THEN sts[k]
                                          ELSE IF k = n + j THEN t ELSE sent]
  <2>1. /\ wire2 \in Seq(StrPieceSet) /\ Len(wire2) = W + j
        /\ \A k \in 1..W + j : wire2[k] = IF k <= W THEN wire[k] ELSE more[k - W]
    <3>1. /\ wire \o more \in Seq(StrPieceSet) /\ Len(wire \o more) = Len(wire) + Len(more)
          /\ \A i \in 1..Len(wire) + Len(more) :
               (wire \o more)[i] = IF i <= Len(wire) THEN wire[i] ELSE more[i - Len(wire)]
      BY <1>1, <1>4, ConcatProperties
    <3> QED BY <1>4, <3>1
  <2> HIDE DEF wire2
  <2>2. \A k \in 1..n + j : q2[k] = IF k <= n THEN q[k] ELSE more[k - n]
    <3> SUFFICES ASSUME NEW k \in 1..n + j PROVE q2[k] = IF k <= n THEN q[k] ELSE more[k - n]
      OBVIOUS
    <3>1. q2[k] = IF k <= L THEN buf[k] ELSE wire2[k - L]
      BY <1>1, <2>1 DEF StrPieces
    <3>2. k <= n => q[k] = IF k <= L THEN buf[k] ELSE wire[k - L]
      BY <1>1 DEF StrPieces
    <3>3. ~(k <= L) => k - L \in 1..W + j
      BY <1>1
    <3>4. CASE k <= n
      <4>1. ~(k <= L) => k - L <= W
        BY <1>1, <3>4
      <4> QED BY <2>1, <3>1, <3>2, <3>3, <3>4, <4>1
    <3>5. CASE ~(k <= n)
      <4>1. ~(k <= L) /\ ~(k - L <= W) /\ k - L - W = k - n
        BY <1>1, <3>5
      <4> QED BY <2>1, <3>1, <3>3, <3>5, <4>1
    <3> QED BY <3>4, <3>5
  <2> HIDE DEF q, q2
  <2>3. n \in Nat /\ n + j \in Nat /\ 0 \in 0..n
    BY <1>1, <1>4
  <2>4. /\ \A k \in 0..n : StrServerOK(sts[k], d, a)
        /\ sts[n] = sent
        /\ \A k \in 1..n : IF q[k].last THEN StrStep(sts[k - 1], q[k].event, sts[k], d, a)
                           ELSE sts[k] = sts[k - 1]
    BY <1>2 DEF StrHeads
  <2> HIDE DEF n
  <2>5. /\ \A k \in 0..n : sts2[k] = sts[k]
        /\ sts2[n + j] = t /\ (j = 2 => sts2[n + 1] = sent)
    BY <2>3, <1>4
  <2> HIDE DEF sts2
  <2>6. \A k \in 0..n + j : k \in 0..n \/ k = n + j \/ (j = 2 /\ k = n + 1)
    BY <2>3, <1>4
  <2>7. \A k \in 0..n + j : StrServerOK(sts2[k], d, a)
    BY <1>1, <2>4, <2>5, <2>6
  <2>8. ASSUME NEW k \in 1..n + j
        PROVE  IF q2[k].last THEN StrStep(sts2[k - 1], q2[k].event, sts2[k], d, a)
               ELSE sts2[k] = sts2[k - 1]
    <3>1. CASE k <= n
      <4>1. k \in 1..n /\ k \in 0..n /\ k - 1 \in 0..n
        BY <2>3, <3>1
      <4>2. q2[k] = q[k] /\ sts2[k] = sts[k] /\ sts2[k - 1] = sts[k - 1]
        BY <2>2, <2>5, <3>1, <4>1
      <4> QED BY <2>4, <4>1, <4>2
    <3>2. CASE j = 2 /\ k = n + 1
      <4>1. ~(k <= n) /\ k - n = 1 /\ k - 1 = n /\ n \in 0..n
        BY <2>3, <3>2
      <4>2. q2[k] = part /\ sts2[k] = sent /\ sts2[k - 1] = sts[n]
        BY <1>4, <2>2, <2>5, <3>2, <4>1
      <4> QED BY <1>3, <2>4, <4>2
    <3>3. CASE k = n + j
      <4>1. ~(k <= n) /\ k - n = j /\ k - 1 = IF j = 1 THEN n ELSE n + 1
        BY <1>4, <2>3, <3>3
      <4>2. q2[k] = whole /\ sts2[k] = t
        BY <1>4, <2>2, <2>5, <3>3, <4>1
      <4>3. sts2[k - 1] = sent
        <5>1. n \in 0..n
          BY <2>3
        <5> QED BY <1>4, <2>4, <2>5, <4>1, <5>1
      <4>4. StrStep(sts2[k - 1], q2[k].event, sts2[k], d, a)
        BY <1>3, <4>2, <4>3
      <4> QED BY <1>3, <4>2, <4>4
    <3>4. k \in 0..n + j /\ (k \in 0..n => k <= n)
      BY <2>3, <1>4
    <3> QED BY <2>6, <3>1, <3>2, <3>3, <3>4
  <2>9. StrHeads(sts2, q2, n + j, t, d, a)
    BY <2>5, <2>7, <2>8 DEF StrHeads
  <2>10. StrClient(sts2[0], acc, resp, shown, d, a)
    BY <1>2, <2>3, <2>5
  <2>11. Len(buf) + Len(wire2) = n + j
    BY <1>1, <2>1, <1>4 DEF n
  <2>12. \E ss : /\ StrHeads(ss, StrPieces(buf, wire2), Len(buf) + Len(wire2), t, d, a)
                 /\ StrClient(ss[0], acc, resp, shown, d, a)
    BY <2>9, <2>10, <2>11, Zenon DEF q2
  <2> QED BY <1>1, <2>1, <2>12 DEF StrReading, wire2
<1>5. <<whole>> \in Seq(StrPieceSet) /\ Len(<<whole>>) = 1 /\ <<whole>>[1] = whole
  BY <1>3
<1>6. /\ <<part, whole>> \in Seq(StrPieceSet) /\ Len(<<part, whole>>) = 2
      /\ <<part, whole>>[1] = part /\ <<part, whole>>[2] = whole
  BY <1>3
<1>7. StrReading(buf, wire \o <<whole>>, t, acc, resp, shown, d, a)
  <2>1. PICK more, j : more = <<whole>> /\ j = 1
    OBVIOUS
  <2>2. /\ j \in {1, 2} /\ more \in Seq(StrPieceSet) /\ Len(more) = j /\ more[j] = whole
        /\ (j = 2 => more[1] = part)
    BY <1>5, <2>1
  <2>3. StrReading(buf, wire \o more, t, acc, resp, shown, d, a)
    BY <1>4, <2>2
  <2> QED BY <2>1, <2>3
<1>8. StrReading(buf, wire \o <<part, whole>>, t, acc, resp, shown, d, a)
  <2>1. PICK more, j : more = <<part, whole>> /\ j = 2
    OBVIOUS
  <2>2. /\ j \in {1, 2} /\ more \in Seq(StrPieceSet) /\ Len(more) = j /\ more[j] = whole
        /\ (j = 2 => more[1] = part)
    BY <1>6, <2>1
  <2>3. StrReading(buf, wire \o more, t, acc, resp, shown, d, a)
    BY <1>4, <2>2
  <2> QED BY <2>1, <2>3
<1> QED
  BY <1>7, <1>8 DEF part, whole

\* What is fed to the parser goes on being the same pieces in the same order.
LEMMA StrReadingFeeds ==
  ASSUME NEW a, NEW d, NEW buf, NEW wire, NEW sent, NEW acc, NEW resp, NEW shown,
         StrReading(buf, wire, sent, acc, resp, shown, d, a), NEW n \in 1..Len(wire)
  PROVE  StrReading(buf \o SubSeq(wire, 1, n), SubSeq(wire, n + 1, Len(wire)), sent, acc, resp,
                    shown, d, a)
<1> DEFINE L == Len(buf)
           W == Len(wire)
           head == SubSeq(wire, 1, n)
           tail == SubSeq(wire, n + 1, W)
           buf2 == buf \o head
<1>1. /\ StrServerOK(sent, d, a) /\ buf \in Seq(StrPieceSet) /\ wire \in Seq(StrPieceSet)
      /\ L \in Nat /\ W \in Nat /\ n \in Nat /\ n <= W
  BY DEF StrReading
<1>2. PICK sts : /\ StrHeads(sts, StrPieces(buf, wire), L + W, sent, d, a)
                 /\ StrClient(sts[0], acc, resp, shown, d, a)
  BY DEF StrReading
<1>3. /\ head \in Seq(StrPieceSet) /\ Len(head) = n /\ \A k \in 1..n : head[k] = wire[k]
  <2>1. \A k \in 1..n : wire[k] \in StrPieceSet
    BY <1>1
  <2>2. /\ head \in Seq(StrPieceSet) /\ Len(head) = IF 1 <= n THEN n - 1 + 1 ELSE 0
        /\ \A k \in 1..n - 1 + 1 : head[k] = wire[1 + k - 1]
    BY <1>1, <2>1, SubSeqProperties
  <2>3. n - 1 + 1 = n /\ 1 <= n /\ \A k \in 1..n : 1 + k - 1 = k
    OBVIOUS
  <2> QED BY <2>2, <2>3
<1>4. /\ tail \in Seq(StrPieceSet) /\ Len(tail) = W - n
      /\ \A k \in 1..W - n : tail[k] = wire[n + k]
  <2>1. \A k \in n + 1..W : wire[k] \in StrPieceSet
    BY <1>1
  <2>2. n + 1 \in Nat
    BY <1>1
  <2>3. /\ tail \in Seq(StrPieceSet) /\ Len(tail) = IF n + 1 <= W THEN W - (n + 1) + 1 ELSE 0
        /\ \A k \in 1..W - (n + 1) + 1 : tail[k] = wire[n + 1 + k - 1]
    BY <1>1, <2>1, <2>2, SubSeqProperties
  <2> HIDE DEF tail
  <2>4. Len(tail) = W - n
    BY <1>1, <2>3
  <2>5. ASSUME NEW k \in 1..W - n PROVE tail[k] = wire[n + k]
    <3>1. k \in 1..W - (n + 1) + 1 /\ n + 1 + k - 1 = n + k
      BY <1>1
    <3> QED BY <2>3, <3>1
  <2> QED BY <2>3, <2>4, <2>5
<1>5. /\ buf2 \in Seq(StrPieceSet) /\ Len(buf2) = L + n
      /\ \A k \in 1..L + n : buf2[k] = IF k <= L THEN buf[k] ELSE head[k - L]
  <2>1. /\ buf \o head \in Seq(StrPieceSet) /\ Len(buf \o head) = Len(buf) + Len(head)
        /\ \A i \in 1..Len(buf) + Len(head) :
             (buf \o head)[i] = IF i <= Len(buf) THEN buf[i] ELSE head[i - Len(buf)]
    BY <1>1, <1>3, ConcatProperties
  <2> QED BY <1>3, <2>1
<1> HIDE DEF head, tail, buf2
<1>6. Len(buf2) + Len(tail) = L + W
  BY <1>1, <1>4, <1>5
<1>7. StrPieces(buf2, tail) = StrPieces(buf, wire)
  <2> SUFFICES ASSUME NEW k \in 1..L + W
               PROVE  (IF k <= Len(buf2) THEN buf2[k] ELSE tail[k - Len(buf2)])
                        = (IF k <= Len(buf) THEN buf[k] ELSE wire[k - Len(buf)])
    BY <1>6 DEF StrPieces
  <2>1. CASE k <= L
    <3>1. k <= L + n /\ k \in 1..L + n
      BY <1>1, <2>1
    <3> QED BY <1>5, <2>1, <3>1
  <2>2. CASE ~(k <= L) /\ k <= L + n
    <3>1. k \in 1..L + n /\ k - L \in 1..n
      BY <1>1, <2>2
    <3> QED BY <1>3, <1>5, <2>2, <3>1
  <2>3. CASE ~(k <= L + n)
    <3>1. k - (L + n) \in 1..W - n /\ n + (k - (L + n)) = k - L /\ ~(k <= L)
      BY <1>1, <2>3
    <3>2. tail[k - (L + n)] = wire[k - L]
      BY <1>4, <3>1
    <3> QED BY <1>5, <2>3, <3>1, <3>2
  <2> QED BY <2>1, <2>2, <2>3
<1>8. \E ss : /\ StrHeads(ss, StrPieces(buf2, tail), Len(buf2) + Len(tail), sent, d, a)
              /\ StrClient(ss[0], acc, resp, shown, d, a)
  BY <1>2, <1>6, <1>7
<1> QED
  BY <1>1, <1>4, <1>5, <1>8 DEF StrReading, head, tail, buf2

\* The first complete event of the buffer is the next one the server sent.
LEMMA StrReadingTakes ==
  ASSUME NEW a, NEW d, NEW buf, NEW wire, NEW sent, NEW acc, NEW resp, NEW shown,
         StrReading(buf, wire, sent, acc, resp, shown, d, a),
         NEW i \in 1..Len(buf), buf[i].last, \A k \in 1..i - 1 : ~buf[k].last
  PROVE  \E s, t :
           /\ StrServerOK(s, d, a) /\ StrServerOK(t, d, a) /\ StrStep(s, buf[i].event, t, d, a)
           /\ StrClient(s, acc, resp, shown, d, a)
           /\ \A acc2, resp2, shown2 :
                StrClient(t, acc2, resp2, shown2, d, a) =>
                  StrReading(SubSeq(buf, i + 1, Len(buf)), wire, sent, acc2, resp2, shown2, d, a)
<1> DEFINE L == Len(buf)
           W == Len(wire)
           n == L + W
           q == StrPieces(buf, wire)
           rest == SubSeq(buf, i + 1, L)
           q2 == StrPieces(rest, wire)
<1>1. /\ StrServerOK(sent, d, a) /\ buf \in Seq(StrPieceSet) /\ wire \in Seq(StrPieceSet)
      /\ L \in Nat /\ W \in Nat /\ i \in Nat /\ i <= L /\ i >= 1 /\ i \in 0..n /\ i - 1 \in 0..n
      /\ n \in Nat /\ n - i \in Nat /\ i \in 1..n /\ 0 \in 0..n
  BY DEF StrReading
<1>2. PICK sts : /\ StrHeads(sts, q, n, sent, d, a)
                 /\ StrClient(sts[0], acc, resp, shown, d, a)
  BY DEF StrReading
<1>3. /\ \A k \in 0..n : StrServerOK(sts[k], d, a)
      /\ sts[n] = sent
      /\ \A k \in 1..n : IF q[k].last THEN StrStep(sts[k - 1], q[k].event, sts[k], d, a)
                         ELSE sts[k] = sts[k - 1]
  BY <1>2 DEF StrHeads
<1>4. \A k \in 1..L : q[k] = buf[k]
  BY <1>1 DEF StrPieces
<1>5. /\ rest \in Seq(StrPieceSet) /\ Len(rest) = L - i
      /\ \A k \in 1..L - i : rest[k] = buf[i + k]
  <2>1. \A k \in i + 1..L : buf[k] \in StrPieceSet
    BY <1>1
  <2>2. i + 1 \in Nat
    BY <1>1
  <2>3. /\ rest \in Seq(StrPieceSet) /\ Len(rest) = IF i + 1 <= L THEN L - (i + 1) + 1 ELSE 0
        /\ \A k \in 1..L - (i + 1) + 1 : rest[k] = buf[i + 1 + k - 1]
    BY <1>1, <2>1, <2>2, SubSeqProperties
  <2> HIDE DEF rest
  <2>4. Len(rest) = L - i
    BY <1>1, <2>3
  <2>5. ASSUME NEW k \in 1..L - i PROVE rest[k] = buf[i + k]
    <3>1. k \in 1..L - (i + 1) + 1 /\ i + 1 + k - 1 = i + k
      BY <1>1
    <3> QED BY <2>3, <3>1
  <2> QED BY <2>3, <2>4, <2>5
<1> HIDE DEF rest
<1>6. \A k \in 1..n - i : q2[k] = q[i + k]
  <2> SUFFICES ASSUME NEW k \in 1..n - i PROVE q2[k] = q[i + k]
    OBVIOUS
  <2>1. k \in 1..(L - i) + W /\ i + k \in 1..L + W
    BY <1>1
  <2>2. q2[k] = IF k <= L - i THEN rest[k] ELSE wire[k - (L - i)]
    BY <1>5, <2>1 DEF StrPieces
  <2>3. q[i + k] = IF i + k <= L THEN buf[i + k] ELSE wire[i + k - L]
    BY <2>1 DEF StrPieces
  <2>4. CASE k <= L - i
    <3>1. k \in 1..L - i /\ i + k <= L
      BY <1>1, <2>4
    <3> QED BY <1>5, <2>2, <2>3, <2>4, <3>1
  <2>5. CASE ~(k <= L - i)
    <3>1. ~(i + k <= L) /\ i + k - L = k - (L - i)
      BY <1>1, <2>5
    <3> QED BY <2>2, <2>3, <2>5, <3>1
  <2> QED BY <2>4, <2>5
<1>7. (L - i) + W = n - i
  BY <1>1
<1> HIDE DEF q, q2, n
<1> DEFINE m == i - 1
<1>8. m \in Nat /\ m + 1 = i /\ \A k \in 0..m - 1 : k + 1 \in 1..n /\ k + 1 \in 1..i - 1
                                    /\ k + 1 - 1 = k /\ k + 1 \in 1..L
  BY <1>1
<1>9. \A k \in 0..m : sts[k] = sts[0]
  <2> DEFINE P == {k \in 0..m : sts[k] = sts[0]}
  <2>1. 0 \in P
    BY <1>8
  <2>2. ASSUME NEW k \in 0..m - 1, k \in P PROVE k + 1 \in P
    <3>1. ~q[k + 1].last
      BY <1>4, <1>8
    <3>2. sts[k + 1] = sts[k + 1 - 1]
      BY <1>3, <1>8, <3>1
    <3>3. k + 1 \in 0..m /\ k + 1 - 1 = k
      BY <1>8
    <3> QED BY <2>2, <3>2, <3>3
  <2> HIDE DEF P
  <2>3. \A k \in 0..m : k \in P
    BY <1>8, <2>1, <2>2, NaturalsUpTo
  <2> QED BY <2>3 DEF P
<1>10. /\ StrServerOK(sts[0], d, a) /\ StrServerOK(sts[i], d, a)
       /\ StrStep(sts[0], buf[i].event, sts[i], d, a)
  <2>1. q[i].last /\ q[i] = buf[i]
    BY <1>4
  <2>2. StrStep(sts[i - 1], q[i].event, sts[i], d, a)
    BY <1>1, <1>3, <2>1
  <2>3. sts[i - 1] = sts[0]
    BY <1>8, <1>9
  <2> QED BY <1>1, <1>3, <2>1, <2>2, <2>3
<1>11. ASSUME NEW acc2, NEW resp2, NEW shown2, StrClient(sts[i], acc2, resp2, shown2, d, a)
       PROVE  StrReading(rest, wire, sent, acc2, resp2, shown2, d, a)
  <2> DEFINE sts2 == [k \in 0..n - i |-> sts[i + k]]
  <2>1. \A k \in 0..n - i : i + k \in 0..n
    BY <1>1
  <2>2. \A k \in 0..n - i : sts2[k] = sts[i + k]
    OBVIOUS
  <2>3. i + (n - i) = n /\ n - i \in 0..n - i /\ 0 \in 0..n - i /\ i + 0 = i
    BY <1>1
  <2> HIDE DEF sts2
  <2>4. ASSUME NEW k \in 1..n - i
        PROVE  IF q2[k].last THEN StrStep(sts2[k - 1], q2[k].event, sts2[k], d, a)
               ELSE sts2[k] = sts2[k - 1]
    <3>1. i + k \in 1..n /\ i + k - 1 = i + (k - 1) /\ k \in 0..n - i /\ k - 1 \in 0..n - i
      BY <1>1
    <3>2. sts2[k] = sts[i + k] /\ sts2[k - 1] = sts[i + k - 1] /\ q2[k] = q[i + k]
      BY <1>6, <2>2, <3>1
    <3>3. IF q[i + k].last THEN StrStep(sts[i + k - 1], q[i + k].event, sts[i + k], d, a)
          ELSE sts[i + k] = sts[i + k - 1]
      BY <1>3, <3>1
    <3> QED BY <3>2, <3>3
  <2>5. StrHeads(sts2, q2, n - i, sent, d, a)
    <3>1. \A k \in 0..n - i : StrServerOK(sts2[k], d, a)
      BY <1>3, <2>1, <2>2
    <3>2. sts2[n - i] = sent
      BY <1>3, <2>2, <2>3
    <3> QED BY <2>4, <3>1, <3>2 DEF StrHeads
  <2>6. StrClient(sts2[0], acc2, resp2, shown2, d, a)
    BY <1>11, <2>2, <2>3
  <2>7. \E ss : /\ StrHeads(ss, StrPieces(rest, wire), Len(rest) + Len(wire), sent, d, a)
                /\ StrClient(ss[0], acc2, resp2, shown2, d, a)
    BY <1>5, <1>7, <2>5, <2>6 DEF q2
  <2> QED BY <1>1, <1>5, <2>7 DEF StrReading
<1> QED
  BY <1>2, <1>10, <1>11 DEF rest

\* Nothing is under way any more.
LEMMA StrReadingEnds ==
  ASSUME NEW a, NEW d \in {"openai", "anthropic", "ollama"}, StrAnswerOK(a), NEW sent, NEW acc,
         NEW resp, NEW shown, StrReading(<<>>, <<>>, sent, acc, resp, shown, d, a), sent.ended
  PROVE  shown = StrText(a) /\ (d # "anthropic" => StrWhole(resp, a))
<1>1. PICK sts : /\ StrHeads(sts, StrPieces(<<>>, <<>>), Len(<<>>) + Len(<<>>), sent, d, a)
                 /\ StrClient(sts[0], acc, resp, shown, d, a)
  BY DEF StrReading
<1>2. Len(<<>>) + Len(<<>>) = 0
  OBVIOUS
<1>3. sts[0] = sent /\ StrServerOK(sent, d, a)
  BY <1>1, <1>2 DEF StrHeads, StrReading
<1> QED
  BY <1>1, <1>3, StrClientEnds

\* No request has been made.
LEMMA StrInitInv ==
  StrInit => StrInv
<1> SUFFICES ASSUME StrInit PROVE StrInv
  OBVIOUS
<1>1. strDialect \in {"openai", "anthropic", "ollama"}
  BY StrAssumption DEF StrInit
<1>2. StrAnswerOK(strAnswer)
  <2>1. PICK n \in 0..StrMaxCalls : strAnswer.parts \in [1..n -> 0..StrMaxParts]
    BY DEF StrInit
  <2>2. StrMaxCalls \in Nat /\ StrMaxParts \in Nat /\ StrMaxText \in Nat
    BY StrAssumption
  <2>3. n \in Nat /\ \A c \in 1..n : strAnswer.parts[c] \in Nat
    BY <2>1, <2>2
  <2>4. strAnswer.parts = [c \in 1..n |-> strAnswer.parts[c]]
    BY <2>1
  <2>5. strAnswer.parts \in Seq(Nat)
    BY <2>3, <2>4
  <2>6. strAnswer.text \in Nat
    BY <2>2 DEF StrInit
  <2> QED BY <2>5, <2>6 DEF StrAnswerOK
<1>3. StrReading(strBuffer, strWire, strSent, strAcc, strResponse, strShown, strDialect,
                 strAnswer)
  <2>1. StrReading(<<>>, <<>>, [text |-> 0, parts |-> <<>>, ended |-> FALSE], <<>>,
                   StrReply(<<>>, <<>>), <<>>, strDialect, strAnswer)
    BY <1>1, <1>2, StrReadingStarts
  <2>2. /\ strBuffer = <<>> /\ strWire = <<>> /\ strAcc = <<>> /\ strShown = <<>>
        /\ strSent = [text |-> 0, parts |-> <<>>, ended |-> FALSE]
        /\ strResponse = StrReply(<<>>, <<>>)
    BY DEF StrInit
  <2> QED BY <2>1, <2>2, Zenon
<1> QED
  BY <1>1, <1>2, <1>3 DEF StrInv, StrInit

\* The first event that is complete, and what is behind it.
LEMMA StrFirstLastIs ==
  ASSUME strBuffer \in Seq(StrPieceSet), StrComplete
  PROVE  /\ StrFirstLast \in 1..Len(strBuffer) /\ strBuffer[StrFirstLast].last
         /\ \A k \in 1..StrFirstLast - 1 : ~strBuffer[k].last
<1> DEFINE S == {i \in 1..Len(strBuffer) : strBuffer[i].last}
<1>1. DOMAIN strBuffer = 1..Len(strBuffer) /\ S \subseteq Nat /\ S # {}
  BY DEF StrComplete
<1>2. Min(S) \in S /\ \A x \in S : Min(S) <= x
  <2> HIDE DEF S
  <2> QED BY <1>1, MinOfNaturals
<1> DEFINE i == Min(S)
<1>3. i \in 1..Len(strBuffer) /\ strBuffer[i].last
  BY <1>2
<1>4. \A k \in 1..i - 1 : ~strBuffer[k].last
  <2> SUFFICES ASSUME NEW k \in 1..i - 1, strBuffer[k].last PROVE FALSE
    OBVIOUS
  <2> HIDE DEF i
  <2>1. k \in 1..Len(strBuffer) /\ ~(i <= k)
    BY <1>3
  <2> QED BY <1>2, <2>1 DEF i
<1> HIDE DEF i
<1>5. \E x \in DOMAIN strBuffer : strBuffer[x].last /\ \A k \in 1..x - 1 : ~strBuffer[k].last
  BY <1>1, <1>3, <1>4
<1> QED
  BY <1>1, <1>5, Zenon DEF StrFirstLast

\* Each step keeps the invariant.
LEMMA StrStepInv ==
  StrInv /\ [StrNext]_strVars => StrInv'
<1> SUFFICES ASSUME StrInv, [StrNext]_strVars PROVE StrInv'
  OBVIOUS
<1>1. strDialect \in {"openai", "anthropic", "ollama"} /\ StrAnswerOK(strAnswer)
  BY DEF StrInv
<1>2. strStatus = "reading" =>
        StrReading(strBuffer, strWire, strSent, strAcc, strResponse, strShown, strDialect,
                   strAnswer)
  BY DEF StrInv
<1>3. ASSUME NEW e \in StrSendable, NEW whole \in BOOLEAN, StrSend(e, whole) PROVE StrInv'
  <2>1. /\ strStatus = "reading" /\ strStatus' = strStatus /\ strDialect' = strDialect
        /\ strAnswer' = strAnswer /\ strBuffer' = strBuffer /\ strAcc' = strAcc
        /\ strResponse' = strResponse /\ strShown' = strShown
        /\ strWire' = strWire \o
             (IF whole THEN <<[event |-> e, last |-> TRUE]>>
              ELSE <<[event |-> e, last |-> FALSE], [event |-> e, last |-> TRUE]>>)
    BY <1>3 DEF StrSend
  <2>2. StrServerOK(strSent, strDialect, strAnswer)
    BY <1>2, <2>1 DEF StrReading
  <2>3. e \in StrEventSet
    BY <1>1, <2>2, StrSendableIs
  <2>4. /\ StrStep(strSent, e, strSent', strDialect, strAnswer)
        /\ StrServerOK(strSent', strDialect, strAnswer)
    BY <1>1, <1>3, <2>2, StrSendSteps
  <2>5. PICK t : t = strSent'
    OBVIOUS
  <2>6. /\ StrReading(strBuffer, strWire \o <<[event |-> e, last |-> TRUE]>>, t, strAcc,
                      strResponse, strShown, strDialect, strAnswer)
        /\ StrReading(strBuffer,
                      strWire \o <<[event |-> e, last |-> FALSE], [event |-> e, last |-> TRUE]>>,
                      t, strAcc, strResponse, strShown, strDialect, strAnswer)
    BY <1>2, <2>1, <2>3, <2>4, <2>5, StrReadingSends
  <2>7. StrReading(strBuffer, strWire', strSent', strAcc, strResponse, strShown, strDialect,
                   strAnswer)
    <3>1. CASE whole
      BY <2>1, <2>5, <2>6, <3>1, Zenon
    <3>2. CASE ~whole
      BY <2>1, <2>5, <2>6, <3>2, Zenon
    <3> QED BY <3>1, <3>2
  <2> QED BY <1>1, <2>1, <2>7 DEF StrInv
<1>4. ASSUME NEW n \in 1..StrWindow + 1, SseFeed(n) PROVE StrInv'
  <2>1. /\ strStatus = "reading" /\ strStatus' = strStatus /\ strDialect' = strDialect
        /\ strAnswer' = strAnswer /\ strAcc' = strAcc /\ strSent' = strSent
        /\ strResponse' = strResponse /\ strShown' = strShown /\ n \in 1..Len(strWire)
        /\ strBuffer' = strBuffer \o SubSeq(strWire, 1, n)
        /\ strWire' = SubSeq(strWire, n + 1, Len(strWire))
    BY <1>4 DEF SseFeed
  <2>2. StrReading(strBuffer \o SubSeq(strWire, 1, n), SubSeq(strWire, n + 1, Len(strWire)),
                   strSent, strAcc, strResponse, strShown, strDialect, strAnswer)
    BY <1>2, <2>1, StrReadingFeeds
  <2>3. StrReading(strBuffer', strWire', strSent, strAcc, strResponse, strShown, strDialect,
                   strAnswer)
    BY <2>1, <2>2, Zenon
  <2> QED BY <1>1, <2>1, <2>3 DEF StrInv
<1>5. CASE StrConsume
  <2>1. /\ strStatus = "reading" /\ StrComplete /\ strDialect' = strDialect
        /\ strAnswer' = strAnswer /\ strSent' = strSent /\ strWire' = strWire
    BY <1>5 DEF StrConsume
  <2>2. StrReading(strBuffer, strWire, strSent, strAcc, strResponse, strShown, strDialect,
                   strAnswer)
    BY <1>2, <2>1
  <2>3. CASE strStop
    BY <1>1, <1>5, <2>1, <2>3 DEF StrConsume, StrInv
  <2>4. CASE ~strStop
    <3> DEFINE i == StrFirstLast
               e == strBuffer[i].event
    <3>1. /\ i \in 1..Len(strBuffer) /\ strBuffer[i].last
          /\ \A k \in 1..i - 1 : ~strBuffer[k].last
      BY <2>1, <2>2, StrFirstLastIs DEF StrReading
    <3>2. /\ strBuffer' = StrRest
          /\ strAcc' = StrHandle(e).acc /\ strResponse' = StrHandle(e).resp
          /\ strShown' = (IF e.kind = "text" THEN Append(strShown, e.arg) ELSE strShown)
          /\ strStatus' = strStatus
      BY <1>5, <2>4 DEF StrConsume
    <3> HIDE DEF i
    <3>3. PICK s, t :
            /\ StrServerOK(s, strDialect, strAnswer) /\ StrServerOK(t, strDialect, strAnswer)
            /\ StrStep(s, strBuffer[i].event, t, strDialect, strAnswer)
            /\ StrClient(s, strAcc, strResponse, strShown, strDialect, strAnswer)
            /\ \A acc2, resp2, shown2 :
                 StrClient(t, acc2, resp2, shown2, strDialect, strAnswer) =>
                   StrReading(SubSeq(strBuffer, i + 1, Len(strBuffer)), strWire, strSent, acc2,
                              resp2, shown2, strDialect, strAnswer)
      BY <2>2, <3>1, StrReadingTakes
    <3> HIDE DEF e
    <3>4. PICK seen : seen = IF e.kind = "text" THEN Append(strShown, e.arg) ELSE strShown
      OBVIOUS
    <3>5. StrStep(s, e, t, strDialect, strAnswer)
      BY <3>3 DEF e
    <3>6. StrClient(t, StrHandle(e).acc, StrHandle(e).resp, seen, strDialect, strAnswer)
      BY <1>1, <3>3, <3>4, <3>5, StrHandleKeeps
    <3>7. StrReading(StrRest, strWire, strSent, StrHandle(e).acc, StrHandle(e).resp, seen,
                     strDialect, strAnswer)
      BY <3>3, <3>6 DEF StrRest, i
    <3>8. StrReading(strBuffer', strWire, strSent, strAcc', strResponse', strShown', strDialect,
                     strAnswer)
      BY <3>2, <3>4, <3>7, Zenon
    <3> QED BY <1>1, <2>1, <3>2, <3>8 DEF StrInv
  <2> QED BY <2>3, <2>4
<1>6. ASSUME NEW ok \in BOOLEAN, StrReturn(ok) PROVE StrInv'
  <2>1. /\ strStatus = "reading" /\ strDialect' = strDialect /\ strAnswer' = strAnswer
        /\ strShown' = strShown /\ strResponse' = strResponse
        /\ strStatus' = (IF ok THEN "ok" ELSE "failed")
        /\ strPath' = strPath /\ strPath = "stream"
    BY <1>6 DEF StrReturn
  <2>2. CASE ok
    <3>1. /\ strSent.ended /\ strWire = <<>> /\ strBuffer = <<>>
          /\ strRequest' = StrNextRequest(strResponse)
      BY <1>6, <2>2 DEF StrReturn
    <3>2. StrReading(<<>>, <<>>, strSent, strAcc, strResponse, strShown, strDialect, strAnswer)
      BY <1>2, <2>1, <3>1
    <3>3. /\ strShown = StrText(strAnswer)
          /\ strDialect # "anthropic" => StrWhole(strResponse, strAnswer)
      BY <1>1, <3>1, <3>2, StrReadingEnds
    <3>4. StrNextRequest(strResponse)' = StrNextRequest(strResponse)
      BY <2>1 DEF StrNextRequest
    <3> QED BY <1>1, <2>1, <2>2, <3>1, <3>3, <3>4 DEF StrInv
  <2>3. CASE ~ok
    BY <1>1, <2>1, <2>3 DEF StrInv
  <2> QED BY <2>2, <2>3
<1>7. ASSUME NEW ok \in BOOLEAN, StrChat(ok) PROVE StrInv'
  <2>1. /\ strStatus = "reading" /\ strDialect' = strDialect /\ strAnswer' = strAnswer
        /\ strStatus' = (IF ok THEN "ok" ELSE "failed")
        /\ strPath' = strPath /\ strPath # "stream"
    BY <1>7 DEF StrChat
  <2>2. CASE ok
    <3>1. /\ strResponse' = StrParse(strAnswer)
          /\ strShown' = (IF strPath = "simulated" THEN StrText(strAnswer) ELSE <<>>)
          /\ strRequest' = StrNextRequest(StrParse(strAnswer))
      BY <1>7, <2>2 DEF StrChat
    <3>2. StrWhole(StrParse(strAnswer), strAnswer)
      BY <1>1, StrParseIsWhole
    <3>3. StrWhole(strResponse', strAnswer')
      BY <2>1, <3>1, <3>2, Zenon
    <3>4. StrNextRequest(strResponse)' = StrNextRequest(StrParse(strAnswer))
      BY <2>1, <3>1 DEF StrNextRequest
    <3>5. strPath' = "stream" \/ strPath' = "simulated" => strShown' = StrText(strAnswer')
      BY <2>1, <3>1
    <3> QED BY <1>1, <2>1, <2>2, <3>1, <3>3, <3>4, <3>5 DEF StrInv
  <2>3. CASE ~ok
    BY <1>1, <2>1, <2>3 DEF StrInv
  <2> QED BY <2>2, <2>3
<1>8. CASE StrInterrupt
  BY <1>8 DEF StrInterrupt, StrInv
<1>9. CASE UNCHANGED strVars
  <2>1. StrNextRequest(strResponse)' = StrNextRequest(strResponse)
    BY <1>9 DEF StrNextRequest, strVars
  <2> QED BY <1>9, <2>1 DEF StrInv, strVars
<1> QED
  BY <1>3, <1>4, <1>5, <1>6, <1>7, <1>8, <1>9 DEF StrNext

\* However the answer is cut and its calls interleaved, the next request says it whole and
\* the user was shown its text once (CallProviderStep over each provider client).
THEOREM AnswersWhole == StrSpec => []AnswersComeBackWhole
<1>1. StrInv /\ strPath \in {"stream", "simulated", "plain"} => AnswersComeBackWhole
  <2> SUFFICES ASSUME StrInv, strPath \in {"stream", "simulated", "plain"}, strStatus = "ok"
               PROVE  /\ (strPath = "stream" => strDialect # "anthropic") => StrSaidWhole
                      /\ strPath # "plain" => strShown = StrText(strAnswer)
    BY DEF AnswersComeBackWhole
  <2>1. strPath # "plain" => strShown = StrText(strAnswer)
    BY DEF StrInv
  <2>2. ASSUME strPath = "stream" => strDialect # "anthropic" PROVE StrSaidWhole
    <3>1. PICK m : m = Len(strAnswer.parts)
      OBVIOUS
    <3>2. m \in Nat /\ DOMAIN strAnswer.parts = 1..m
      BY <3>1 DEF StrInv, StrAnswerOK
    <3>3. /\ strDialect \in {"openai", "anthropic", "ollama"}
          /\ StrWhole(strResponse, strAnswer) /\ strRequest = StrNextRequest(strResponse)
      BY <2>2 DEF StrInv
    <3> QED BY <3>1, <3>2, <3>3, StrWholeIsSaid
  <2> QED BY <2>1, <2>2
<1>2. StrInit => strPath \in {"stream", "simulated", "plain"}
  BY DEF StrInit
<1>3. [StrNext]_strVars => strPath' = strPath
  BY DEF StrNext, strVars, StrSend, SseFeed, StrConsume, StrReturn, StrChat, StrInterrupt
<1>4. /\ strPath \in {"stream", "simulated", "plain"} /\ [StrNext]_strVars
         => (strPath \in {"stream", "simulated", "plain"})'
  BY <1>3
<1> QED
  BY StrInitInv, StrStepInv, <1>1, <1>2, <1>4, PTL DEF StrSpec

-----------------------------------------------------------------------------
(* The types of an answer in pieces and of the budget *)

\* What is sent is a part of the answer, and what is under way are pieces of it.
StrTyped ==
  /\ strDialect \in {"openai", "anthropic", "ollama"} /\ StrAnswerOK(strAnswer)
  /\ StrServerOK(strSent, strDialect, strAnswer) /\ strSent.text <= strAnswer.text
  /\ strWire \in Seq(StrPieceSet) /\ StrTypeOK

\* The start has its types.
LEMMA StrInitTyped == StrInit => StrTyped
<1> SUFFICES ASSUME StrInit PROVE StrTyped
  OBVIOUS
<1>1. strDialect \in {"openai", "anthropic", "ollama"} /\ StrAnswerOK(strAnswer)
  BY StrInitInv DEF StrInv
<1>2. strAnswer.text \in Nat /\ strAnswer.parts \in Seq(Nat) /\ StrWindow \in Nat
  BY <1>1, StrAssumption DEF StrAnswerOK
<1>3. /\ strSent.text = 0 /\ strSent.parts = <<>> /\ strSent.ended = FALSE
      /\ DOMAIN strSent = {"text", "parts", "ended"} /\ strWire = <<>>
  BY DEF StrInit
<1>4. /\ strSent.parts \in Seq(Nat) /\ Len(strSent.parts) = 0 /\ Len(strAnswer.parts) \in Nat
      /\ strWire \in Seq(StrPieceSet) /\ Len(strWire) = 0
  BY <1>2, <1>3
<1>5. StrServerOK(strSent, strDialect, strAnswer)
  <2>1. \A c \in 1..Len(strSent.parts) : strSent.parts[c] = strAnswer.parts[c]
    BY <1>4
  <2>2. strSent.text \in Nat /\ Len(strSent.parts) <= Len(strAnswer.parts)
    BY <1>3, <1>4
  <2>3. strSent.ended \in BOOLEAN /\ ~strSent.ended
    BY <1>3, Zenon
  <2> QED BY <1>3, <1>4, <2>1, <2>2, <2>3, Zenon DEF StrServerOK
<1>6. StrTypeOK
  <2>1. strSent.text \in 0..strAnswer.text /\ Len(strSent.parts) <= Len(strAnswer.parts)
    BY <1>2, <1>3, <1>4
  <2>2. Len(strWire) <= StrWindow + 1
    BY <1>2, <1>4
  <2>3. strSent.ended \in BOOLEAN
    BY <1>3, Zenon
  <2> QED BY <2>1, <2>2, <2>3, Zenon DEF StrTypeOK, StrInit
<1> QED
  BY <1>1, <1>2, <1>3, <1>4, <1>5, <1>6 DEF StrTyped

\* The client writes neither the answer nor what was sent of it.
StrClientSteps ==
  \/ \E n \in 1..StrWindow + 1 : SseFeed(n)
  \/ StrConsume
  \/ \E ok \in BOOLEAN : StrReturn(ok)
  \/ \E ok \in BOOLEAN : StrChat(ok)
  \/ StrInterrupt
  \/ UNCHANGED strVars

\* The steps of the client.
LEMMA StrClientTyped ==
  ASSUME StrTyped, StrClientSteps
  PROVE  StrTyped'
<1>1. /\ strDialect' = strDialect /\ strPath' = strPath /\ strAnswer' = strAnswer
      /\ strSent' = strSent
  BY DEF StrClientSteps, SseFeed, StrConsume, StrReturn, StrChat, StrInterrupt, strVars
<1>2. strWire \in Seq(StrPieceSet) /\ Len(strWire) <= StrWindow + 1 /\ StrWindow \in Nat
  BY StrAssumption DEF StrTyped, StrTypeOK
<1>3. strWire' \in Seq(StrPieceSet) /\ Len(strWire') <= StrWindow + 1
  <2>1. CASE strWire' = strWire
    BY <1>2, <2>1
  <2>2. ASSUME NEW n \in 1..StrWindow + 1, SseFeed(n)
        PROVE  strWire' \in Seq(StrPieceSet) /\ Len(strWire') <= StrWindow + 1
    <3>1. n \in 1..Len(strWire) /\ strWire' = SubSeq(strWire, n + 1, Len(strWire))
      BY <2>2 DEF SseFeed
    <3>2. /\ SubSeq(strWire, n + 1, Len(strWire)) \in Seq(StrPieceSet)
          /\ Len(SubSeq(strWire, n + 1, Len(strWire))) = Len(strWire) - n
      BY <1>2, <3>1
    <3> QED BY <1>2, <3>1, <3>2
  <2> QED
    BY <2>1, <2>2
    DEF StrClientSteps, StrConsume, StrReturn, StrChat, StrInterrupt, strVars
<1>4. strStatus' \in {"reading", "ok", "failed", "interrupted"} /\ strStop' \in BOOLEAN
  BY DEF StrTyped, StrTypeOK, StrClientSteps, SseFeed, StrConsume, StrReturn, StrChat,
         StrInterrupt, strVars
<1> QED
  BY <1>1, <1>3, <1>4 DEF StrTyped, StrTypeOK

\* The server sends no more text than the answer has.
LEMMA StrSendTyped ==
  ASSUME StrTyped, NEW e \in StrSendable, NEW whole \in BOOLEAN, StrSend(e, whole)
  PROVE  StrTyped'
<1>1. /\ strDialect \in {"openai", "anthropic", "ollama"} /\ StrAnswerOK(strAnswer)
      /\ StrServerOK(strSent, strDialect, strAnswer) /\ strSent.text <= strAnswer.text
      /\ strWire \in Seq(StrPieceSet) /\ StrTypeOK
  BY DEF StrTyped
<1>2. /\ strDialect' = strDialect /\ strPath' = strPath /\ strAnswer' = strAnswer
      /\ strStatus' = strStatus /\ strStop' = strStop /\ Len(strWire) < StrWindow
      /\ strWire' = strWire \o
           (IF whole THEN <<[event |-> e, last |-> TRUE]>>
            ELSE <<[event |-> e, last |-> FALSE], [event |-> e, last |-> TRUE]>>)
  BY DEF StrSend
<1>3. /\ StrStep(strSent, e, strSent', strDialect, strAnswer)
      /\ StrServerOK(strSent', strDialect, strAnswer)
  BY <1>1, StrSendSteps
<1>4. e \in StrEventSet
  BY <1>1, StrSendableIs
<1>5. strWire' \in Seq(StrPieceSet) /\ Len(strWire') <= StrWindow + 1
  <2>1. StrWindow \in Nat
    BY StrAssumption
  <2>2. /\ [event |-> e, last |-> TRUE] \in StrPieceSet
        /\ [event |-> e, last |-> FALSE] \in StrPieceSet
    BY <1>4 DEF StrPieceSet
  <2>3. PICK more : more = IF whole THEN <<[event |-> e, last |-> TRUE]>>
                           ELSE <<[event |-> e, last |-> FALSE], [event |-> e, last |-> TRUE]>>
    OBVIOUS
  <2>4. more \in Seq(StrPieceSet) /\ Len(more) <= 2
    BY <2>2, <2>3
  <2>5. strWire' = strWire \o more
    BY <1>2, <2>3
  <2>6. strWire \o more \in Seq(StrPieceSet) /\ Len(strWire \o more) = Len(strWire) + Len(more)
    BY <1>1, <2>4
  <2>7. Len(strWire) \in Nat /\ Len(more) \in Nat /\ Len(strWire) < StrWindow
    BY <1>1, <1>2, <2>4
  <2>8. Len(strWire \o more) <= StrWindow + 1
    BY ONLY <2>1, <2>4, <2>6, <2>7
  <2> QED BY <2>5, <2>6, <2>8
<1>6. strSent'.text \in 0..strAnswer.text
  <2>1. strSent.text \in Nat /\ strAnswer.text \in Nat
        /\ DOMAIN strSent = {"text", "parts", "ended"}
    BY <1>1 DEF StrServerOK, StrAnswerOK
  <2>2. CASE e.kind = "text"
    <3>1. strSent.text # strAnswer.text
      BY <2>2 DEF StrSend, StrSendable, StrEvent, StrTextSent
    <3>2. strSent'.text = strSent.text + 1
      BY <2>1, <2>2 DEF StrSend
    <3> QED BY <1>1, <2>1, <3>1, <3>2
  <2>3. CASE e.kind # "text"
    <3>1. strSent'.text = strSent.text
      BY <1>3, <1>4, <2>1, <2>3 DEF StrStep, StrEventSet
    <3> QED BY <1>1, <2>1, <3>1
  <2> QED BY <2>2, <2>3
<1> QED
  BY <1>1, <1>2, <1>3, <1>5, <1>6 DEF StrTyped, StrTypeOK, StrServerOK

\* An answer in pieces has its types: no more is sent than it has, nor under way than the
\* window allows (the provider clients).
LEMMA StrTypesHold == StrSpec => []StrTypeOK
<1>1. StrTyped /\ [StrNext]_strVars => StrTyped'
  BY StrClientTyped, StrSendTyped DEF StrNext, StrClientSteps
<1>2. StrTyped => StrTypeOK
  BY DEF StrTyped
<1> QED
  BY StrInitTyped, <1>1, <1>2, PTL DEF StrSpec

-----------------------------------------------------------------------------
BudSids == BudSessions \cup {""}
BudCallTyped(call) ==
  /\ DOMAIN call = DOMAIN BudIdle
  /\ call.pc = "store" => call.tokens \in BudTokens /\ call.sid \in BudSids
BudTyped ==
  /\ budSession \in Nat /\ budGlobal \in Nat /\ budCalls \in 0..BudMaxCalls
  /\ budSid \in BudSids /\ budConv \in BudSids
  /\ \A r \in budRecords : r.tokens \in BudTokens /\ r.sid \in BudSids
  /\ DOMAIN budCall = BudCallers /\ \A c \in BudCallers : BudCallTyped(budCall[c])

\* A step of a call: the others are as they were.
LEMMA BudCallsTyped ==
  ASSUME BudTyped, NEW c \in BudCallers, NEW call, BudCallTyped(call), BudGo(c, call)
  PROVE  DOMAIN budCall' = BudCallers /\ \A d \in BudCallers : BudCallTyped(budCall'[d])
<1>1. /\ DOMAIN budCall' = BudCallers /\ budCall'[c] = call
      /\ \A d \in BudCallers \ {c} : budCall'[d] = budCall[d]
  BY DEF BudTyped, BudGo
<1> QED
  BY <1>1 DEF BudTyped

\* A caller at rest has its type.
LEMMA BudIdleTyped == BudCallTyped(BudIdle)
BY DEF BudCallTyped, BudIdle

\* A call begins.
LEMMA BudBeginTyped ==
  ASSUME BudTyped, NEW c \in BudCallers, NEW streamed, BudBegin(c, streamed)
  PROVE  BudTyped'
<1> DEFINE call == [BudIdle EXCEPT !.pc = "provider", !.epoch = budEpoch,
                                   !.streamed = streamed, !.id = budCalls + 1]
<1>1. /\ BudGo(c, call) /\ budCalls' = budCalls + 1 /\ budCalls < BudMaxCalls
      /\ UNCHANGED <<budSession, budGlobal, budSid, budConv, budRecords>>
  BY DEF BudBegin, budCounters, budUi
<1>2. BudCallTyped(call)
  BY DEF BudCallTyped, BudIdle
<1> HIDE DEF call
<1>3. DOMAIN budCall' = BudCallers /\ \A d \in BudCallers : BudCallTyped(budCall'[d])
  BY <1>1, <1>2, BudCallsTyped
<1>4. budCalls' \in 0..BudMaxCalls
  BY <1>1, BudAssumption DEF BudTyped
<1> QED
  BY <1>1, <1>3, <1>4 DEF BudTyped

\* The use of a call is counted.
LEMMA BudRecordUsageTyped ==
  ASSUME BudTyped, NEW c \in BudCallers, NEW tokens \in BudTokens, BudRecordUsage(c, tokens)
  PROVE  BudTyped'
<1>1. PICK call : call = IF budStore
                         THEN [budCall[c] EXCEPT !.pc = "store", !.tokens = tokens,
                                                 !.sid = budSid]
                         ELSE BudIdle
  OBVIOUS
<1>2. /\ BudGo(c, call) /\ budSession' = budSession + tokens /\ budGlobal' = budGlobal + tokens
      /\ UNCHANGED <<budCalls, budSid, budConv, budRecords>>
  BY <1>1 DEF BudRecordUsage, budUi
<1>3. BudCallTyped(call)
  <2>1. DOMAIN budCall[c] = DOMAIN BudIdle /\ budSid \in BudSids
    BY DEF BudTyped, BudCallTyped
  <2> QED BY <1>1, <2>1, BudIdleTyped DEF BudCallTyped, BudIdle
<1>4. DOMAIN budCall' = BudCallers /\ \A d \in BudCallers : BudCallTyped(budCall'[d])
  BY <1>2, <1>3, BudCallsTyped
<1>5. budSession' \in Nat /\ budGlobal' \in Nat
  BY <1>2, BudAssumption DEF BudTyped
<1> QED
  BY <1>2, <1>4, <1>5 DEF BudTyped

\* A call ends, stored or not.
LEMMA BudEndsTyped ==
  ASSUME BudTyped, NEW c \in BudCallers,
         BudUncounted(c) \/ \E stored \in BOOLEAN : BudStoreRecord(c, stored)
  PROVE  BudTyped'
<1>1. /\ BudGo(c, BudIdle)
      /\ UNCHANGED <<budSession, budGlobal, budCalls, budSid, budConv>>
  BY DEF BudUncounted, BudStoreRecord, budCounters, budUi
<1>2. DOMAIN budCall' = BudCallers /\ \A d \in BudCallers : BudCallTyped(budCall'[d])
  BY <1>1, BudIdleTyped, BudCallsTyped
<1>3. \A r \in budRecords' : r.tokens \in BudTokens /\ r.sid \in BudSids
  BY DEF BudUncounted, BudStoreRecord, UsageRecord, BudTyped, BudCallTyped
<1> QED
  BY <1>1, <1>2, <1>3 DEF BudTyped

\* Usage has its types: sums are numbers, and records are of sessions (BudgetTracker).
LEMMA BudTypesHold == BudSpec => []BudTypeOK
<1>1. BudInit => BudTyped
  <2> SUFFICES ASSUME BudInit PROVE BudTyped
    OBVIOUS
  <2>1. budSession = 0 /\ budGlobal = 0 /\ budCalls = 0 /\ budSid = "" /\ budConv = ""
    BY DEF BudInit
  <2>2. budRecords = {} /\ budCall = [c \in BudCallers |-> BudIdle]
    BY DEF BudInit
  <2>3. 0 \in 0..BudMaxCalls
    BY BudAssumption
  <2> QED BY <2>1, <2>2, <2>3, BudIdleTyped DEF BudTyped, BudSids
<1>2. BudTyped /\ [BudNext]_budVars => BudTyped'
  <2> SUFFICES ASSUME BudTyped, [BudNext]_budVars PROVE BudTyped'
    OBVIOUS
  <2>1. CASE UNCHANGED budVars
    BY <2>1 DEF budVars, BudTyped
  <2>2. CASE \E conv \in BudSessions : BudRunStarts(conv) \/ BudResumeSession(conv)
    <3>1. UNCHANGED <<budSession, budGlobal, budCalls, budSid, budRecords, budCall>>
      BY <2>2 DEF BudRunStarts, BudResumeSession, budCounters
    <3>2. budConv' \in BudSids
      BY <2>2 DEF BudRunStarts, BudResumeSession, BudTyped, BudSids
    <3> QED BY <3>1, <3>2 DEF BudTyped
  <2>3. CASE BudRunReturns
    <3>1. UNCHANGED <<budSession, budGlobal, budCalls, budConv, budRecords, budCall>>
      BY <2>3 DEF BudRunReturns, budCounters
    <3>2. budSid' \in BudSids
      BY <2>3 DEF BudRunReturns, BudTyped
    <3> QED BY <3>1, <3>2 DEF BudTyped
  <2>4. CASE BudNewSession
    <3>1. /\ budSession' = 0 /\ budSid' = "" /\ budConv' = ""
          /\ UNCHANGED <<budGlobal, budCalls, budRecords, budCall>>
      BY <2>4 DEF BudNewSession
    <3> QED BY <3>1 DEF BudTyped, BudSids
  <2> QED
    BY <2>1, <2>2, <2>3, <2>4, BudBeginTyped, BudRecordUsageTyped, BudEndsTyped
    DEF BudNext, BudChat, BudStreamChat
<1>3. BudTyped => BudTypeOK
  BY DEF BudTyped, BudTypeOK, BudSids
<1> QED
  BY <1>1, <1>2, <1>3, PTL DEF BudSpec

-----------------------------------------------------------------------------
(* The layers of a model call: what is asked again follows from the reply *)

StkEntry == [who : Nat, model : {"", "caller", "rule"}, reply : StkReplies]
StkAgain == {"429", "500", "error500"}
StkBound == (StkRetries + 1) * (StkHttpRetries + 1)

StkTypes ==
  /\ stkLog \in Seq(StkEntry)
  /\ stkWho \in Nat /\ stkTry \in 0..StkRetries /\ stkHttpTry \in 0..StkHttpRetries
  /\ stkDialect \in {"openai", "anthropic", "ollama"} /\ stkMode \in {"chat", "stream", "models"}
  /\ stkModel \in {"", "caller", "rule"}
  /\ stkPhase \in {"route", "post", "returned", "fallback", "done"}

\* The first requests of the call, as far as n: none was answered, and those of the
\* provider now called were worth another.
StkGoneOn(n) ==
  \A i \in 1..n :
    /\ stkLog[i].reply # "answer"
    /\ stkLog[i].who = stkWho => stkLog[i].reply \in StkAgain /\ stkMode # "stream"

StkSent ==
  /\ \A i \in 1..Len(stkLog) : stkLog[i].who <= stkWho /\ stkLog[i].model = stkModel
  /\ \A i, j \in 1..Len(stkLog) : i < j =>
       /\ stkLog[i].reply # "answer" /\ stkLog[i].who <= stkLog[j].who
       /\ stkLog[i].who = stkLog[j].who => stkLog[i].reply \in StkAgain /\ stkMode # "stream"

\* How many there were.
StkCounted ==
  /\ \A i \in 1..Len(stkLog) : stkLog[i].who = 0 => i <= StkBound
  /\ \A i, j \in 1..Len(stkLog) :
       stkLog[i].who = stkLog[j].who /\ stkLog[i].who # 0 => j - i <= StkHttpRetries
  /\ stkPhase = "post" /\ stkWho = 0 =>
       Len(stkLog) <= stkTry * (StkHttpRetries + 1) + stkHttpTry
  /\ stkPhase = "returned" /\ stkWho = 0 =>
       Len(stkLog) <= (stkTry + 1) * (StkHttpRetries + 1) /\ stkHttpTry = 0
  /\ stkPhase = "post" /\ stkWho # 0 =>
       \A i \in 1..Len(stkLog) : stkLog[i].who = stkWho => Len(stkLog) - i < stkHttpTry
  /\ stkPhase \in {"returned", "fallback"} => stkHttpTry = 0

\* What a result says of the last reply.
StkTells(result) ==
  LET reply == stkLog[Len(stkLog)].reply
  IN /\ Len(stkLog) > 0
     /\ result.code \in {"ok", "RateLimit", "NetworkError", "ParseError"}
     /\ result.code = "ok" <=> reply = "answer"
     /\ result.code = "RateLimit" => reply \in {"429", "500"}
     /\ result.code = "NetworkError" /\ result.status \in 500..599 => reply = "error500"

StkPhased ==
  /\ stkPhase = "route" => stkLog = <<>> /\ stkWho = 0 /\ stkTry = 0 /\ stkHttpTry = 0
  /\ stkPhase = "post" => StkGoneOn(Len(stkLog)) /\ (stkMode = "stream" => stkLog = <<>>)
  /\ stkPhase \in {"returned", "fallback"} /\ stkMode = "chat" => StkTells(stkResult)
  /\ stkWho # 0 => stkMode = "chat" /\ WorthFallback(stkPrimary)
  /\ stkPhase = "fallback" => stkMode = "chat" /\ stkPrimary = stkResult /\ stkWho = 0
  /\ stkPhase = "done" /\ stkLog # <<>> =>
       /\ stkMode = "chat" => (stkResult.code = "ok" <=> stkLog[Len(stkLog)].reply = "answer")
       /\ stkResult.code # "ok" => stkResult = stkPrimary

StkInv == StkTypes /\ StkSent /\ StkCounted /\ StkPhased

LEMMA StkInvFollows == StkInv => RequestsFollowReplies
<1> SUFFICES ASSUME StkInv PROVE RequestsFollowReplies
  OBVIOUS
<1>1. DOMAIN stkLog = 1..Len(stkLog)
  BY LenProperties DEF StkInv, StkTypes
<1>2. \A i, j \in DOMAIN stkLog : i < j =>
        /\ stkLog[i].reply # "answer" /\ stkLog[i].who <= stkLog[j].who
        /\ stkLog[i].who = stkLog[j].who =>
             /\ stkLog[i].reply \in {"429", "500", "error500"}
             /\ stkMode # "stream" /\ stkLog[i].model = stkLog[j].model
  BY <1>1 DEF StkInv, StkSent, StkAgain
<1>3. stkMode = "chat" /\ stkPhase = "done" /\ stkLog # <<>> =>
        (stkResult.code = "ok" <=> stkLog[Len(stkLog)].reply = "answer")
  BY DEF StkInv, StkPhased
<1>4. stkPhase = "done" /\ stkLog # <<>> /\ stkResult.code # "ok" => stkResult = stkPrimary
  BY DEF StkInv, StkPhased
<1>5. \A i \in StkSentTo(0) : i <= (StkRetries + 1) * (StkHttpRetries + 1)
  BY <1>1 DEF StkInv, StkCounted, StkSentTo, StkBound
<1>6. \A who \in 1..StkFallbacks : \A i, j \in StkSentTo(who) : j - i <= StkHttpRetries
  <2> SUFFICES ASSUME NEW who \in 1..StkFallbacks, NEW i \in StkSentTo(who),
                      NEW j \in StkSentTo(who)
               PROVE  j - i <= StkHttpRetries
    OBVIOUS
  <2>1. who # 0 /\ i \in 1..Len(stkLog) /\ j \in 1..Len(stkLog)
        /\ stkLog[i].who = who /\ stkLog[j].who = who
    BY <1>1, StkAssumption DEF StkSentTo
  <2> QED BY <2>1 DEF StkInv, StkCounted
<1> QED
  BY <1>2, <1>3, <1>4, <1>5, <1>6 DEF RequestsFollowReplies

LEMMA StkInitHolds == StkInit => StkInv
<1> SUFFICES ASSUME StkInit PROVE StkInv
  OBVIOUS
<1>1. /\ stkLog = <<>> /\ stkWho = 0 /\ stkTry = 0 /\ stkHttpTry = 0 /\ stkPhase = "route"
      /\ stkDialect \in {"openai", "anthropic", "ollama"}
      /\ stkMode \in {"chat", "stream", "models"} /\ stkModel \in {"", "caller"}
  BY StkAssumption DEF StkInit
<1>2. Len(stkLog) = 0 /\ stkLog \in Seq(StkEntry) /\ \A i : i \notin 1..Len(stkLog)
  <2>1. stkLog \in Seq(StkEntry)
    BY <1>1, EmptySeq, Zenon
  <2>2. Len(stkLog) = 0
    BY <1>1
  <2> QED BY <2>1, <2>2
<1>3. StkTypes
  <2>1. 0 \in 0..StkRetries /\ 0 \in 0..StkHttpRetries /\ 0 \in Nat
    BY StkAssumption
  <2>2. stkModel \in {"", "caller", "rule"}
        /\ stkPhase \in {"route", "post", "returned", "fallback", "done"}
    BY <1>1
  <2> QED BY <1>1, <1>2, <2>1, <2>2, Zenon DEF StkTypes
<1>4. StkSent /\ StkCounted
  BY <1>1, <1>2, Zenon DEF StkSent, StkCounted
<1>6. StkPhased
  BY <1>1 DEF StkPhased
<1> QED
  BY <1>3, <1>4, <1>6 DEF StkInv

\* What a client makes of a reply.
LEMMA StkChatTells ==
  ASSUME NEW reply \in StkReplies, ~ShouldRetry(reply), stkMode = "chat",
         stkDialect \in {"openai", "anthropic", "ollama"}
  PROVE  LET result == StkChatResult(reply)
         IN /\ result.code \in {"ok", "NetworkError", "ParseError"}
            /\ result.code = "ok" <=> reply = "answer"
            /\ result.code = "NetworkError" /\ result.status \in 500..599 =>
                 reply = "error500"
<1>1. reply \in {"none", "404", "answer", "error", "error500", "garbage"}
  BY DEF StkReplies, ShouldRetry
<1>2. /\ Ok.code = "ok"
      /\ \A code, status : Failure(code, status).code = code
                           /\ Failure(code, status).status = status
  BY DEF Ok, Failure
<1>3. ~(0 \in 500..599) /\ ~(400 \in 500..599) /\ ~(404 \in 500..599)
  OBVIOUS
<1>4. CASE stkDialect = "openai"
  <2>1. StkChatResult(reply) = OpenAIChat(reply)
    BY <1>4 DEF StkChatResult
  <2>2. \/ reply = "answer" /\ OpenAIChat(reply) = Ok
        \/ reply # "answer" /\ OpenAIChat(reply) = Failure("ParseError", 0)
        \/ reply # "answer" /\ OpenAIChat(reply) = Failure("NetworkError", 0)
    BY <1>1 DEF OpenAIChat
  <2> QED BY <1>2, <1>3, <2>1, <2>2
<1>5. CASE stkDialect = "anthropic"
  <2>1. StkChatResult(reply) = AnthropicChat(reply)
    BY <1>5 DEF StkChatResult
  <2>2. \/ reply = "answer" /\ AnthropicChat(reply) = Ok
        \/ reply # "answer" /\ AnthropicChat(reply) = Failure("ParseError", 0)
        \/ reply # "answer" /\ AnthropicChat(reply) = Failure("NetworkError", 400)
        \/ reply = "error500" /\ AnthropicChat(reply) = Failure("NetworkError", 500)
        \/ reply # "answer" /\ AnthropicChat(reply) = Failure("NetworkError", 404)
        \/ reply # "answer" /\ AnthropicChat(reply) = Failure("NetworkError", 0)
    BY <1>1 DEF AnthropicChat
  <2> QED BY <1>2, <1>3, <2>1, <2>2
<1>6. CASE stkDialect = "ollama"
  <2>1. StkChatResult(reply) = OllamaChat(reply)
    BY <1>6 DEF StkChatResult
  <2>2. \/ reply = "answer" /\ OllamaChat(reply) = Ok
        \/ reply # "answer" /\ OllamaChat(reply) = Failure("ParseError", 0)
        \/ reply # "answer" /\ OllamaChat(reply) = Failure("NetworkError", 0)
    BY <1>1 DEF OllamaChat
  <2> QED BY <1>2, <1>3, <2>1, <2>2
<1> QED
  BY <1>4, <1>5, <1>6

LEMMA StkRouteKeeps ==
  ASSUME StkInv, NEW ruleModel \in StkRuleModels, Route(ruleModel)
  PROVE  StkInv'
<1>1. /\ stkPhase = "route" /\ stkPhase' \in {"done", "post"}
      /\ stkModel' \in {"", "caller", "rule"}
      /\ UNCHANGED <<stkDialect, stkMode, stkWho, stkTry, stkHttpTry, stkLog>>
  BY DEF Route, StkRuleModels, StkInv, StkTypes
<1>2. stkLog = <<>> /\ stkWho = 0 /\ stkTry = 0 /\ stkHttpTry = 0
  BY <1>1 DEF StkInv, StkPhased
<1>3. stkLog' = <<>> /\ Len(stkLog') = 0 /\ \A i : i \notin 1..Len(stkLog')
  <2>1. stkLog' = <<>>
    BY <1>1, <1>2
  <2>2. Len(stkLog') = 0
    BY <2>1
  <2> QED BY <2>1, <2>2
<1>4. StkTypes'
  BY <1>1 DEF StkInv, StkTypes
<1>5. StkSent'
  BY <1>3 DEF StkSent
<1>6. StkCounted'
  <2>1. 0 * (StkHttpRetries + 1) = 0
    BY StkAssumption
  <2>2. stkTry' = 0 /\ stkHttpTry' = 0 /\ stkWho' = 0
    BY <1>1, <1>2
  <2>3. stkTry' * (StkHttpRetries + 1) + stkHttpTry' = 0
    BY <2>1, <2>2
  <2>4. Len(stkLog') <= stkTry' * (StkHttpRetries + 1) + stkHttpTry'
    BY <1>3, <2>3
  <2> QED BY <1>1, <1>3, <2>2, <2>4, Zenon DEF StkCounted
<1>7. StkPhased'
  BY <1>1, <1>2, <1>3 DEF StkPhased, StkGoneOn
<1> QED
  BY <1>4, <1>5, <1>6, <1>7 DEF StkInv

\* Products that the bounds need.
LEMMA StkTimes ==
  ASSUME NEW t \in 0..StkRetries
  PROVE  /\ t * (StkHttpRetries + 1) \in Nat /\ StkBound \in Nat
         /\ (t + 1) * (StkHttpRetries + 1) = t * (StkHttpRetries + 1) + StkHttpRetries + 1
         /\ (t + 1) * (StkHttpRetries + 1) <= StkBound
<1> DEFINE k == StkHttpRetries + 1
<1>1. k \in Nat /\ t \in Nat /\ StkRetries \in Nat /\ t + 1 <= StkRetries + 1
  BY StkAssumption
<1> HIDE DEF k
<1>2. /\ t * k \in Nat /\ (StkRetries + 1) * k \in Nat
      /\ (t + 1) * k = t * k + k
  BY ONLY <1>1
<1>3. (t + 1) * k <= (StkRetries + 1) * k
  <2>1. (StkRetries - t) \in Nat
    BY <1>1
  <2>2. (StkRetries - t) * k \in Nat
    BY ONLY <1>1, <2>1
  <2>3. (StkRetries + 1) * k = (t + 1) * k + (StkRetries - t) * k
    BY ONLY <1>1
  <2>4. (t + 1) * k \in Nat
    BY ONLY <1>1
  <2> QED BY ONLY <2>2, <2>3, <2>4
<1>4. t * k + k = t * k + StkHttpRetries + 1
  BY ONLY <1>1, <1>2, StkAssumption DEF k
<1> QED
  BY <1>2, <1>3, <1>4 DEF k, StkBound

\* What a request does, whatever it brings.
LEMMA StkRequestOutcomes ==
  ASSUME StkInv, NEW reply \in StkReplies, Request(reply)
  PROVE  \/ /\ ShouldRetry(reply) /\ stkMode # "stream" /\ stkHttpTry < StkHttpRetries
            /\ stkHttpTry' = stkHttpTry + 1 /\ stkPhase' = "post"
         \/ /\ stkHttpTry' = 0 /\ stkPhase' = "returned"
            /\ stkMode = "chat" =>
                 /\ stkResult'.code \in {"ok", "RateLimit", "NetworkError", "ParseError"}
                 /\ stkResult'.code = "ok" <=> reply = "answer"
                 /\ stkResult'.code = "RateLimit" => reply \in {"429", "500"}
                 /\ stkResult'.code = "NetworkError" /\ stkResult'.status \in 500..599 =>
                      reply = "error500"
<1>1. /\ stkPhase = "post" /\ stkMode \in {"chat", "models", "stream"}
      /\ stkDialect \in {"openai", "anthropic", "ollama"}
  BY DEF Request, StkInv, StkTypes
<1>2. CASE stkMode = "stream"
  <2>1. StreamPost(reply)
    BY <1>2 DEF Request
  <2> QED BY <1>2, <2>1 DEF StreamPost, StkReturned
<1>3. CASE stkMode # "stream"
  <2>1. HttpPost(reply)
    BY <1>1, <1>3 DEF Request, HttpGet
  <2>2. CASE ShouldRetry(reply) /\ stkHttpTry < StkHttpRetries
    BY <1>1, <1>3, <2>1, <2>2 DEF HttpPost
  <2>3. CASE ShouldRetry(reply) /\ ~(stkHttpTry < StkHttpRetries)
    <3>1. reply \in {"429", "500"}
      BY <2>3 DEF ShouldRetry
    <3>2. CASE stkMode = "models"
      BY <2>1, <2>3, <3>2 DEF HttpPost, StkReturned
    <3>3. CASE stkMode = "chat"
      <4>1. stkPhase' = "returned" /\ stkHttpTry' = 0 /\ stkResult' = Failure("RateLimit", 0)
        BY <2>1, <2>3, <3>3 DEF HttpPost, StkReturned
      <4>2. stkResult'.code = "RateLimit"
        BY <4>1 DEF Failure
      <4> QED BY <3>1, <3>3, <4>1, <4>2
    <3> QED BY <1>1, <1>3, <3>2, <3>3
  <2>4. CASE ~ShouldRetry(reply)
    <3>1. /\ stkPhase' = "returned" /\ stkHttpTry' = 0
          /\ stkResult' = StkChatResult(reply)
      BY <2>1, <2>4 DEF HttpPost, StkReturned
    <3>2. CASE stkMode = "models"
      BY <3>1, <3>2
    <3>3. CASE stkMode = "chat"
      <4> DEFINE result == StkChatResult(reply)
      <4>1. /\ result.code \in {"ok", "NetworkError", "ParseError"}
            /\ result.code = "ok" <=> reply = "answer"
            /\ result.code = "NetworkError" /\ result.status \in 500..599 =>
                 reply = "error500"
        BY <1>1, <2>4, <3>3, StkChatTells
      <4> HIDE DEF result
      <4>2. stkResult' = result
        BY <3>1 DEF result
      <4> QED BY <3>1, <4>1, <4>2
    <3> QED BY <1>1, <1>3, <3>2, <3>3
  <2> QED BY <2>2, <2>3, <2>4
<1> QED
  BY <1>2, <1>3

LEMMA StkRequestKeeps ==
  ASSUME StkInv, NEW reply \in StkReplies, Request(reply)
  PROVE  StkInv'
<1> DEFINE entry == [who |-> stkWho, model |-> stkModel, reply |-> reply]
           n == Len(stkLog)
<1>1. /\ stkPhase = "post" /\ stkLog' = Append(stkLog, entry)
      /\ UNCHANGED <<stkDialect, stkMode, stkHint, stkModel, stkWho, stkTry, stkPrimary>>
  BY DEF Request
<1>2. entry \in StkEntry /\ entry.who = stkWho /\ entry.model = stkModel
      /\ entry.reply = reply
  BY DEF StkInv, StkTypes, StkEntry
<1> HIDE DEF entry
<1>3. /\ stkLog \in Seq(StkEntry) /\ stkWho \in Nat /\ stkTry \in 0..StkRetries
      /\ stkHttpTry \in 0..StkHttpRetries /\ StkHttpRetries \in Nat
  BY StkAssumption DEF StkInv, StkTypes
<1>4. /\ n \in Nat /\ stkLog' \in Seq(StkEntry) /\ Len(stkLog') = n + 1
      /\ stkLog'[n + 1] = entry /\ \A i \in 1..n : stkLog'[i] = stkLog[i]
  BY <1>1, <1>2, <1>3, AppendProperties, LenProperties
<1> HIDE DEF n
<1>5. \A i \in 1..(n + 1) : i \in 1..n \/ i = n + 1
  BY <1>4
<1>6. \A i \in 1..n : stkLog[i].who \in Nat
  <2>1. \A i \in 1..n : stkLog[i] \in StkEntry
    BY <1>3, ElementOfSeq DEF n
  <2> QED BY <2>1 DEF StkEntry
<1>7. /\ StkGoneOn(n)
      /\ \A i \in 1..n : stkLog[i].who <= stkWho /\ stkLog[i].model = stkModel
      /\ \A i, j \in 1..n : i < j =>
           /\ stkLog[i].reply # "answer" /\ stkLog[i].who <= stkLog[j].who
           /\ stkLog[i].who = stkLog[j].who => stkLog[i].reply \in StkAgain /\ stkMode # "stream"
  BY <1>1 DEF StkInv, StkSent, StkPhased, n
<1>8. \/ /\ ShouldRetry(reply) /\ stkMode # "stream" /\ stkHttpTry < StkHttpRetries
         /\ stkHttpTry' = stkHttpTry + 1 /\ stkPhase' = "post"
      \/ stkHttpTry' = 0 /\ stkPhase' = "returned"
  BY StkRequestOutcomes
<1>9. StkTypes'
  <2>1. stkHttpTry' \in 0..StkHttpRetries
    BY <1>3, <1>8
  <2>2. stkPhase' \in {"route", "post", "returned", "fallback", "done"}
    BY <1>8
  <2> QED BY <1>1, <1>4, <2>1, <2>2 DEF StkInv, StkTypes
<1>10. StkSent'
  <2>1. ASSUME NEW i \in 1..(n + 1)
        PROVE  stkLog'[i].who <= stkWho /\ stkLog'[i].model = stkModel
    <3>1. CASE i \in 1..n
      BY <1>4, <1>7, <3>1
    <3>2. CASE i = n + 1
      BY <1>2, <1>3, <1>4, <3>2
    <3> QED BY <1>5, <3>1, <3>2
  <2>2. ASSUME NEW i \in 1..(n + 1), NEW j \in 1..(n + 1), i < j
        PROVE  /\ stkLog'[i].reply # "answer" /\ stkLog'[i].who <= stkLog'[j].who
               /\ stkLog'[i].who = stkLog'[j].who =>
                    stkLog'[i].reply \in StkAgain /\ stkMode # "stream"
    <3>1. i \in 1..n /\ stkLog'[i] = stkLog[i]
      BY <1>4, <2>2
    <3>2. CASE j \in 1..n
      BY <1>4, <1>7, <2>2, <3>1, <3>2
    <3>3. CASE j = n + 1
      BY <1>2, <1>4, <1>7, <3>1, <3>3 DEF StkGoneOn
    <3> QED BY <1>5, <3>2, <3>3
  <2> QED BY <1>1, <1>4, <2>1, <2>2 DEF StkSent
<1>11. StkCounted'
  <2> DEFINE product == stkTry * (StkHttpRetries + 1)
             next == (stkTry + 1) * (StkHttpRetries + 1)
  <2>1. /\ product \in Nat /\ StkBound \in Nat /\ next = product + StkHttpRetries + 1
        /\ next <= StkBound
    BY <1>3, StkTimes
  <2>2. stkWho = 0 => n <= product + stkHttpTry
    BY <1>1 DEF StkInv, StkCounted, n
  <2>3. /\ \A i \in 1..n : stkLog[i].who = 0 => i <= StkBound
        /\ \A i, j \in 1..n :
             stkLog[i].who = stkLog[j].who /\ stkLog[i].who # 0 => j - i <= StkHttpRetries
        /\ stkWho # 0 => \A i \in 1..n : stkLog[i].who = stkWho => n - i < stkHttpTry
    BY <1>1 DEF StkInv, StkCounted, n
  <2> HIDE DEF product, next
  <2>4. stkWho = 0 => n + 1 <= next /\ n + 1 <= StkBound /\ n + 1 <= product + (stkHttpTry + 1)
    BY <1>3, <1>4, <2>1, <2>2
  <2>5. ASSUME NEW i \in 1..(n + 1), stkLog'[i].who = 0
        PROVE  i <= StkBound
    <3>1. CASE i \in 1..n
      BY <1>4, <2>3, <2>5, <3>1
    <3>2. CASE i = n + 1
      BY <1>2, <1>4, <2>4, <2>5, <3>2
    <3> QED BY <1>5, <3>1, <3>2
  <2>6. ASSUME NEW i \in 1..(n + 1), NEW j \in 1..(n + 1),
               stkLog'[i].who = stkLog'[j].who, stkLog'[i].who # 0
        PROVE  j - i <= StkHttpRetries
    <3>1. CASE i \in 1..n /\ j \in 1..n
      BY <1>4, <2>3, <2>6, <3>1
    <3>2. CASE i = n + 1
      BY <1>3, <1>4, <3>2
    <3>3. CASE i \in 1..n /\ j = n + 1
      <4>1. stkLog[i].who = stkWho /\ stkWho # 0
        BY <1>2, <1>4, <2>6, <3>3
      <4>2. n - i < stkHttpTry
        BY <2>3, <3>3, <4>1
      <4> QED BY <1>3, <1>4, <3>3, <4>2
    <3> QED BY <1>5, <3>1, <3>2, <3>3
  <2>7. ASSUME stkPhase' = "post" PROVE stkHttpTry' = stkHttpTry + 1
    BY <1>8, <2>7
  <2>8. ASSUME stkPhase' = "post", stkWho # 0, NEW i \in 1..(n + 1), stkLog'[i].who = stkWho
        PROVE  (n + 1) - i < stkHttpTry'
    <3>1. CASE i \in 1..n
      <4>1. n - i < stkHttpTry
        BY <1>4, <2>3, <2>8, <3>1
      <4> QED BY <1>3, <1>4, <2>7, <2>8, <3>1, <4>1
    <3>2. CASE i = n + 1
      BY <1>3, <1>4, <2>7, <2>8, <3>2
    <3> QED BY <1>5, <3>1, <3>2
  <2>9. stkPhase' = "post" /\ stkWho = 0 => n + 1 <= product + stkHttpTry'
    BY <2>4, <2>7
  <2>10. stkPhase' \in {"returned", "fallback"} => stkHttpTry' = 0
    BY <1>8
  <2>11. stkWho' = stkWho /\ stkTry' = stkTry
    BY <1>1
  <2>12. /\ stkPhase' = "post" /\ stkWho' = 0 =>
              Len(stkLog') <= stkTry' * (StkHttpRetries + 1) + stkHttpTry'
         /\ stkPhase' = "returned" /\ stkWho' = 0 =>
              Len(stkLog') <= (stkTry' + 1) * (StkHttpRetries + 1) /\ stkHttpTry' = 0
    <3>1. stkTry' * (StkHttpRetries + 1) = product
          /\ (stkTry' + 1) * (StkHttpRetries + 1) = next
      BY <2>11 DEF product, next
    <3> QED BY <1>4, <2>4, <2>9, <2>10, <2>11, <3>1
  <2> QED BY <1>4, <2>5, <2>6, <2>8, <2>10, <2>11, <2>12, Zenon DEF StkCounted
<1>12. StkPhased'
  <2>1. CASE stkPhase' = "post"
    <3>1. ShouldRetry(reply) /\ stkMode # "stream"
      BY <1>8, <2>1
    <3>2. reply \in StkAgain /\ reply # "answer"
      BY <3>1 DEF ShouldRetry, StkAgain
    <3>3. ASSUME NEW i \in 1..(n + 1)
          PROVE  /\ stkLog'[i].reply # "answer"
                 /\ stkLog'[i].who = stkWho => stkLog'[i].reply \in StkAgain /\ stkMode # "stream"
      <4>1. CASE i \in 1..n
        BY <1>4, <1>7, <4>1 DEF StkGoneOn
      <4>2. CASE i = n + 1
        BY <1>2, <1>4, <3>1, <3>2, <4>2
      <4> QED BY <1>5, <4>1, <4>2
    <3>4. StkGoneOn(Len(stkLog))'
      BY <1>1, <1>4, <3>3 DEF StkGoneOn
    <3>5. stkWho' # 0 => stkMode' = "chat" /\ WorthFallback(stkPrimary)'
      BY <1>1 DEF StkInv, StkPhased, WorthFallback, ErrorClass
    <3> QED BY <1>1, <2>1, <3>1, <3>4, <3>5 DEF StkPhased
  <2>2. CASE stkPhase' = "returned"
    <3>1. stkMode' = "chat" => StkTells(stkResult)'
      <4> SUFFICES ASSUME stkMode = "chat" PROVE StkTells(stkResult)'
        BY <1>1
      <4>1. /\ stkResult'.code \in {"ok", "RateLimit", "NetworkError", "ParseError"}
            /\ stkResult'.code = "ok" <=> reply = "answer"
            /\ stkResult'.code = "RateLimit" => reply \in {"429", "500"}
            /\ stkResult'.code = "NetworkError" /\ stkResult'.status \in 500..599 =>
                 reply = "error500"
        BY <2>2, StkRequestOutcomes
      <4>2. stkLog'[Len(stkLog')].reply = reply /\ Len(stkLog') > 0
        BY <1>2, <1>4
      <4> QED BY <4>1, <4>2 DEF StkTells
    <3>2. stkWho' # 0 => stkMode' = "chat" /\ WorthFallback(stkPrimary)'
      BY <1>1 DEF StkInv, StkPhased, WorthFallback, ErrorClass
    <3> QED BY <2>2, <3>1, <3>2 DEF StkPhased
  <2> QED BY <1>8, <2>1, <2>2
<1> QED
  BY <1>9, <1>10, <1>11, <1>12 DEF StkInv

\* The primary has returned: it is asked again, or its result is kept.
LEMMA StkTryKeeps ==
  ASSUME StkInv, TryWithRetries
  PROVE  StkInv'
<1>1. /\ stkPhase = "returned" /\ stkWho = 0 /\ stkMode = "chat"
      /\ UNCHANGED <<stkDialect, stkMode, stkHint, stkModel, stkWho, stkHttpTry, stkResult, stkLog>>
      /\ \/ /\ StkRetried(stkResult)
            /\ stkTry' = stkTry + 1 /\ stkPhase' = "post" /\ stkPrimary' = stkPrimary
         \/ /\ stkPrimary' = stkResult /\ stkPhase' = "fallback" /\ stkTry' = stkTry
  BY DEF TryWithRetries
<1>2. /\ StkTells(stkResult) /\ stkHttpTry = 0
      /\ Len(stkLog) <= (stkTry + 1) * (StkHttpRetries + 1)
  BY <1>1 DEF StkInv, StkPhased, StkCounted
<1>3. Len(stkLog) \in Nat /\ stkTry \in 0..StkRetries /\ StkRetries \in Nat
  BY LenProperties, StkAssumption DEF StkInv, StkTypes
<1>4. StkTypes'
  <2>1. stkTry' \in 0..StkRetries
    BY <1>1, <1>3 DEF StkRetried
  <2>2. stkPhase' \in {"route", "post", "returned", "fallback", "done"}
    BY <1>1
  <2> QED BY <1>1, <2>1, <2>2 DEF StkInv, StkTypes
<1>5. StkSent'
  BY <1>1 DEF StkInv, StkSent
<1>6. StkCounted'
  <2> DEFINE product == stkTry' * (StkHttpRetries + 1)
  <2>1. stkPhase' = "post" => Len(stkLog') <= product + stkHttpTry'
    <3> SUFFICES ASSUME stkPhase' = "post" PROVE Len(stkLog') <= product + stkHttpTry'
      OBVIOUS
    <3>1. stkTry' = stkTry + 1 /\ stkLog' = stkLog /\ stkHttpTry' = 0
      BY <1>1, <1>2
    <3>2. product = (stkTry + 1) * (StkHttpRetries + 1)
      BY <3>1
    <3>3. (stkTry + 1) * (StkHttpRetries + 1) \in Nat
      <4>1. stkTry + 1 \in Nat /\ StkHttpRetries + 1 \in Nat
        BY <1>3, StkAssumption
      <4> QED BY ONLY <4>1
    <3> HIDE DEF product
    <3> QED BY <1>2, <1>3, <3>1, <3>2, <3>3
  <2>2. /\ \A i \in 1..Len(stkLog) : stkLog[i].who = 0 => i <= StkBound
        /\ \A i, j \in 1..Len(stkLog) :
             stkLog[i].who = stkLog[j].who /\ stkLog[i].who # 0 => j - i <= StkHttpRetries
    BY DEF StkInv, StkCounted
  <2>3. stkWho' = 0 /\ stkHttpTry' = 0 /\ stkLog' = stkLog /\ stkPhase' \in {"post", "fallback"}
    BY <1>1, <1>2
  <2> QED BY <2>1, <2>2, <2>3, Zenon DEF StkCounted
<1>7. StkPhased'
  <2>1. CASE stkPhase' = "post"
    <3>1. StkRetried(stkResult)
      BY <1>1, <2>1
    <3>2. stkLog[Len(stkLog)].reply \in StkAgain /\ stkLog[Len(stkLog)].reply # "answer"
      BY <1>2, <3>1 DEF StkRetried, ErrorClass, StkTells, StkAgain
    <3>3. ASSUME NEW i \in 1..Len(stkLog)
          PROVE  stkLog[i].reply # "answer" /\ stkLog[i].reply \in StkAgain
      <4>1. CASE i = Len(stkLog)
        BY <3>2, <4>1
      <4>2. CASE i # Len(stkLog)
        <5>1. i < Len(stkLog) /\ Len(stkLog) \in 1..Len(stkLog)
          BY <1>3, <4>2
        <5>2. stkLog[i].who \in Nat /\ stkLog[Len(stkLog)].who \in Nat
          <6>1. \A k \in 1..Len(stkLog) : stkLog[k] \in StkEntry
            BY ElementOfSeq DEF StkInv, StkTypes
          <6> QED BY <5>1, <6>1 DEF StkEntry
        <5>3. stkLog[i].who = stkLog[Len(stkLog)].who
          BY <1>1, <5>1, <5>2 DEF StkInv, StkSent
        <5> QED BY <5>1, <5>3 DEF StkInv, StkSent
      <4> QED BY <4>1, <4>2
    <3>4. StkGoneOn(Len(stkLog))'
      BY <1>1, <3>3 DEF StkGoneOn
    <3> QED BY <1>1, <2>1, <3>4 DEF StkPhased
  <2>2. CASE stkPhase' = "fallback"
    <3>1. stkPrimary' = stkResult'
      BY <1>1, <2>2
    <3>2. StkTells(stkResult)'
      BY <1>1, <1>2 DEF StkTells
    <3> QED BY <1>1, <2>2, <3>1, <3>2 DEF StkPhased
  <2> QED BY <1>1, <2>1, <2>2
<1> QED
  BY <1>4, <1>5, <1>6, <1>7 DEF StkInv

\* The call goes on to a fallback, or ends.
LEMMA StkFallbackKeeps ==
  ASSUME StkInv, Fallback
  PROVE  StkInv'
<1> DEFINE on == /\ WorthFallback(stkPrimary)
                 /\ stkWho > 0 => stkResult.code # "ok"
                 /\ stkWho < StkFallbacks
<1>1. /\ stkPhase = "fallback" \/ (stkPhase = "returned" /\ stkWho > 0)
      /\ UNCHANGED <<stkDialect, stkMode, stkHint, stkModel, stkTry, stkHttpTry, stkPrimary, stkLog>>
      /\ \/ on /\ stkWho' = stkWho + 1 /\ stkPhase' = "post" /\ stkResult' = stkResult
         \/ /\ ~on /\ stkPhase' = "done" /\ stkWho' = stkWho
            /\ stkResult' = IF stkResult.code = "ok" THEN Ok ELSE stkPrimary
  BY DEF Fallback
<1>2. stkWho \in Nat /\ Len(stkLog) \in Nat /\ \A i \in 1..Len(stkLog) : stkLog[i].who \in Nat
  <2>1. \A i \in 1..Len(stkLog) : stkLog[i] \in StkEntry
    BY ElementOfSeq DEF StkInv, StkTypes
  <2> QED BY <2>1, LenProperties DEF StkInv, StkTypes, StkEntry
<1>3. stkMode = "chat" /\ StkTells(stkResult) /\ stkHttpTry = 0
  BY <1>1, <1>2 DEF StkInv, StkPhased, StkCounted
<1>4. /\ stkWho = 0 => stkPrimary = stkResult
      /\ stkWho # 0 => WorthFallback(stkPrimary)
  BY <1>1, <1>2 DEF StkInv, StkPhased
<1>5. on => stkResult.code # "ok"
  BY <1>2, <1>4 DEF WorthFallback
<1> HIDE DEF on
<1>6. StkTypes'
  <2>1. stkWho' \in Nat /\ stkPhase' \in {"route", "post", "returned", "fallback", "done"}
    BY <1>1, <1>2
  <2> QED BY <1>1, <2>1 DEF StkInv, StkTypes
<1>7. StkSent'
  <2>1. stkWho' >= stkWho /\ stkWho' \in Nat
    BY <1>1, <1>2
  <2>2. \A i \in 1..Len(stkLog) : stkLog[i].who <= stkWho'
    BY <1>2, <2>1 DEF StkInv, StkSent
  <2> QED BY <1>1, <2>2 DEF StkInv, StkSent
<1>8. CASE on
  <2>1. stkWho' = stkWho + 1 /\ stkPhase' = "post" /\ stkResult' = stkResult
    BY <1>1, <1>8
  <2>2. \A i \in 1..Len(stkLog) : stkLog[i].who # stkWho'
    BY <1>2, <2>1 DEF StkInv, StkSent
  <2>3. stkWho' # 0
    BY <1>2, <2>1
  <2>4. StkCounted'
    BY <1>1, <2>1, <2>2, <2>3 DEF StkInv, StkCounted
  <2>5. \A i \in 1..Len(stkLog) : stkLog[i].reply # "answer"
    <3> SUFFICES ASSUME NEW i \in 1..Len(stkLog) PROVE stkLog[i].reply # "answer"
      OBVIOUS
    <3>1. CASE i = Len(stkLog)
      BY <1>3, <1>5, <1>8, <3>1 DEF StkTells
    <3>2. CASE i # Len(stkLog)
      <4>1. i < Len(stkLog) /\ Len(stkLog) \in 1..Len(stkLog)
        BY <1>2, <3>2
      <4> QED BY <4>1 DEF StkInv, StkSent
    <3> QED BY <3>1, <3>2
  <2>6. StkGoneOn(Len(stkLog))'
    BY <1>1, <2>2, <2>5 DEF StkGoneOn
  <2>7. WorthFallback(stkPrimary)'
    BY <1>1, <1>8 DEF on, WorthFallback, ErrorClass
  <2> QED
    BY <1>1, <1>3, <1>6, <1>7, <2>1, <2>4, <2>6, <2>7 DEF StkInv, StkPhased
<1>9. CASE ~on
  <2>1. /\ stkPhase' = "done" /\ stkWho' = stkWho
        /\ stkResult' = IF stkResult.code = "ok" THEN Ok ELSE stkPrimary
    BY <1>1, <1>9
  <2>2. StkCounted'
    BY <1>1, <2>1 DEF StkInv, StkCounted
  <2>3. stkPrimary.code = "ok" => stkResult.code = "ok"
    BY <1>4 DEF WorthFallback
  <2>4. stkResult'.code = "ok" <=> stkResult.code = "ok"
    BY <2>1, <2>3 DEF Ok
  <2>5. stkResult'.code # "ok" => stkResult' = stkPrimary'
    BY <1>1, <2>1, <2>4
  <2>6. stkWho' # 0 => WorthFallback(stkPrimary)'
    BY <1>1, <1>4, <2>1 DEF WorthFallback, ErrorClass
  <2>7. StkPhased'
    BY <1>1, <1>3, <2>1, <2>4, <2>5, <2>6 DEF StkPhased, StkTells
  <2> QED BY <1>6, <1>7, <2>2, <2>7 DEF StkInv
<1> QED
  BY <1>8, <1>9

LEMMA StkPassOnKeeps ==
  ASSUME StkInv, PassOn
  PROVE  StkInv'
<1>1. /\ stkPhase = "returned" /\ stkMode # "chat" /\ stkPhase' = "done"
      /\ stkPrimary' = stkResult
      /\ UNCHANGED <<stkDialect, stkMode, stkHint, stkModel, stkWho, stkTry, stkHttpTry,
                     stkResult, stkLog>>
  BY DEF PassOn
<1>2. StkTypes' /\ StkSent'
  BY <1>1 DEF StkInv, StkTypes, StkSent
<1>3. StkCounted'
  BY <1>1 DEF StkInv, StkCounted
<1>4. stkWho = 0
  BY <1>1 DEF StkInv, StkPhased
<1>5. StkPhased'
  BY <1>1, <1>4 DEF StkPhased
<1> QED
  BY <1>2, <1>3, <1>5 DEF StkInv

\* The invariant holds of every request and what is tried after it.
LEMMA StkInvHolds == StkSpec => []StkInv
<1>1. StkInv /\ [StkNext]_stkVars => StkInv'
  <2> SUFFICES ASSUME StkInv, [StkNext]_stkVars PROVE StkInv'
    OBVIOUS
  <2>1. ASSUME NEW ruleModel \in StkRuleModels, Route(ruleModel) PROVE StkInv'
    BY <2>1, StkRouteKeeps
  <2>2. ASSUME NEW reply \in StkReplies, Request(reply) PROVE StkInv'
    BY <2>2, StkRequestKeeps
  <2>3. CASE TryWithRetries \/ Fallback \/ PassOn
    BY <2>3, StkTryKeeps, StkFallbackKeeps, StkPassOnKeeps
  <2>4. CASE UNCHANGED stkVars
    <3>1. UNCHANGED <<stkDialect, stkMode, stkModel, stkWho, stkTry, stkHttpTry, stkPhase,
                      stkResult, stkPrimary, stkLog>>
      BY <2>4 DEF stkVars
    <3>2. StkTypes' /\ StkSent'
      BY <3>1 DEF StkInv, StkTypes, StkSent
    <3>3. StkCounted'
      BY <3>1 DEF StkInv, StkCounted
    <3>4. StkPhased'
      BY <3>1 DEF StkInv, StkPhased, StkGoneOn, StkTells, WorthFallback, ErrorClass
    <3> QED BY <3>2, <3>3, <3>4 DEF StkInv
  <2> QED
    BY <2>1, <2>2, <2>3, <2>4 DEF StkNext
<1> QED
  BY <1>1, StkInitHolds, PTL DEF StkSpec

(***************************************************************************)
(* RequestsFollowReplies, for any number of retries and fallbacks and any  *)
(* replies: what was asked again was worth it, and after each request as   *)
(* many have gone to the provider as the counters of the two loops say     *)
(* (ReliableProvider::try_with_retries, chat; HttpClient::post).           *)
(***************************************************************************)
THEOREM RequestsFollow == StkSpec => []RequestsFollowReplies
BY StkInvHolds, StkInvFollows, PTL

\* The provider called is the primary or one of the fallbacks, and every counter stays
\* within its loop (ReliableProvider, HttpClient).
LEMMA StkTypesHold == StkSpec => []StkTypeOK
<1> DEFINE W == stkWho \in 0..StkFallbacks
<1>0. StkFallbacks \in Nat
  BY StkAssumption
<1>1. StkInit => W
  <2>1. StkInit => stkWho = 0
    BY DEF StkInit
  <2> QED BY <1>0, <2>1
<1>2. StkInv /\ W /\ [StkNext]_stkVars => W'
  <2>1. UNCHANGED stkVars => UNCHANGED stkWho
    BY DEF stkVars
  <2>2. Fallback => UNCHANGED stkWho \/ (stkWho < StkFallbacks /\ stkWho' = stkWho + 1)
    BY DEF Fallback
  <2>3. StkNext => Fallback \/ UNCHANGED stkWho
    BY DEF StkNext, Route, Request, TryWithRetries, PassOn
  <2> QED
    BY <1>0, <2>1, <2>2, <2>3
<1>3. StkInv /\ W => StkTypeOK
  BY DEF StkInv, StkTypes, StkTypeOK
<1> QED
  BY <1>1, <1>2, <1>3, StkInvHolds, PTL DEF StkSpec

-----------------------------------------------------------------------------
(* The MCP client: an answer is that of the caller's own request *)

McpWaiting == {t \in McpThreads : mcpWaits[t] # <<>>}
McpSent == [id : Nat, request : BOOLEAN]
McpBack == [id : Nat, error : BOOLEAN]

McpTypes ==
  /\ mcpIn \in Seq(McpSent) /\ mcpOut \in Seq(McpBack)
  /\ DOMAIN mcpWaits = McpThreads
  /\ \A t \in McpThreads : mcpWaits[t] = <<>> \/ \E n \in Nat : mcpWaits[t] = <<n>>
  /\ mcpNextId \in Nat /\ IsFiniteSet(McpWaiting)
  /\ mcpServer \in {"none", "running", "dead"}
  /\ mcpShared \subseteq McpThreads

\* As many lines are under way as threads wait.  The assembly's notification may be read
\* and not answered; a dead server leaves what it had not read.
McpCounted ==
  /\ mcpServer = "running" =>
       /\ Len(mcpIn) + Len(mcpOut) <= Cardinality(McpWaiting)
       /\ mcpPc \notin {"initialized", "cancelled"} =>
            Len(mcpIn) + Len(mcpOut) = Cardinality(McpWaiting)
  /\ mcpServer = "dead" => Len(mcpOut) <= Cardinality(McpWaiting)

\* A thread that shares the client with nobody waits alone, for lines of its own only.
McpAlone(t) ==
  /\ McpWaiting = {t}
  /\ \A i \in 1..Len(mcpIn) : mcpIn[i].id = Head(mcpWaits[t])
  /\ \A i \in 1..Len(mcpOut) : mcpOut[i].id = Head(mcpWaits[t])

McpUnshared == mcpPc # "killed" => \A t \in McpWaiting \ mcpShared : McpAlone(t)

\* The lines a running server is to read are requests, but where the assembly notifies.
McpRequests ==
  mcpServer = "running" /\ mcpPc \notin {"initialized", "cancelled"} =>
    \A i \in 1..Len(mcpIn) : mcpIn[i].request

\* Where the assembly is.
McpStaged ==
  /\ mcpServer = "none" <=> mcpPc \in {"start", "skipped", "ended"}
  /\ mcpServer = "none" => McpWaiting = {} /\ mcpIn = <<>> /\ mcpOut = <<>>
  /\ mcpPc \in {"initialize", "initialized", "list", "cancelled"} => McpWaiting \subseteq {McpMain}
  /\ mcpPc \in {"list", "ready"} => mcpConnected = TRUE
  /\ mcpRegistered # {} => mcpConnected = TRUE /\ mcpPc \in {"ready", "killed"}

McpInv ==
  /\ McpTypes /\ McpCounted /\ McpUnshared /\ McpRequests /\ McpStaged
  /\ mcpGot.request = mcpGot.answer \/ mcpGot.shared

LEMMA McpInitHolds == McpInit => McpInv
<1> SUFFICES ASSUME McpInit PROVE McpInv
  OBVIOUS
<1>1. McpWaiting = {}
  BY DEF McpInit, McpWaiting
<1>2. IsFiniteSet(McpWaiting) /\ Cardinality(McpWaiting) = 0
  BY <1>1, FS_EmptySet
<1>3. McpTypes
  BY <1>2 DEF McpInit, McpTypes
<1>4. McpCounted /\ McpUnshared /\ McpRequests /\ McpStaged
  BY <1>1 DEF McpInit, McpCounted, McpUnshared, McpRequests, McpStaged
<1> QED
  BY <1>3, <1>4 DEF McpInit, McpInv

\* Nothing waits, nothing is under way: the client is as it was before the first call.
LEMMA McpQuiet ==
  ASSUME McpTypes, McpCounted, mcpServer = "running", McpWaiting = {}
  PROVE  mcpIn = <<>> /\ mcpOut = <<>>
<1>1. Len(mcpIn) \in Nat /\ Len(mcpOut) \in Nat
  BY LenProperties DEF McpTypes
<1>2. Cardinality(McpWaiting) = 0
  BY FS_EmptySet
<1>3. Len(mcpIn) = 0 /\ Len(mcpOut) = 0
  BY <1>1, <1>2 DEF McpCounted
<1> QED
  BY <1>3, EmptySeq DEF McpTypes

\* Sending: one line more, one thread more that waits.
McpSendKept(t) ==
  /\ McpTypes' /\ McpCounted' /\ McpUnshared' /\ McpRequests'
  /\ mcpServer' = mcpServer /\ mcpServer # "none" /\ mcpConnected' = mcpConnected
  /\ mcpPc' \in {mcpPc, "killed"} /\ McpWaiting' \subseteq McpWaiting \cup {t}

LEMMA McpSendKeeps ==
  ASSUME McpTypes, McpCounted, McpUnshared, McpRequests, mcpPc # "killed",
         NEW t \in McpThreads, NEW isRequest \in BOOLEAN, McpSend(t, isRequest),
         isRequest \/ mcpPc \in {"initialized", "cancelled"}
  PROVE  McpSendKept(t)
<1> DEFINE others == {o \in McpThreads \ {t} : mcpWaits[o] # <<>>}
<1>1. /\ mcpWaits[t] = <<>> /\ mcpServer # "none"
      /\ UNCHANGED <<mcpServer, mcpOut, mcpConnected>>
      /\ mcpShared' = IF others = {} THEN mcpShared \ {t} ELSE mcpShared \cup others \cup {t}
  BY DEF McpSend
<1>2. others = McpWaiting
  BY <1>1 DEF McpWaiting
<1> HIDE DEF others
<1>3. mcpShared' \subseteq McpThreads
  BY <1>1, <1>2 DEF McpTypes, McpWaiting
<1>4. Len(mcpIn) \in Nat /\ Len(mcpOut) \in Nat
  BY LenProperties DEF McpTypes
<1>5. CASE mcpServer = "running"
  <2> DEFINE line == [id |-> mcpNextId, request |-> isRequest]
  <2>1. /\ mcpIn' = Append(mcpIn, line) /\ mcpNextId' = mcpNextId + 1 /\ mcpPc' = mcpPc
        /\ mcpWaits' = [mcpWaits EXCEPT ![t] = <<mcpNextId>>]
    BY <1>5 DEF McpSend
  <2>2. line \in McpSent /\ line.id = mcpNextId /\ mcpNextId \in Nat
    BY DEF McpSent, McpTypes
  <2> HIDE DEF line
  <2>3. /\ mcpIn' \in Seq(McpSent) /\ Len(mcpIn') = Len(mcpIn) + 1
        /\ \A i \in 1..Len(mcpIn) : mcpIn'[i] = mcpIn[i]
        /\ mcpIn'[Len(mcpIn) + 1] = line
    BY <2>1, <2>2 DEF McpTypes
  <2>4. /\ DOMAIN mcpWaits' = McpThreads /\ mcpWaits'[t] = <<mcpNextId>>
        /\ \A o \in McpThreads : o # t => mcpWaits'[o] = mcpWaits[o]
    BY <2>1 DEF McpTypes
  <2>5. McpWaiting' = McpWaiting \cup {t} /\ t \notin McpWaiting
    BY <1>1, <2>4 DEF McpWaiting
  <2>6. IsFiniteSet(McpWaiting') /\ Cardinality(McpWaiting') = Cardinality(McpWaiting) + 1
        /\ Cardinality(McpWaiting) \in Nat
    BY <2>5, FS_AddElement, FS_CardinalityType DEF McpTypes
  <2>7. McpTypes'
    <3>1. \A o \in McpThreads : mcpWaits'[o] = <<>> \/ \E n \in Nat : mcpWaits'[o] = <<n>>
      <4> SUFFICES ASSUME NEW o \in McpThreads
                   PROVE  mcpWaits'[o] = <<>> \/ \E n \in Nat : mcpWaits'[o] = <<n>>
        OBVIOUS
      <4>1. CASE o = t
        BY <2>2, <2>4, <4>1
      <4>2. CASE o # t
        BY <2>4, <4>2 DEF McpTypes
      <4> QED BY <4>1, <4>2
    <3>2. mcpNextId' \in Nat /\ mcpOut' \in Seq(McpBack)
      BY <1>1, <2>1, <2>2 DEF McpTypes
    <3>3. mcpServer' \in {"none", "running", "dead"}
      BY <1>1 DEF McpTypes
    <3> QED BY <1>3, <2>3, <2>4, <2>6, <3>1, <3>2, <3>3 DEF McpTypes
  <2>8. McpCounted'
    BY <1>1, <1>4, <1>5, <2>1, <2>3, <2>6 DEF McpCounted
  <2>9. McpUnshared'
    <3> SUFFICES ASSUME NEW o \in (McpWaiting \ mcpShared)' PROVE McpAlone(o)'
      BY DEF McpUnshared
    <3>1. CASE McpWaiting = {}
      <4>1. o = t /\ McpWaiting' = {t}
        BY <2>5, <3>1
      <4>2. mcpIn = <<>> /\ mcpOut = <<>>
        BY <1>5, <3>1, McpQuiet
      <4>3. Len(mcpIn') = 1 /\ mcpIn'[1] = line /\ Len(mcpOut') = 0
        BY <1>1, <2>3, <4>2
      <4>4. Head(mcpWaits'[t]) = mcpNextId
        BY <2>4
      <4> QED BY <2>2, <4>1, <4>3, <4>4 DEF McpAlone
    <3>2. CASE McpWaiting # {}
      BY <1>1, <1>2, <2>5, <3>2
    <3> QED BY <3>1, <3>2
  <2>10. McpRequests'
    <3> SUFFICES ASSUME mcpPc \notin {"initialized", "cancelled"}, NEW i \in 1..Len(mcpIn')
                 PROVE  mcpIn'[i].request
      BY <2>1 DEF McpRequests
    <3>1. line.request
      BY DEF line
    <3>2. \A j \in 1..Len(mcpIn) : mcpIn[j].request
      BY <1>5 DEF McpRequests
    <3>3. i \in 1..Len(mcpIn) \/ i = Len(mcpIn) + 1
      BY <1>4, <2>3
    <3> QED BY <2>3, <3>1, <3>2, <3>3
  <2> QED BY <1>1, <2>1, <2>5, <2>7, <2>8, <2>9, <2>10 DEF McpSendKept
<1>6. CASE mcpServer # "running"
  <2>1. mcpPc' = "killed" /\ UNCHANGED <<mcpIn, mcpWaits, mcpNextId>>
    BY <1>6 DEF McpSend
  <2>2. McpWaiting' = McpWaiting
    BY <2>1 DEF McpWaiting
  <2>3. McpTypes'
    BY <1>1, <1>3, <2>1, <2>2 DEF McpTypes
  <2>4. McpCounted' /\ McpUnshared' /\ McpRequests'
    BY <1>1, <1>6, <2>1, <2>2 DEF McpCounted, McpUnshared, McpRequests
  <2> QED BY <1>1, <2>1, <2>2, <2>3, <2>4 DEF McpSendKept
<1> QED
  BY <1>5, <1>6

\* Taking a line, or the end of the file: one thread less that waits.
McpTakenKept(t) ==
  /\ McpTypes' /\ McpUnshared'
  /\ McpWaiting' = McpWaiting \ {t}
  /\ mcpServer' = mcpServer
  /\ mcpServer = "dead" => Len(mcpOut') <= Cardinality(McpWaiting')
  /\ mcpServer = "running" =>
       /\ Len(mcpIn') + Len(mcpOut') <= Cardinality(McpWaiting')
       /\ Len(mcpIn') + Len(mcpOut') < Cardinality(McpWaiting') =>
            Len(mcpIn) + Len(mcpOut) < Cardinality(McpWaiting)

LEMMA McpReceiveKeeps ==
  ASSUME McpTypes, McpCounted, McpUnshared, NEW t \in McpThreads, McpReceive(t),
         mcpServer # "none", UNCHANGED <<mcpNextId, mcpShared>>
  PROVE  McpTakenKept(t)
<1>1. /\ mcpPc # "killed" /\ mcpWaits[t] # <<>> /\ (mcpOut # <<>> \/ mcpServer = "dead")
      /\ mcpWaits' = [mcpWaits EXCEPT ![t] = <<>>]
      /\ mcpOut' = IF mcpOut = <<>> THEN mcpOut ELSE Tail(mcpOut)
      /\ UNCHANGED <<mcpServer, mcpIn>>
  BY DEF McpReceive, McpHasLine, McpTaken
<1>2. Len(mcpIn) \in Nat /\ Len(mcpOut) \in Nat
  BY LenProperties DEF McpTypes
<1>3. /\ DOMAIN mcpWaits' = McpThreads /\ mcpWaits'[t] = <<>>
      /\ \A o \in McpThreads : o # t => mcpWaits'[o] = mcpWaits[o]
  BY <1>1 DEF McpTypes
<1>4. McpWaiting' = McpWaiting \ {t} /\ t \in McpWaiting
  BY <1>1, <1>3 DEF McpWaiting
<1>5. IsFiniteSet(McpWaiting') /\ Cardinality(McpWaiting') = Cardinality(McpWaiting) - 1
      /\ Cardinality(McpWaiting) \in Nat
  BY <1>4, FS_RemoveElement, FS_CardinalityType DEF McpTypes
<1>6. /\ mcpOut' \in Seq(McpBack)
      /\ mcpOut = <<>> => Len(mcpOut') = 0
      /\ mcpOut # <<>> => Len(mcpOut') = Len(mcpOut) - 1
  BY <1>1, HeadTailProperties DEF McpTypes
<1>7. McpTypes'
  BY <1>1, <1>3, <1>5, <1>6 DEF McpTypes
<1>8. McpUnshared'
  <2> SUFFICES ASSUME NEW o \in (McpWaiting \ mcpShared)' PROVE FALSE
    BY DEF McpUnshared
  <2>1. o \in McpWaiting \ mcpShared /\ o # t
    BY <1>4
  <2>2. McpWaiting = {o}
    BY <1>1, <2>1 DEF McpUnshared, McpAlone
  <2> QED BY <1>4, <2>1, <2>2
<1>9. Len(mcpOut) = 0 => mcpOut = <<>>
  BY EmptySeq DEF McpTypes
<1>10. mcpServer = "dead" => Len(mcpOut') <= Cardinality(McpWaiting')
  <2> SUFFICES ASSUME mcpServer = "dead" PROVE Len(mcpOut') <= Cardinality(McpWaiting')
    OBVIOUS
  <2>1. Len(mcpOut) <= Cardinality(McpWaiting)
    BY DEF McpCounted
  <2>2. Cardinality(McpWaiting') \in Nat
    BY <1>5, FS_CardinalityType
  <2>3. CASE mcpOut = <<>>
    BY <1>6, <2>2, <2>3
  <2>4. CASE mcpOut # <<>>
    BY <1>2, <1>5, <1>6, <2>1, <2>4
  <2> QED BY <2>3, <2>4
<1>11. mcpServer = "running" =>
         /\ Len(mcpIn') + Len(mcpOut') <= Cardinality(McpWaiting')
         /\ Len(mcpIn') + Len(mcpOut') < Cardinality(McpWaiting') =>
              Len(mcpIn) + Len(mcpOut) < Cardinality(McpWaiting)
  <2> SUFFICES ASSUME mcpServer = "running"
               PROVE  /\ Len(mcpIn') + Len(mcpOut') <= Cardinality(McpWaiting')
                      /\ Len(mcpIn') + Len(mcpOut') < Cardinality(McpWaiting') =>
                           Len(mcpIn) + Len(mcpOut) < Cardinality(McpWaiting)
    OBVIOUS
  <2>1. Len(mcpIn) + Len(mcpOut) <= Cardinality(McpWaiting)
    BY DEF McpCounted
  <2>2. Len(mcpOut') = Len(mcpOut) - 1 /\ Len(mcpIn') = Len(mcpIn)
    BY <1>1, <1>6
  <2> QED BY <1>2, <1>5, <2>1, <2>2
<1> QED
  BY <1>1, <1>4, <1>7, <1>8, <1>10, <1>11 DEF McpTakenKept

\* What a caller that shares the client with nobody is given is its own.
LEMMA McpAnswerIsOwn ==
  ASSUME McpInv, NEW t \in McpThreads, McpHasLine(t), McpAnswer(t)
  PROVE  (mcpGot.request = mcpGot.answer \/ mcpGot.shared)'
<1>1. mcpPc # "killed" /\ t \in McpWaiting
  BY DEF McpHasLine, McpWaiting
<1>2. CASE McpLine.error
  BY <1>2 DEF McpAnswer, McpInv
<1>3. CASE ~McpLine.error
  <2>1. mcpOut # <<>>
    BY <1>3 DEF McpLine
  <2>2. McpLine = mcpOut[1] /\ 1 \in 1..Len(mcpOut)
    <3>1. mcpOut \in Seq(McpBack)
      BY DEF McpInv, McpTypes
    <3>2. Len(mcpOut) \in Nat \ {0}
      BY <2>1, <3>1, EmptySeq
    <3> QED BY <2>1, <3>1, <3>2 DEF McpLine
  <2>3. mcpGot' = [request |-> Head(mcpWaits[t]), answer |-> McpLine.id,
                   shared |-> t \in mcpShared]
    BY <1>3 DEF McpAnswer
  <2>4. mcpGot'.request = Head(mcpWaits[t]) /\ mcpGot'.answer = McpLine.id
        /\ (t \in mcpShared => mcpGot'.shared)
    BY <2>3, Zenon
  <2>5. t \notin mcpShared => McpLine.id = Head(mcpWaits[t])
    BY <1>1, <2>2 DEF McpInv, McpUnshared, McpAlone
  <2> QED BY <2>4, <2>5
<1> QED
  BY <1>2, <1>3


\* The assembly asks, or notifies.
LEMMA McpAskKeeps ==
  ASSUME McpInv, McpSendRequest \/ McpNotify
  PROVE  McpInv'
<1>1. McpMain \in McpThreads
  BY DEF McpThreads
<1>2. /\ mcpPc \in {"initialize", "list", "initialized", "cancelled"}
      /\ UNCHANGED mcpKept
  BY DEF McpSendRequest, McpNotify
<1>3. McpSendKept(McpMain)
  <2>1. CASE McpSendRequest
    <3>1. McpSend(McpMain, TRUE)
      BY <2>1 DEF McpSendRequest
    <3> QED BY <1>1, <1>2, <3>1, McpSendKeeps DEF McpInv
  <2>2. CASE McpNotify
    <3>1. McpSend(McpMain, FALSE) /\ mcpPc \in {"initialized", "cancelled"}
      BY <2>2 DEF McpNotify
    <3> QED BY <1>1, <1>2, <3>1, McpSendKeeps DEF McpInv
  <2> QED BY <2>1, <2>2
<1>4. mcpRegistered' = mcpRegistered /\ mcpGot' = mcpGot
  BY <1>2 DEF mcpKept
<1>5. McpStaged'
  BY <1>2, <1>3, <1>4 DEF McpSendKept, McpInv, McpStaged
<1> QED
  BY <1>3, <1>4, <1>5 DEF McpSendKept, McpInv

\* A thread calls a tool.
LEMMA McpToolAdapterKeeps ==
  ASSUME McpInv, NEW t \in McpCallers, NEW tool \in McpTools, McpToolAdapter(t, tool)
  PROVE  McpInv'
<1>1. mcpPc = "ready" /\ McpSend(t, TRUE) /\ UNCHANGED <<mcpKind, mcpRegistered, mcpGot>>
  BY DEF McpToolAdapter
<1>2. McpSendKept(t)
  BY <1>1, McpSendKeeps DEF McpInv, McpThreads
<1>3. McpStaged'
  BY <1>1, <1>2 DEF McpSendKept, McpInv, McpStaged
<1> QED
  BY <1>1, <1>2, <1>3 DEF McpSendKept, McpInv

\* The server has been given up: nothing is left of it.
LEMMA McpGivenUp ==
  ASSUME McpInv, McpStop, McpWaiting' = {}, DOMAIN mcpWaits' = McpThreads,
         mcpNextId' = mcpNextId, mcpShared' = mcpShared,
         mcpPc' \in {"skipped", "ended"}, mcpGot' = mcpGot, mcpRegistered' = {}
  PROVE  McpInv'
<1>1. mcpServer' = "none" /\ mcpIn' = <<>> /\ mcpOut' = <<>>
  BY DEF McpStop
<1>2. IsFiniteSet(McpWaiting')
  BY FS_EmptySet
<1>3. \A t \in McpThreads : mcpWaits'[t] = <<>>
  BY DEF McpWaiting
<1>4. McpTypes'
  BY <1>1, <1>2, <1>3 DEF McpInv, McpTypes
<1>5. McpCounted' /\ McpUnshared' /\ McpRequests' /\ McpStaged'
  BY <1>1 DEF McpCounted, McpUnshared, McpRequests, McpStaged
<1> QED
  BY <1>4, <1>5 DEF McpInv

LEMMA McpStartKeeps ==
  ASSUME McpInv, NEW started \in BOOLEAN, McpStart(started)
  PROVE  McpInv'
<1>1. /\ mcpPc = "start" /\ mcpServer = "none"
      /\ UNCHANGED <<mcpKept, mcpIn, mcpOut, mcpConnected, mcpNextId, mcpWaits, mcpShared>>
      /\ \/ mcpServer' = "running" /\ mcpPc' = "initialize"
         \/ mcpServer' = mcpServer /\ mcpPc' = "skipped"
  BY DEF McpStart, McpInv, McpStaged
<1>2. McpWaiting' = {} /\ mcpIn' = <<>> /\ mcpOut' = <<>> /\ McpWaiting = {}
  BY <1>1 DEF McpWaiting, McpInv, McpStaged
<1>3. Cardinality(McpWaiting') = 0
  BY <1>2, FS_EmptySet
<1>4. mcpRegistered' = {} /\ mcpGot' = mcpGot
  BY <1>1 DEF mcpKept, McpInv, McpStaged
<1>5. McpTypes'
  BY <1>1, <1>2 DEF McpInv, McpTypes
<1>6. McpCounted'
  BY <1>2, <1>3 DEF McpCounted
<1>7. McpUnshared' /\ McpRequests' /\ McpStaged'
  BY <1>1, <1>2, <1>4 DEF McpUnshared, McpRequests, McpStaged
<1> QED
  BY <1>4, <1>5, <1>6, <1>7 DEF McpInv

\* A line taken where nothing is only notified, or where nothing is left to read.
LEMMA McpTakenCounts ==
  ASSUME McpInv, NEW t \in McpThreads, McpTakenKept(t), mcpIn' = mcpIn,
         \/ mcpPc' \in {"initialized", "cancelled"}
         \/ mcpPc \notin {"initialized", "cancelled"}
         \/ mcpServer = "running" => McpWaiting' = {}
  PROVE  McpCounted' /\ McpRequests'
<1>1. IsFiniteSet(McpWaiting') /\ Len(mcpIn') \in Nat /\ Len(mcpOut') \in Nat
      /\ Len(mcpIn) \in Nat /\ Len(mcpOut) \in Nat
  <2>1. McpTypes' /\ McpTypes
    BY DEF McpTakenKept, McpInv
  <2> QED BY <2>1, LenProperties DEF McpTypes
<1>2. Cardinality(McpWaiting') \in Nat /\ (McpWaiting' = {} => Cardinality(McpWaiting') = 0)
  BY <1>1, FS_CardinalityType, FS_EmptySet
<1>3. Cardinality(McpWaiting) \in Nat
  BY FS_CardinalityType DEF McpInv, McpTypes
<1>4. CASE mcpServer # "running"
  BY <1>4 DEF McpTakenKept, McpCounted, McpRequests
<1>5. CASE mcpServer = "running"
  <2>1. /\ mcpServer' = "running" /\ Len(mcpIn') + Len(mcpOut') <= Cardinality(McpWaiting')
        /\ Len(mcpIn') + Len(mcpOut') < Cardinality(McpWaiting') =>
             Len(mcpIn) + Len(mcpOut) < Cardinality(McpWaiting)
    BY <1>5 DEF McpTakenKept
  <2>2. CASE mcpPc' \in {"initialized", "cancelled"}
    BY <2>1, <2>2 DEF McpCounted, McpRequests
  <2>3. CASE mcpPc \notin {"initialized", "cancelled"}
    <3>1. Len(mcpIn) + Len(mcpOut) = Cardinality(McpWaiting)
      BY <1>5, <2>3 DEF McpInv, McpCounted
    <3>2. Len(mcpIn') + Len(mcpOut') = Cardinality(McpWaiting')
      BY <1>1, <1>2, <1>3, <2>1, <3>1
    <3>3. McpRequests'
      BY <1>5, <2>3 DEF McpInv, McpRequests
    <3> QED BY <2>1, <3>2, <3>3 DEF McpCounted
  <2>4. CASE McpWaiting' = {}
    <3>1. Len(mcpIn') = 0 /\ Len(mcpOut') = 0 /\ Cardinality(McpWaiting') = 0
      BY <1>1, <1>2, <2>1, <2>4
    <3>2. 1..Len(mcpIn') = {}
      BY <3>1
    <3> QED BY <2>1, <3>1, <3>2 DEF McpCounted, McpRequests
  <2> QED BY <1>5, <2>2, <2>3, <2>4
<1> QED
  BY <1>4, <1>5

\* The assembly takes a line: it was the only one that waited.
LEMMA McpMainTakes ==
  ASSUME McpInv, mcpPc \in {"initialize", "initialized", "list", "cancelled"},
         McpReceive(McpMain), UNCHANGED <<mcpNextId, mcpShared>>
  PROVE  McpTakenKept(McpMain) /\ McpWaiting' = {} /\ mcpServer # "none" /\ mcpIn' = mcpIn
<1>1. McpMain \in McpThreads
  BY DEF McpThreads
<1>2. mcpServer # "none" /\ McpWaiting \subseteq {McpMain}
  BY DEF McpInv, McpStaged
<1>3. McpTakenKept(McpMain)
  BY <1>1, <1>2, McpReceiveKeeps DEF McpInv
<1> QED
  BY <1>2, <1>3 DEF McpTakenKept, McpReceive

LEMMA McpMainStops ==
  ASSUME McpInv, mcpPc \in {"initialize", "initialized", "list", "cancelled"},
         McpTaken(McpMain)
  PROVE  McpWaiting' = {} /\ DOMAIN mcpWaits' = McpThreads
<1>1. McpWaiting \subseteq {McpMain} /\ DOMAIN mcpWaits = McpThreads
  BY DEF McpInv, McpStaged, McpTypes
<1>2. mcpWaits' = [mcpWaits EXCEPT ![McpMain] = <<>>]
  BY DEF McpTaken
<1> QED
  BY <1>1, <1>2 DEF McpWaiting

LEMMA McpInitializedKeeps ==
  ASSUME McpInv, McpInitialized
  PROVE  McpInv'
<1>1. /\ mcpPc = "initialize" /\ mcpRegistered' = mcpRegistered /\ mcpGot' = mcpGot
      /\ mcpConnected' = mcpConnected /\ mcpNextId' = mcpNextId /\ mcpShared' = mcpShared
  BY DEF McpInitialized, mcpKept
<1>2. mcpRegistered = {}
  BY <1>1 DEF McpInv, McpStaged
<1>3. CASE McpLine.error
  <2>1. McpStop /\ McpTaken(McpMain) /\ mcpPc' = "skipped"
    BY <1>3 DEF McpInitialized
  <2> QED BY <1>1, <1>2, <2>1, McpMainStops, McpGivenUp
<1>4. CASE ~McpLine.error
  <2>1. McpReceive(McpMain) /\ mcpPc' = "initialized"
    BY <1>4 DEF McpInitialized
  <2>2. McpTakenKept(McpMain) /\ McpWaiting' = {} /\ mcpServer # "none" /\ mcpIn' = mcpIn
    BY <1>1, <2>1, McpMainTakes
  <2>3. McpCounted' /\ McpRequests'
    BY <1>1, <2>1, <2>2, McpTakenCounts DEF McpThreads
  <2>4. McpStaged'
    BY <1>1, <1>2, <2>1, <2>2 DEF McpTakenKept, McpStaged
  <2> QED BY <1>1, <2>2, <2>3, <2>4 DEF McpTakenKept, McpInv
<1> QED
  BY <1>3, <1>4

LEMMA McpNotifiedKeeps ==
  ASSUME McpInv, McpNotified
  PROVE  McpInv'
<1>1. /\ mcpPc \in {"initialized", "cancelled"} /\ mcpRegistered' = mcpRegistered
      /\ mcpGot' = mcpGot /\ mcpNextId' = mcpNextId /\ mcpShared' = mcpShared
      /\ mcpConnected' = (mcpPc = "initialized")
  BY DEF McpNotified, mcpKept
<1>2. mcpRegistered = {}
  BY <1>1 DEF McpInv, McpStaged
<1>3. CASE mcpPc = "cancelled"
  <2>1. McpStop /\ McpTaken(McpMain) /\ mcpPc' = "skipped"
    BY <1>3 DEF McpNotified
  <2> QED BY <1>1, <1>2, <2>1, McpMainStops, McpGivenUp
<1>4. CASE mcpPc = "initialized"
  <2>1. McpReceive(McpMain) /\ mcpPc' = "list" /\ mcpConnected' = TRUE
    BY <1>1, <1>4 DEF McpNotified
  <2>2. McpTakenKept(McpMain) /\ McpWaiting' = {} /\ mcpServer # "none" /\ mcpIn' = mcpIn
    BY <1>1, <2>1, McpMainTakes
  <2>3. McpCounted' /\ McpRequests'
    BY <2>2, McpTakenCounts DEF McpThreads
  <2>4. McpStaged'
    BY <1>1, <1>2, <2>1, <2>2 DEF McpTakenKept, McpStaged
  <2> QED BY <1>1, <2>2, <2>3, <2>4 DEF McpTakenKept, McpInv
<1> QED
  BY <1>1, <1>3, <1>4

LEMMA McpListToolsKeeps ==
  ASSUME McpInv, NEW tools \in SUBSET McpTools, McpListTools(tools)
  PROVE  McpInv'
<1>1. /\ mcpPc = "list" /\ McpReceive(McpMain) /\ McpAnswer(McpMain)
      /\ UNCHANGED <<mcpKind, mcpConnected, mcpNextId, mcpCalls, mcpShared>>
  BY DEF McpListTools
<1>2. mcpRegistered = {} /\ mcpConnected = TRUE
  BY <1>1 DEF McpInv, McpStaged
<1>3. McpTakenKept(McpMain) /\ McpWaiting' = {} /\ mcpServer # "none" /\ mcpIn' = mcpIn
  BY <1>1, McpMainTakes
<1>4. McpCounted' /\ McpRequests'
  BY <1>1, <1>3, McpTakenCounts DEF McpThreads
<1>5. (mcpGot.request = mcpGot.answer \/ mcpGot.shared)'
  BY <1>1, McpAnswerIsOwn DEF McpReceive, McpThreads
<1>6. \/ mcpPc' = "cancelled" /\ mcpRegistered' = {}
      \/ mcpPc' = "ready"
  BY <1>2 DEF McpListTools
<1>7. McpStaged'
  BY <1>1, <1>2, <1>3, <1>6 DEF McpTakenKept, McpStaged
<1> QED
  BY <1>3, <1>4, <1>5, <1>7 DEF McpTakenKept, McpInv

LEMMA McpCallToolKeeps ==
  ASSUME McpInv, NEW t \in McpCallers, McpCallTool(t)
  PROVE  McpInv'
<1>1. /\ mcpPc = "ready" /\ McpReceive(t) /\ McpAnswer(t) /\ t \in McpThreads
      /\ UNCHANGED <<mcpPc, mcpConnected, mcpNextId, mcpRegistered, mcpShared>>
  BY DEF McpCallTool, McpThreads
<1>2. mcpServer # "none"
  BY <1>1 DEF McpInv, McpStaged
<1>3. McpTakenKept(t) /\ mcpIn' = mcpIn
  BY <1>1, <1>2, McpReceiveKeeps DEF McpInv, McpReceive
<1>4. McpCounted' /\ McpRequests'
  BY <1>1, <1>3, McpTakenCounts
<1>5. (mcpGot.request = mcpGot.answer \/ mcpGot.shared)'
  BY <1>1, McpAnswerIsOwn DEF McpReceive
<1>6. McpStaged'
  BY <1>1, <1>2, <1>3 DEF McpTakenKept, McpInv, McpStaged
<1> QED
  BY <1>3, <1>4, <1>5, <1>6 DEF McpTakenKept, McpInv

LEMMA McpEndKeeps ==
  ASSUME McpInv, McpEnd
  PROVE  McpInv'
<1>1. McpWaiting' = {} /\ DOMAIN mcpWaits' = McpThreads
  BY DEF McpEnd, McpWaiting, McpInv, McpTypes
<1> QED
  BY <1>1, McpGivenUp DEF McpEnd

\* The server reads a line, and may answer it.
LEMMA McpServerReadsKeeps ==
  ASSUME McpInv, NEW error \in BOOLEAN, McpServerReads(error)
  PROVE  McpInv'
<1> DEFINE line == Head(mcpIn)
           back == [id |-> line.id, error |-> error]
           answered == line.request \/ mcpKind = "all"
<1>1. /\ mcpServer = "running" /\ mcpIn # <<>> /\ mcpIn' = Tail(mcpIn)
      /\ mcpOut' = IF answered THEN Append(mcpOut, back) ELSE mcpOut
      /\ UNCHANGED <<mcpKept, mcpServer, mcpPc, mcpConnected, mcpNextId, mcpWaits, mcpShared>>
  BY DEF McpServerReads
<1>2. mcpIn \in Seq(McpSent) /\ mcpOut \in Seq(McpBack)
  BY DEF McpInv, McpTypes
<1>3. /\ line \in McpSent /\ line = mcpIn[1] /\ Len(mcpIn) \in Nat \ {0}
      /\ mcpIn' \in Seq(McpSent) /\ Len(mcpIn') = Len(mcpIn) - 1
      /\ \A i \in 1..Len(mcpIn') : mcpIn'[i] = mcpIn[i + 1] /\ i + 1 \in 1..Len(mcpIn)
  BY <1>1, <1>2, HeadTailProperties, EmptySeq
<1>4. back \in McpBack /\ back.id = line.id
  BY <1>3 DEF McpSent, McpBack
<1> HIDE DEF line, back
<1>5. /\ mcpOut' \in Seq(McpBack) /\ Len(mcpOut) \in Nat
      /\ \/ /\ answered /\ Len(mcpOut') = Len(mcpOut) + 1
            /\ \A i \in 1..Len(mcpOut) : mcpOut'[i] = mcpOut[i]
            /\ mcpOut'[Len(mcpOut) + 1] = back
         \/ ~answered /\ mcpOut' = mcpOut
  <2> HIDE DEF answered
  <2>1. Len(mcpOut) \in Nat
    BY <1>2
  <2> QED BY <1>1, <1>2, <1>4, <2>1
<1>6. McpWaiting' = McpWaiting /\ mcpServer' = "running" /\ mcpPc' = mcpPc
  BY <1>1 DEF McpWaiting
<1>7. Cardinality(McpWaiting) \in Nat
  BY FS_CardinalityType DEF McpInv, McpTypes
<1>8. McpTypes'
  BY <1>1, <1>3, <1>5, <1>6 DEF McpInv, McpTypes
<1>9. McpCounted'
  <2>1. Len(mcpIn) + Len(mcpOut) <= Cardinality(McpWaiting)
    BY <1>1 DEF McpInv, McpCounted
  <2>2. Len(mcpIn') + Len(mcpOut') <= Cardinality(McpWaiting)
    BY <1>3, <1>5, <1>7, <2>1
  <2>3. ASSUME mcpPc \notin {"initialized", "cancelled"}
        PROVE  Len(mcpIn') + Len(mcpOut') = Cardinality(McpWaiting)
    <3>1. Len(mcpIn) + Len(mcpOut) = Cardinality(McpWaiting)
      BY <1>1, <2>3 DEF McpInv, McpCounted
    <3>2. mcpIn[1].request
      BY <1>1, <1>3, <2>3 DEF McpInv, McpRequests
    <3>3. answered
      BY <1>3, <3>2
    <3> HIDE DEF answered
    <3>4. Len(mcpOut') = Len(mcpOut) + 1 /\ Len(mcpOut) \in Nat
      BY <1>5, <3>3
    <3>5. Len(mcpIn') = Len(mcpIn) - 1 /\ Len(mcpIn) \in Nat
      BY <1>3
    <3> QED BY <1>7, <3>1, <3>4, <3>5
  <2> QED BY <1>6, <2>2, <2>3 DEF McpCounted
<1>10. McpRequests'
  BY <1>1, <1>3, <1>6 DEF McpInv, McpRequests
<1>11. McpUnshared'
  <2> SUFFICES ASSUME mcpPc # "killed", NEW t \in McpWaiting \ mcpShared PROVE McpAlone(t)'
    BY <1>1, <1>6 DEF McpUnshared
  <2>1. McpAlone(t)
    BY DEF McpInv, McpUnshared
  <2>2. \A i \in 1..Len(mcpIn') : mcpIn'[i].id = Head(mcpWaits[t])
    BY <1>3, <2>1 DEF McpAlone
  <2>3. back.id = Head(mcpWaits[t])
    BY <1>3, <1>4, <2>1 DEF McpAlone
  <2>4. \A i \in 1..Len(mcpOut') : mcpOut'[i].id = Head(mcpWaits[t])
    <3> HIDE DEF answered
    <3> SUFFICES ASSUME NEW i \in 1..Len(mcpOut') PROVE mcpOut'[i].id = Head(mcpWaits[t])
      OBVIOUS
    <3>1. \A j \in 1..Len(mcpOut) : mcpOut[j].id = Head(mcpWaits[t])
      BY <2>1 DEF McpAlone
    <3>2. CASE ~answered
      BY <1>5, <3>1, <3>2
    <3>3. CASE answered
      <4>1. i \in 1..Len(mcpOut) \/ i = Len(mcpOut) + 1
        BY <1>5, <3>3
      <4> QED BY <1>5, <2>3, <3>1, <3>3, <4>1
    <3> QED BY <3>2, <3>3
  <2> QED BY <1>1, <1>6, <2>1, <2>2, <2>4 DEF McpAlone
<1>12. McpStaged'
  BY <1>1, <1>6 DEF McpInv, McpStaged, mcpKept
<1> QED
  BY <1>1, <1>8, <1>9, <1>10, <1>11, <1>12 DEF McpInv, mcpKept

LEMMA McpServerDiesKeeps ==
  ASSUME McpInv, McpServerDies
  PROVE  McpInv'
<1>1. /\ mcpServer = "running" /\ mcpServer' = "dead"
      /\ UNCHANGED <<mcpKept, mcpIn, mcpOut, mcpPc, mcpConnected, mcpNextId, mcpWaits, mcpShared>>
  BY DEF McpServerDies
<1>2. McpWaiting' = McpWaiting
  BY <1>1 DEF McpWaiting
<1>3. McpTypes'
  BY <1>1, <1>2 DEF McpInv, McpTypes
<1>4. McpCounted'
  <2>1. Len(mcpIn) \in Nat /\ Len(mcpOut) \in Nat /\ Cardinality(McpWaiting) \in Nat
    BY FS_CardinalityType DEF McpInv, McpTypes
  <2>2. Len(mcpIn) + Len(mcpOut) <= Cardinality(McpWaiting)
    BY <1>1 DEF McpInv, McpCounted
  <2>3. Len(mcpOut) <= Cardinality(McpWaiting)
    BY <2>1, <2>2
  <2> QED BY <1>1, <1>2, <2>3 DEF McpCounted
<1>5. McpUnshared' /\ McpRequests'
  BY <1>1, <1>2 DEF McpInv, McpUnshared, McpAlone, McpRequests
<1>6. McpStaged'
  BY <1>1, <1>2 DEF McpInv, McpStaged, mcpKept
<1> QED
  BY <1>1, <1>3, <1>4, <1>5, <1>6 DEF McpInv, mcpKept

\* The invariant holds of every behaviour of the client and its server.
LEMMA McpInvHolds == McpSpec => []McpInv
<1>1. McpInv /\ [McpNext]_mcpVars => McpInv'
  <2> SUFFICES ASSUME McpInv, [McpNext]_mcpVars PROVE McpInv'
    OBVIOUS
  <2>1. ASSUME NEW started \in BOOLEAN, McpStart(started) PROVE McpInv'
    BY <2>1, McpStartKeeps
  <2>2. CASE McpSendRequest \/ McpNotify
    BY <2>2, McpAskKeeps
  <2>3. CASE McpInitialized
    BY <2>3, McpInitializedKeeps
  <2>4. CASE McpNotified
    BY <2>4, McpNotifiedKeeps
  <2>5. ASSUME NEW tools \in SUBSET McpTools, McpListTools(tools) PROVE McpInv'
    BY <2>5, McpListToolsKeeps
  <2>6. ASSUME NEW t \in McpCallers, McpCallTool(t) PROVE McpInv'
    BY <2>6, McpCallToolKeeps
  <2>7. ASSUME NEW t \in McpCallers, NEW tool \in McpTools, McpToolAdapter(t, tool)
        PROVE  McpInv'
    BY <2>7, McpToolAdapterKeeps
  <2>8. CASE McpEnd
    BY <2>8, McpEndKeeps
  <2>9. ASSUME NEW error \in BOOLEAN, McpServerReads(error) PROVE McpInv'
    BY <2>9, McpServerReadsKeeps
  <2>10. CASE McpServerDies
    BY <2>10, McpServerDiesKeeps
  <2>11. CASE UNCHANGED mcpVars
    BY <2>11 DEF mcpVars, McpInv, McpTypes, McpCounted, McpUnshared, McpAlone, McpRequests,
                 McpStaged, McpWaiting
  <2> QED
    BY <2>1, <2>2, <2>3, <2>4, <2>5, <2>6, <2>7, <2>8, <2>9, <2>10, <2>11 DEF McpNext, McpClient
<1> QED
  BY <1>1, McpInitHolds, PTL DEF McpSpec

(***************************************************************************)
(* McpAnswersAreOwn, for any number of threads, calls and tools and either *)
(* kind of server: as many lines are under way as threads wait, and a      *)
(* thread that shares the client with nobody waits alone                   *)
(* (McpClient::send_request, McpToolAdapter).                              *)
(***************************************************************************)
THEOREM McpAnswersOwn == McpSpec => []McpAnswersAreOwn
<1>1. McpInv => McpAnswersAreOwn
  BY DEF McpInv, McpStaged, McpAnswersAreOwn
<1> QED
  BY <1>1, McpInvHolds, PTL

\* Where the assembly is, what is registered and how often tools were called.
McpPcs == {"start", "initialize", "initialized", "list", "cancelled", "ready",
           "skipped", "ended", "killed"}
McpPlaced == mcpPc \in McpPcs /\ mcpRegistered \subseteq McpTools /\ mcpCalls \in 0..McpMaxCalls

\* The client has its types (StdioTransport, McpClient, register_mcp_tools).
LEMMA McpTypesHold == McpSpec => []McpTypeOK
<1>0. McpMaxCalls \in Nat
  BY McpAssumption
<1>1. McpInit => McpPlaced
  BY <1>0 DEF McpInit, McpPlaced, McpPcs
<1>2. McpPlaced /\ [McpNext]_mcpVars => McpPlaced'
  <2> SUFFICES ASSUME McpPlaced, [McpNext]_mcpVars PROVE McpPlaced'
    OBVIOUS
  <2>1. mcpPc' \in McpPcs
    BY DEF McpPlaced, McpPcs, McpNext, mcpVars, McpClient, McpStart, McpSendRequest, McpNotify,
           McpSend, McpInitialized, McpNotified, McpListTools, McpCallTool, McpToolAdapter,
           McpEnd,
           McpServerReads, McpServerDies
  <2>2. mcpRegistered' = mcpRegistered \/ mcpRegistered' \in SUBSET McpTools
    BY DEF McpNext, mcpVars, mcpKept, McpClient, McpStart, McpSendRequest, McpNotify,
           McpInitialized,
           McpNotified, McpListTools, McpCallTool, McpToolAdapter, McpEnd, McpServerReads,
           McpServerDies
  <2>3. mcpCalls' = mcpCalls \/ (mcpCalls < McpMaxCalls /\ mcpCalls' = mcpCalls + 1)
    BY DEF McpNext, mcpVars, mcpKept, McpClient, McpStart, McpSendRequest, McpNotify,
           McpInitialized,
           McpNotified, McpListTools, McpCallTool, McpToolAdapter, McpEnd, McpServerReads,
           McpServerDies
  <2>4. mcpCalls \in 0..McpMaxCalls
    BY DEF McpPlaced
  <2>5. mcpCalls' \in 0..McpMaxCalls
    BY ONLY <1>0, <2>3, <2>4
  <2> QED BY <2>1, <2>2, <2>5 DEF McpPlaced
<1>3. McpInv /\ McpPlaced => McpTypeOK
  BY DEF McpInv, McpTypes, McpPlaced, McpPcs, McpTypeOK
<1> QED
  BY <1>1, <1>2, <1>3, McpInvHolds, PTL DEF McpSpec

-----------------------------------------------------------------------------
(* The fact memory: entity queries answer from the contents *)

FactRowFields == {"content", "trust", "vector"}
FactCallFields == {"op", "pc", "id", "content", "trust", "todo"}
FactOwning == {"unlink", "ensure", "link"}

FactCallOK(call) ==
  DOMAIN call = FactCallFields /\ (call = FactIdle \/ call.pc # "idle")
FactCalls ==
  DOMAIN factCall = FactThreads /\ \A t \in FactThreads : FactCallOK(factCall[t])

FactTables ==
  /\ factNextId \in Nat \ {0} /\ factOps \in Nat
  /\ factOps <= FactMaxOps /\ factNextId <= factOps + 1
  /\ DOMAIN facts \subseteq 1..(factNextId - 1)
  /\ \A id \in DOMAIN facts : DOMAIN facts[id] = FactRowFields
  /\ IsFiniteSet(DOMAIN factEntities)
  /\ \A e \in DOMAIN factEntities : factEntities[e] \in 1..Cardinality(DOMAIN factEntities)
  /\ \A e, f \in DOMAIN factEntities : factEntities[e] = factEntities[f] => e = f
  /\ \A id, k : <<id, k>> \in factLinks =>
       id \in 1..(factNextId - 1) /\ \E e \in DOMAIN factEntities : factEntities[e] = k

\* The fact an operation is at work on, whose links are not yet those of its content.
FactOwn(call) ==
  IF call.pc = "rowid" THEN {factLastRow}
  ELSE IF call.pc \in FactOwning THEN {call.id} ELSE {}

FactLinked(own) ==
  \A id \in DOMAIN facts \ own : FactLinksOf(id) = Extract(facts[id].content)

FactStage(call) ==
  /\ call.pc \in {"check", "insert"} => factNextId <= factOps
  /\ call.pc = "rowid" =>
       /\ factLastRow \in DOMAIN facts /\ FactLinksOf(factLastRow) = {}
       /\ facts[factLastRow].content = call.content
  /\ call.pc \in FactOwning =>
       call.id \in DOMAIN facts /\ facts[call.id].content = call.content
  /\ call.pc \in {"ensure", "link"} =>
       /\ call.todo \subseteq Extract(call.content)
       /\ FactLinksOf(call.id) = Extract(call.content) \ call.todo
  /\ call.pc = "link" =>
       call.todo # {} /\ (CHOOSE e \in call.todo : TRUE) \in DOMAIN factEntities

FactAlone(t) == FactLinked(FactOwn(factCall[t])) /\ FactStage(factCall[t])

FactInv ==
  /\ FactCalls
  /\ ~factOverlap =>
       /\ FactTables
       /\ \A t, u \in FactBusy : t = u
       /\ \A t \in FactBusy : FactAlone(t)
       /\ FactBusy = {} => FactLinked({})

LEMMA FactInitHolds == FactInit => FactInv
<1> SUFFICES ASSUME FactInit PROVE FactInv
  OBVIOUS
<1>1. DOMAIN facts = {} /\ DOMAIN factEntities = {} /\ factLinks = {}
  BY DEF FactInit
<1>2. FactCalls
  BY DEF FactInit, FactCalls, FactCallOK, FactIdle, FactCallFields
<1>3. FactBusy = {}
  BY DEF FactInit, FactBusy
<1>4. IsFiniteSet(DOMAIN factEntities)
  BY <1>1, FS_EmptySet
<1>5. FactTables
  BY <1>1, <1>4, FactAssumption DEF FactInit, FactTables
<1>6. FactLinked({})
  BY <1>1 DEF FactLinked
<1> QED
  BY <1>2, <1>3, <1>5, <1>6 DEF FactInv

-----------------------------------------------------------------------------
\* What the next step of an operation must leave, when it is alone.
FactAfter(call) ==
  /\ FactTables'
  /\ call = FactIdle => FactLinked({})'
  /\ call # FactIdle => FactLinked(FactOwn(call))' /\ FactStage(call)'

LEMMA FactStepKeeps ==
  ASSUME FactInv, NEW t \in FactThreads, factCall[t] # FactIdle, NEW call, FactGo(t, call),
         FactCallOK(call), factOverlap' = factOverlap, ~factOverlap => FactAfter(call)
  PROVE  FactInv'
<1>1. /\ DOMAIN factCall' = FactThreads /\ factCall'[t] = call
      /\ \A u \in FactThreads \ {t} : factCall'[u] = factCall[u]
  BY DEF FactGo, FactInv, FactCalls
<1>2. FactCalls'
  BY <1>1 DEF FactInv, FactCalls, FactCallOK
<1>3. SUFFICES ASSUME ~factOverlap
               PROVE  /\ FactTables' /\ \A u, v \in FactBusy' : u = v
                      /\ \A u \in FactBusy' : FactAlone(u)'
                      /\ FactBusy' = {} => FactLinked({})'
  BY <1>2 DEF FactInv
<1>4. FactBusy = {t} /\ FactAfter(call)
  BY <1>3 DEF FactInv, FactBusy
<1>5. FactBusy' = IF call = FactIdle THEN {} ELSE {t}
  BY <1>1, <1>4 DEF FactBusy
<1>6. CASE call = FactIdle
  BY <1>4, <1>5, <1>6 DEF FactAfter
<1>7. CASE call # FactIdle
  <2>1. FactAlone(t)'
    <3>1. FactLinked(FactOwn(call))' /\ FactStage(call)'
      BY <1>4, <1>7 DEF FactAfter
    <3>2. FactOwn(factCall[t])' = FactOwn(call)'
      BY <1>1 DEF FactOwn
    <3>3. FactStage(factCall[t])' <=> FactStage(call)'
      BY <1>1 DEF FactStage, FactLinksOf
    <3> QED BY <3>1, <3>2, <3>3 DEF FactAlone, FactLinked
  <2> QED BY <1>4, <1>5, <1>7, <2>1 DEF FactAfter
<1> QED
  BY <1>6, <1>7

LEMMA FactBeginKeeps ==
  ASSUME FactInv, NEW t \in FactThreads, NEW op, NEW id, NEW content, NEW trust,
         NEW pc \in {"check", "update", "remove", "feedback"},
         FactBegin(t, op, pc, id, content, trust)
  PROVE  FactInv'
<1> DEFINE call == [op |-> op, pc |-> pc, id |-> id, content |-> content, trust |-> trust,
                    todo |-> {}]
<1>1. /\ factCall[t] = FactIdle /\ factOps < FactMaxOps /\ factOps' = factOps + 1
      /\ factCall' = [factCall EXCEPT ![t] = call]
      /\ (factOverlap' <=> factOverlap \/ FactBusy # {})
      /\ UNCHANGED <<facts, factEntities, factLinks, factNextId, factLastRow>>
  BY Zenon DEF FactBegin, FactGo
<1>2. call.pc = pc /\ DOMAIN call = FactCallFields /\ call # FactIdle
  <2>1. call.pc = pc /\ FactIdle.pc = "idle"
    BY DEF FactIdle
  <2> QED BY <2>1 DEF FactCallFields
<1> HIDE DEF call
<1>3. /\ DOMAIN factCall' = FactThreads /\ factCall'[t] = call
      /\ \A u \in FactThreads \ {t} : factCall'[u] = factCall[u]
  BY <1>1 DEF FactInv, FactCalls
<1>4. FactCalls'
  BY <1>2, <1>3 DEF FactInv, FactCalls, FactCallOK
<1>5. SUFFICES ASSUME ~factOverlap'
               PROVE  FactTables' /\ FactBusy' = {t} /\ FactAlone(t)'
  BY <1>4 DEF FactInv
<1>6. FactBusy = {} /\ ~factOverlap
  BY <1>1, <1>5
<1>7. FactTables /\ FactLinked({})
  BY <1>6 DEF FactInv
<1>8. FactTables'
  <2>1. factOps' \in Nat /\ factOps' <= FactMaxOps /\ factNextId' <= factOps' + 1
    BY <1>1, <1>7, FactAssumption DEF FactTables
  <2> QED BY <1>1, <1>7, <2>1 DEF FactTables
<1>9. FactBusy' = {t}
  BY <1>2, <1>3, <1>6 DEF FactBusy
<1>10. FactLinked(FactOwn(factCall[t]))'
  BY <1>1, <1>2, <1>3, <1>7 DEF FactLinked, FactLinksOf, FactOwn, FactOwning
<1>11. factNextId' <= factOps'
  BY <1>1, <1>7 DEF FactTables
<1>12. FactStage(factCall[t])'
  BY <1>2, <1>3, <1>11 DEF FactStage, FactOwning
<1> QED
  BY <1>8, <1>9, <1>10, <1>12 DEF FactAlone

\* A call that goes on: its record with some of its fields changed.
LEMMA FactCallMoves ==
  ASSUME NEW c, DOMAIN c = FactCallFields, NEW pc, pc # "idle",
         NEW next, next = [c EXCEPT !.pc = pc]
  PROVE  /\ FactCallOK(next) /\ next.pc = pc /\ next.id = c.id
         /\ next.content = c.content /\ next.todo = c.todo /\ next # FactIdle
BY DEF FactCallOK, FactCallFields, FactIdle

LEMMA FactCallLists ==
  ASSUME NEW c, DOMAIN c = FactCallFields, NEW pc, pc # "idle", NEW todo,
         NEW next, next = [c EXCEPT !.pc = pc, !.todo = todo]
  PROVE  /\ FactCallOK(next) /\ next.pc = pc /\ next.id = c.id
         /\ next.content = c.content /\ next.todo = todo /\ next # FactIdle
BY DEF FactCallOK, FactCallFields, FactIdle

LEMMA FactCallRates ==
  ASSUME NEW c, DOMAIN c = FactCallFields, NEW pc, pc # "idle", NEW trust,
         NEW next, next = [c EXCEPT !.pc = pc, !.trust = trust]
  PROVE  FactCallOK(next) /\ next.pc = pc /\ next # FactIdle
BY DEF FactCallOK, FactCallFields, FactIdle

LEMMA FactIdleOK == FactCallOK(FactIdle) /\ FactIdle.pc = "idle"
BY DEF FactCallOK, FactCallFields, FactIdle

\* An operation whose call is at pc, alone.
LEMMA FactAtAlone ==
  ASSUME FactInv, NEW t \in FactThreads, NEW pc, pc # "idle", FactAt(t, pc)
  PROVE  /\ factCall[t] # FactIdle /\ DOMAIN factCall[t] = FactCallFields
         /\ ~factOverlap => FactTables /\ FactAlone(t)
BY FactIdleOK DEF FactInv, FactCalls, FactCallOK, FactAt, FactBusy

\* A step that changes no table: what was linked is.
LEMMA FactTablesStay ==
  ASSUME UNCHANGED <<facts, factEntities, factLinks, factNextId, factOps>>
  PROVE  /\ FactTables => FactTables'
         /\ \A own : FactLinked(own) => FactLinked(own)'
         /\ \A id : FactLinksOf(id)' = FactLinksOf(id)
<1>1. FactTables => FactTables'
  BY DEF FactTables
<1>2. \A id : FactLinksOf(id)' = FactLinksOf(id)
  BY DEF FactLinksOf
<1> QED
  BY <1>1, <1>2 DEF FactLinked

LEMMA FactCheckKeeps ==
  ASSUME FactInv, NEW t \in FactThreads, FactCheck(t)
  PROVE  FactInv'
<1> SUFFICES ASSUME NEW c, c = factCall[t] PROVE FactInv'
  OBVIOUS
<1>1. PICK next : next = [c EXCEPT !.pc = "insert"]
  OBVIOUS
<1>2. PICK call : call = (IF FactHas(c.content) THEN FactIdle ELSE next)
  OBVIOUS
<1>3. /\ c.pc = "check" /\ FactAt(t, "check") /\ FactGo(t, call)
      /\ factOverlap' = factOverlap
      /\ UNCHANGED <<facts, factEntities, factLinks, factNextId, factOps>>
  BY <1>1, <1>2 DEF FactCheck, FactAt
<1>4. /\ c # FactIdle /\ DOMAIN c = FactCallFields
      /\ ~factOverlap => FactTables /\ FactAlone(t)
  BY <1>3, FactAtAlone
<1>5. FactCallOK(next) /\ next.pc = "insert"
  BY <1>1, <1>4, FactCallMoves
<1>6. ASSUME ~factOverlap PROVE FactAfter(call)
  <2>1. FactTables /\ FactLinked({}) /\ factNextId <= factOps
    BY <1>3, <1>4, <1>6 DEF FactAlone, FactOwn, FactOwning, FactStage
  <2>2. FactTables' /\ FactLinked({})'
    BY <1>3, <2>1, FactTablesStay
  <2>3. FactOwn(next)' = {} /\ FactStage(next)'
    BY <1>3, <1>5, <2>1 DEF FactOwn, FactOwning, FactStage
  <2> QED BY <1>2, <2>2, <2>3 DEF FactAfter, FactLinked
<1>7. FactCallOK(call)
  BY <1>2, <1>5, FactIdleOK
<1> QED
  BY <1>3, <1>4, <1>6, <1>7, FactStepKeeps

\* A step after which the facts have the contents they had, and the links are the same.
LEMMA FactContentsStay ==
  ASSUME FactTables, DOMAIN facts' = DOMAIN facts,
         \A id \in DOMAIN facts : /\ facts'[id].content = facts[id].content
                                  /\ DOMAIN facts'[id] = FactRowFields,
         UNCHANGED <<factEntities, factLinks, factNextId, factOps>>
  PROVE  /\ FactTables'
         /\ \A own : FactLinked(own) => FactLinked(own)'
         /\ \A id : FactLinksOf(id)' = FactLinksOf(id)
<1>1. FactTables'
  BY DEF FactTables
<1>2. \A id : FactLinksOf(id)' = FactLinksOf(id)
  BY DEF FactLinksOf
<1> QED
  BY <1>1, <1>2 DEF FactLinked

LEMMA FactInsertKeeps ==
  ASSUME FactInv, NEW t \in FactThreads, FactInsert(t)
  PROVE  FactInv'
<1> SUFFICES ASSUME NEW c, c = factCall[t], NEW n, n = factNextId PROVE FactInv'
  OBVIOUS
<1>1. PICK next : next = [c EXCEPT !.pc = "rowid"]
  OBVIOUS
<1>2. PICK call : call = (IF FactHas(c.content) THEN FactIdle ELSE next)
  OBVIOUS
<1>3. /\ c.pc = "insert" /\ FactAt(t, "insert") /\ FactGo(t, call)
      /\ factOverlap' = factOverlap
      /\ UNCHANGED <<factEntities, factLinks, factOps>>
  BY <1>1, <1>2 DEF FactInsert, FactAt
<1>4. /\ c # FactIdle /\ DOMAIN c = FactCallFields
      /\ ~factOverlap => FactTables /\ FactAlone(t)
  BY <1>3, FactAtAlone
<1>5. FactCallOK(next) /\ next.pc = "rowid" /\ next.content = c.content /\ next # FactIdle
  BY <1>1, <1>4, FactCallMoves
<1>6. ASSUME ~factOverlap PROVE FactAfter(call)
  <2>1. FactTables /\ FactLinked({}) /\ factNextId <= factOps
    BY <1>3, <1>4, <1>6 DEF FactAlone, FactOwn, FactOwning, FactStage
  <2>2. CASE FactHas(c.content)
    <3>1. UNCHANGED <<facts, factEntities, factLinks, factNextId, factOps>>
      BY <1>3, <2>2 DEF FactInsert
    <3>2. FactTables' /\ FactLinked({})'
      BY <2>1, <3>1, FactTablesStay
    <3> QED BY <1>2, <2>2, <3>2 DEF FactAfter
  <2>3. CASE ~FactHas(c.content)
    <3>1. /\ DOMAIN facts' = DOMAIN facts \cup {n}
          /\ facts'[n] = [content |-> c.content, trust |-> c.trust, vector |-> ""]
          /\ \A id \in DOMAIN facts \ {n} : facts'[id] = facts[id]
      BY <2>3 DEF FactInsert
    <3>2. factNextId' = n + 1
      BY <2>3 DEF FactInsert
    <3>3. factLastRow' = n
      BY <2>3 DEF FactInsert
    <3>4. n \in Nat \ {0} /\ n <= factOps /\ factOps \in Nat
      BY <2>1 DEF FactTables
    <3>5. DOMAIN facts \subseteq 1..(n - 1) /\ n \notin DOMAIN facts
      BY <2>1, <3>4 DEF FactTables
    <3>6. FactTables'
      <4>1. DOMAIN facts' \subseteq 1..n
        <5>1. \A id \in (1..(n - 1)) \cup {n} : id \in 1..n
          BY ONLY <3>4
        <5> QED BY ONLY <3>1, <3>5, <5>1
      <4>2. \A id \in DOMAIN facts' : DOMAIN facts'[id] = FactRowFields
        <5>1. DOMAIN facts'[n] = FactRowFields
          BY ONLY <3>1 DEF FactRowFields
        <5>2. \A id \in DOMAIN facts : DOMAIN facts[id] = FactRowFields
          BY <2>1 DEF FactTables
        <5> QED BY <3>1, <5>1, <5>2
      <4>3. /\ factNextId' \in Nat \ {0} /\ factNextId' <= factOps + 1
            /\ factNextId' - 1 = n
        BY ONLY <3>2, <3>4
      <4>4. \A id, k : <<id, k>> \in factLinks =>
              id \in 1..(n - 1) /\ \E e \in DOMAIN factEntities : factEntities[e] = k
        BY <2>1 DEF FactTables
      <4>5. \A id, k : <<id, k>> \in factLinks =>
              id \in 1..n /\ \E e \in DOMAIN factEntities : factEntities[e] = k
        BY ONLY <4>4, <3>4
      <4> QED BY <1>3, <2>1, <4>1, <4>2, <4>3, <4>5 DEF FactTables
    <3>7. FactLinked({n})'
      <4>1. \A id : FactLinksOf(id)' = FactLinksOf(id)
        BY <1>3 DEF FactLinksOf
      <4> QED BY <2>1, <3>1, <3>5, <4>1 DEF FactLinked
    <3>8. \A e \in DOMAIN factEntities : <<n, factEntities[e]>> \notin factLinks
      BY <2>1, <3>4 DEF FactTables
    <3>9. FactOwn(next)' = {n}
      BY <1>5, <3>3 DEF FactOwn
    <3>10. FactStage(next)'
      <4>1. FactLinksOf(factLastRow)' = {}
        BY <1>3, <3>3, <3>8 DEF FactLinksOf
      <4>2. factLastRow' \in DOMAIN facts' /\ facts'[factLastRow'].content = c.content
        <5>1. n \in DOMAIN facts'
          BY <3>1
        <5>2. [content |-> c.content, trust |-> c.trust, vector |-> ""].content = c.content
          OBVIOUS
        <5>3. facts'[n].content = c.content
          BY ONLY <3>1, <5>2, Zenon
        <5> QED BY <3>3, <5>1, <5>3
      <4> QED BY <1>5, <4>1, <4>2 DEF FactStage, FactOwning
    <3> QED BY <1>2, <1>5, <2>3, <3>6, <3>7, <3>9, <3>10 DEF FactAfter, FactLinked
  <2> QED BY <2>2, <2>3
<1>7. FactCallOK(call)
  BY <1>2, <1>5, FactIdleOK
<1> QED
  BY <1>3, <1>4, <1>6, <1>7, FactStepKeeps

LEMMA FactRowIdKeeps ==
  ASSUME FactInv, NEW t \in FactThreads, FactRowId(t)
  PROVE  FactInv'
<1> SUFFICES ASSUME NEW c, c = factCall[t], NEW row, row = factLastRow PROVE FactInv'
  OBVIOUS
<1>1. PICK names : names = Extract(c.content)
  OBVIOUS
<1>2. PICK next : next = [c EXCEPT !.pc = "ensure", !.id = row, !.todo = names]
  OBVIOUS
<1>3. /\ c.pc = "rowid" /\ FactAt(t, "rowid") /\ FactGo(t, next)
      /\ factOverlap' = factOverlap
      /\ UNCHANGED <<facts, factEntities, factLinks, factNextId, factOps>>
  BY <1>1, <1>2 DEF FactRowId, FactAt
<1>4. /\ c # FactIdle /\ DOMAIN c = FactCallFields
      /\ ~factOverlap => FactTables /\ FactAlone(t)
  BY <1>3, FactAtAlone
<1>5. /\ FactCallOK(next) /\ next.pc = "ensure" /\ next.id = row
      /\ next.content = c.content /\ next.todo = names /\ next # FactIdle
  BY ONLY <1>2, <1>4 DEF FactCallOK, FactCallFields, FactIdle
<1>6. ASSUME ~factOverlap PROVE FactAfter(next)
  <2>1. /\ FactTables /\ FactLinked({row})
        /\ row \in DOMAIN facts /\ FactLinksOf(row) = {} /\ facts[row].content = c.content
    BY <1>3, <1>4, <1>6 DEF FactAlone, FactOwn, FactStage
  <2>2. FactTables' /\ FactLinked({row})' /\ \A id : FactLinksOf(id)' = FactLinksOf(id)
    BY <1>3, <2>1, FactTablesStay
  <2>3. FactOwn(next)' = {row} /\ FactStage(next)'
    BY <1>1, <1>3, <1>5, <2>1, <2>2 DEF FactOwn, FactOwning, FactStage
  <2> QED BY <1>5, <2>2, <2>3 DEF FactAfter, FactLinked
<1> QED
  BY <1>3, <1>4, <1>5, <1>6, FactStepKeeps

\* An entity is added: nothing is linked to it yet.
LEMMA FactEntityAdded ==
  ASSUME FactTables, NEW e, e \notin DOMAIN factEntities,
         factEntities' = [f \in DOMAIN factEntities \cup {e} |->
                            IF f = e THEN Cardinality(DOMAIN factEntities) + 1
                            ELSE factEntities[f]],
         UNCHANGED <<facts, factLinks, factNextId, factOps>>
  PROVE  /\ FactTables'
         /\ \A own : FactLinked(own) => FactLinked(own)'
         /\ \A id : FactLinksOf(id)' = FactLinksOf(id)
<1> SUFFICES ASSUME NEW m, m = Cardinality(DOMAIN factEntities), NEW D, D = DOMAIN factEntities
             PROVE  /\ FactTables'
                    /\ \A own : FactLinked(own) => FactLinked(own)'
                    /\ \A id : FactLinksOf(id)' = FactLinksOf(id)
  OBVIOUS
<1>1. IsFiniteSet(D) /\ m \in Nat
  <2>1. IsFiniteSet(D)
    BY DEF FactTables
  <2> QED BY <2>1, FS_CardinalityType
<1>2. IsFiniteSet(D \cup {e}) /\ Cardinality(D \cup {e}) = m + 1
  BY <1>1, FS_AddElement
<1>3. /\ DOMAIN factEntities' = D \cup {e} /\ factEntities'[e] = m + 1
      /\ \A f \in D : factEntities'[f] = factEntities[f]
  OBVIOUS
<1>4. \A f \in D : factEntities[f] \in 1..m
  BY DEF FactTables
<1>5. \A f \in D \cup {e} : factEntities'[f] \in 1..(m + 1)
  <2>1. m + 1 \in 1..(m + 1) /\ \A k \in 1..m : k \in 1..(m + 1)
    BY ONLY <1>1
  <2> QED BY <1>3, <1>4, <2>1
<1>6. \A f, g \in D \cup {e} : factEntities'[f] = factEntities'[g] => f = g
  <2>1. \A f, g \in D : factEntities[f] = factEntities[g] => f = g
    BY DEF FactTables
  <2>2. m + 1 \notin 1..m
    BY ONLY <1>1
  <2> QED BY <1>3, <1>4, <2>1, <2>2
<1>7. \A id, k : <<id, k>> \in factLinks =>
        id \in 1..(factNextId - 1) /\ \E f \in D : factEntities[f] = k
  BY DEF FactTables
<1>8. \A id, k : <<id, k>> \in factLinks' =>
        id \in 1..(factNextId' - 1) /\ \E f \in DOMAIN factEntities' : factEntities'[f] = k
  BY <1>3, <1>7
<1>9. FactTables'
  BY <1>2, <1>3, <1>5, <1>6, <1>8 DEF FactTables
<1>10. \A id : <<id, m + 1>> \notin factLinks
  <2>1. m + 1 \notin 1..m
    BY ONLY <1>1
  <2> QED BY <1>4, <1>7, <2>1
<1>11. \A id : FactLinksOf(id)' = FactLinksOf(id)
  BY <1>3, <1>10 DEF FactLinksOf
<1> QED
  BY <1>9, <1>11 DEF FactLinked

LEMMA EnsureEntityKeeps ==
  ASSUME FactInv, NEW t \in FactThreads, EnsureEntity(t)
  PROVE  FactInv'
<1> SUFFICES ASSUME NEW c, c = factCall[t] PROVE FactInv'
  OBVIOUS
<1>1. PICK next : next = [c EXCEPT !.pc = "link"]
  OBVIOUS
<1>2. PICK e : e = CHOOSE x \in c.todo : TRUE
  OBVIOUS
<1>3. /\ c.pc = "ensure" /\ FactAt(t, "ensure") /\ FactGo(t, next)
      /\ factOverlap' = factOverlap /\ c.todo # {}
      /\ UNCHANGED <<facts, factLinks, factNextId, factOps>>
  BY <1>1 DEF EnsureEntity, FactAt
<1>4. \/ e \in DOMAIN factEntities /\ UNCHANGED factEntities
      \/ /\ e \notin DOMAIN factEntities
         /\ factEntities' = [f \in DOMAIN factEntities \cup {e} |->
                               IF f = e THEN Cardinality(DOMAIN factEntities) + 1
                               ELSE factEntities[f]]
  BY <1>2 DEF EnsureEntity, FactNextName
<1>5. /\ c # FactIdle /\ DOMAIN c = FactCallFields
      /\ ~factOverlap => FactTables /\ FactAlone(t)
  BY <1>3, FactAtAlone
<1>6. /\ FactCallOK(next) /\ next.pc = "link" /\ next.id = c.id
      /\ next.content = c.content /\ next.todo = c.todo /\ next # FactIdle
  BY <1>1, <1>5, FactCallMoves
<1>7. ASSUME ~factOverlap PROVE FactAfter(next)
  <2>1. /\ FactTables /\ FactLinked({c.id})
        /\ c.id \in DOMAIN facts /\ facts[c.id].content = c.content
        /\ c.todo \subseteq Extract(c.content)
        /\ FactLinksOf(c.id) = Extract(c.content) \ c.todo
    BY <1>3, <1>5, <1>7 DEF FactAlone, FactOwn, FactOwning, FactStage
  <2>2. /\ FactTables'
        /\ \A own : FactLinked(own) => FactLinked(own)'
        /\ \A id : FactLinksOf(id)' = FactLinksOf(id)
    <3>1. CASE UNCHANGED factEntities
      BY <1>3, <2>1, <3>1, FactTablesStay
    <3>2. CASE ~UNCHANGED factEntities
      BY <1>3, <1>4, <2>1, <3>2, FactEntityAdded
    <3> QED BY <3>1, <3>2
  <2>3. FactOwn(next)' = {c.id}
    BY <1>6 DEF FactOwn, FactOwning
  <2>4. (CHOOSE x \in next.todo : TRUE) \in DOMAIN factEntities'
    BY <1>2, <1>4, <1>6
  <2>5. FactStage(next)'
    BY <1>3, <1>6, <2>1, <2>2, <2>4 DEF FactStage, FactOwning
  <2> QED BY <1>6, <2>1, <2>2, <2>3, <2>5 DEF FactAfter, FactLinked
<1> QED
  BY <1>3, <1>5, <1>6, <1>7, FactStepKeeps

LEMMA LinkFactEntityKeeps ==
  ASSUME FactInv, NEW t \in FactThreads, LinkFactEntity(t)
  PROVE  FactInv'
<1> SUFFICES ASSUME NEW c, c = factCall[t] PROVE FactInv'
  OBVIOUS
<1>1. PICK e : e = CHOOSE x \in c.todo : TRUE
  OBVIOUS
<1>2. PICK names : names = c.todo \ {e}
  OBVIOUS
<1>3. PICK next : next = [c EXCEPT !.pc = "ensure", !.todo = names]
  OBVIOUS
<1>4. PICK k : k = factEntities[e]
  OBVIOUS
<1>5. /\ c.pc = "link" /\ FactAt(t, "link")
      /\ factLinks' = factLinks \cup {<<c.id, k>>}
      /\ factOverlap' = factOverlap
      /\ UNCHANGED <<facts, factEntities, factNextId, factOps>>
  BY <1>1, <1>4 DEF LinkFactEntity, FactAt, FactNextName
<1>6. /\ c # FactIdle /\ DOMAIN c = FactCallFields
      /\ ~factOverlap => FactTables /\ FactAlone(t)
  BY <1>5, FactAtAlone
<1>7. FactGo(t, next)
  <2>1. [c EXCEPT !.pc = "ensure", !.todo = @ \ {e}] = next
    BY <1>2, <1>3, <1>6 DEF FactCallFields
  <2> QED BY <1>1, <2>1 DEF LinkFactEntity, FactNextName
<1>8. /\ FactCallOK(next) /\ next.pc = "ensure" /\ next.id = c.id
      /\ next.content = c.content /\ next.todo = names /\ next # FactIdle
  BY ONLY <1>3, <1>6 DEF FactCallOK, FactCallFields, FactIdle
<1>9. ASSUME ~factOverlap PROVE FactAfter(next)
  <2>1. /\ FactTables /\ FactLinked({c.id})
        /\ c.id \in DOMAIN facts /\ facts[c.id].content = c.content
        /\ c.todo \subseteq Extract(c.content)
        /\ FactLinksOf(c.id) = Extract(c.content) \ c.todo
        /\ c.todo # {} /\ e \in DOMAIN factEntities
    BY <1>1, <1>5, <1>6, <1>9 DEF FactAlone, FactOwn, FactOwning, FactStage
  <2>2. e \in c.todo
    BY <1>1, <2>1
  <2>3. /\ DOMAIN facts \subseteq 1..(factNextId - 1)
        /\ \A f, g \in DOMAIN factEntities : factEntities[f] = factEntities[g] => f = g
        /\ \A id, j : <<id, j>> \in factLinks =>
             id \in 1..(factNextId - 1) /\ \E f \in DOMAIN factEntities : factEntities[f] = j
    BY <2>1 DEF FactTables
  <2>4. FactTables'
    <3>1. \A id, j : <<id, j>> \in factLinks' =>
            id \in 1..(factNextId - 1) /\ \E f \in DOMAIN factEntities : factEntities[f] = j
      BY <1>4, <1>5, <2>1, <2>3
    <3> QED BY <1>5, <2>1, <3>1 DEF FactTables
  <2>5. \A id : id # c.id => FactLinksOf(id)' = FactLinksOf(id)
    BY <1>5 DEF FactLinksOf
  <2>6. FactLinksOf(c.id)' = FactLinksOf(c.id) \cup {e}
    BY <1>4, <1>5, <2>1, <2>3 DEF FactLinksOf
  <2>7. FactOwn(next)' = {c.id}
    BY <1>8 DEF FactOwn, FactOwning
  <2>8. FactStage(next)'
    <3>1. names \subseteq Extract(c.content)
          /\ FactLinksOf(c.id)' = Extract(c.content) \ names
      BY <1>2, <2>1, <2>2, <2>6
    <3> QED BY <1>5, <1>8, <2>1, <3>1 DEF FactStage, FactOwning
  <2> QED BY <1>5, <1>8, <2>1, <2>4, <2>5, <2>7, <2>8 DEF FactAfter, FactLinked
<1> QED
  BY <1>5, <1>6, <1>7, <1>8, <1>9, FactStepKeeps

\* A step that ends an operation, and leaves the contents of the facts.
LEMMA FactEndKeeps ==
  ASSUME FactInv, NEW t \in FactThreads, factCall[t] # FactIdle, FactGo(t, FactIdle),
         factOverlap' = factOverlap,
         ~factOverlap => FactTables' /\ FactLinked({})'
  PROVE  FactInv'
<1>1. ~factOverlap => FactAfter(FactIdle)
  BY DEF FactAfter
<1> QED
  BY <1>1, FactIdleOK, FactStepKeeps

LEMMA FactVectorKeeps ==
  ASSUME FactInv, NEW t \in FactThreads, FactVector(t)
  PROVE  FactInv'
<1> SUFFICES ASSUME NEW c, c = factCall[t] PROVE FactInv'
  OBVIOUS
<1>1. /\ c.pc = "ensure" /\ c.todo = {} /\ FactAt(t, "ensure") /\ FactGo(t, FactIdle)
      /\ facts' = (IF c.op \in {"add", "store"} /\ c.id \in DOMAIN facts
                   THEN [facts EXCEPT ![c.id].vector = c.content] ELSE facts)
      /\ factOverlap' = factOverlap
      /\ UNCHANGED <<factEntities, factLinks, factNextId, factOps>>
  BY DEF FactVector, FactAt
<1>2. /\ c # FactIdle
      /\ ~factOverlap => FactTables /\ FactAlone(t)
  BY <1>1, FactAtAlone
<1>3. ASSUME ~factOverlap PROVE FactTables' /\ FactLinked({})'
  <2>1. /\ FactTables /\ FactLinked({c.id}) /\ facts[c.id].content = c.content
        /\ FactLinksOf(c.id) = Extract(c.content)
    BY <1>1, <1>2, <1>3 DEF FactAlone, FactOwn, FactOwning, FactStage
  <2>2. FactLinked({})
    BY <2>1 DEF FactLinked
  <2>3. /\ DOMAIN facts' = DOMAIN facts
        /\ \A id \in DOMAIN facts : /\ facts'[id].content = facts[id].content
                                    /\ DOMAIN facts'[id] = FactRowFields
    <3>1. \A id \in DOMAIN facts : DOMAIN facts[id] = FactRowFields
      BY <2>1 DEF FactTables
    <3> QED BY <1>1, <3>1 DEF FactRowFields
  <2> QED BY <1>1, <2>1, <2>2, <2>3, FactContentsStay
<1> QED
  BY <1>1, <1>2, <1>3, FactEndKeeps

LEMMA FactUpdateKeeps ==
  ASSUME FactInv, NEW t \in FactThreads, FactUpdate(t)
  PROVE  FactInv'
<1> SUFFICES ASSUME NEW c, c = factCall[t] PROVE FactInv'
  OBVIOUS
<1>1. PICK next : next = [c EXCEPT !.pc = "unlink"]
  OBVIOUS
<1>2. PICK changed : changed = (/\ c.id \in DOMAIN facts
                                /\ ~(/\ c.content # "" /\ FactHas(c.content)
                                     /\ FactIdOf(c.content) # c.id))
  OBVIOUS
<1>3. PICK call : call = IF changed /\ c.content # "" THEN next ELSE FactIdle
  OBVIOUS
<1>4. /\ c.pc = "update" /\ FactAt(t, "update") /\ FactGo(t, call)
      /\ facts' = (IF changed
                   THEN [facts EXCEPT ![c.id].content = IF c.content = "" THEN @ ELSE c.content,
                                      ![c.id].trust = FactClamp(@ + c.trust)]
                   ELSE facts)
      /\ factOverlap' = factOverlap
      /\ UNCHANGED <<factEntities, factLinks, factNextId, factOps>>
  BY <1>1, <1>2, <1>3 DEF FactUpdate, FactAt
<1>5. /\ c # FactIdle /\ DOMAIN c = FactCallFields
      /\ ~factOverlap => FactTables /\ FactAlone(t)
  BY <1>4, FactAtAlone
<1>6. FactCallOK(next) /\ next.pc = "unlink" /\ next.id = c.id /\ next.content = c.content
  BY <1>1, <1>5, FactCallMoves
<1>7. ASSUME ~factOverlap PROVE FactAfter(call)
  <2>1. FactTables /\ FactLinked({})
    BY <1>4, <1>5, <1>7 DEF FactAlone, FactOwn, FactOwning
  <2>2. \A id \in DOMAIN facts : DOMAIN facts[id] = FactRowFields
    BY <2>1 DEF FactTables
  <2>3. CASE ~changed
    BY <1>3, <1>4, <2>1, <2>3, FactTablesStay DEF FactAfter
  <2>4. CASE changed
    <3>1. c.id \in DOMAIN facts
      BY <1>2, <2>4
    <3>2. /\ DOMAIN facts' = DOMAIN facts
          /\ \A id \in DOMAIN facts \ {c.id} : facts'[id] = facts[id]
          /\ DOMAIN facts'[c.id] = FactRowFields
          /\ facts'[c.id].content = IF c.content = "" THEN facts[c.id].content ELSE c.content
      BY <1>4, <2>2, <2>4, <3>1 DEF FactRowFields
    <3>3. CASE c.content = ""
      <4>1. FactTables' /\ FactLinked({})'
        BY <1>4, <2>1, <2>2, <3>1, <3>2, <3>3, FactContentsStay
      <4> QED BY <1>3, <3>3, <4>1 DEF FactAfter
    <3>4. CASE c.content # ""
      <4>1. call = next /\ next # FactIdle
        BY <1>3, <1>6, <2>4, <3>4, FactIdleOK
      <4>2. FactTables'
        BY <1>4, <2>1, <2>2, <3>2 DEF FactTables
      <4>3. FactOwn(next)' = {c.id} /\ FactStage(next)'
        BY <1>6, <3>1, <3>2, <3>4 DEF FactOwn, FactOwning, FactStage
      <4>4. \A id : FactLinksOf(id)' = FactLinksOf(id)
        BY <1>4 DEF FactLinksOf
      <4> QED BY <2>1, <3>2, <4>1, <4>2, <4>3, <4>4 DEF FactAfter, FactLinked
    <3> QED BY <3>3, <3>4
  <2> QED BY <2>3, <2>4
<1>8. FactCallOK(call)
  BY <1>3, <1>6, FactIdleOK
<1> QED
  BY <1>4, <1>5, <1>7, <1>8, FactStepKeeps

LEMMA FactUnlinkKeeps ==
  ASSUME FactInv, NEW t \in FactThreads, FactUnlink(t)
  PROVE  FactInv'
<1> SUFFICES ASSUME NEW c, c = factCall[t] PROVE FactInv'
  OBVIOUS
<1>1. PICK names : names = Extract(c.content)
  OBVIOUS
<1>2. PICK next : next = [c EXCEPT !.pc = "ensure", !.todo = names]
  OBVIOUS
<1>3. /\ c.pc = "unlink" /\ FactAt(t, "unlink") /\ FactGo(t, next)
      /\ factLinks' = {p \in factLinks : p[1] # c.id}
      /\ factOverlap' = factOverlap
      /\ UNCHANGED <<facts, factEntities, factNextId, factOps>>
  BY <1>1, <1>2 DEF FactUnlink, FactAt
<1>4. /\ c # FactIdle /\ DOMAIN c = FactCallFields
      /\ ~factOverlap => FactTables /\ FactAlone(t)
  BY <1>3, FactAtAlone
<1>5. /\ FactCallOK(next) /\ next.pc = "ensure" /\ next.id = c.id
      /\ next.content = c.content /\ next.todo = names /\ next # FactIdle
  BY ONLY <1>2, <1>4 DEF FactCallOK, FactCallFields, FactIdle
<1>6. ASSUME ~factOverlap PROVE FactAfter(next)
  <2>1. /\ FactTables /\ FactLinked({c.id})
        /\ c.id \in DOMAIN facts /\ facts[c.id].content = c.content
    BY <1>3, <1>4, <1>6 DEF FactAlone, FactOwn, FactOwning, FactStage
  <2>2. FactTables'
    BY <1>3, <2>1 DEF FactTables
  <2>3. \A id : FactLinksOf(id)' = IF id = c.id THEN {} ELSE FactLinksOf(id)
    BY <1>3 DEF FactLinksOf
  <2>4. FactOwn(next)' = {c.id}
    BY <1>5 DEF FactOwn, FactOwning
  <2>5. FactStage(next)'
    <3>1. FactLinksOf(next.id)' = Extract(c.content) \ names
      BY <1>1, <1>5, <2>3
    <3> QED BY <1>1, <1>3, <1>5, <2>1, <3>1 DEF FactStage, FactOwning
  <2> QED BY <1>3, <1>5, <2>1, <2>2, <2>3, <2>4, <2>5 DEF FactAfter, FactLinked
<1> QED
  BY <1>3, <1>4, <1>5, <1>6, FactStepKeeps

LEMMA FactRemoveKeeps ==
  ASSUME FactInv, NEW t \in FactThreads, FactRemove(t)
  PROVE  FactInv'
<1>1. /\ FactAt(t, "remove") /\ FactGo(t, FactIdle) /\ factOverlap' = factOverlap
      /\ facts' = [id \in DOMAIN facts \ {factCall[t].id} |-> facts[id]]
      /\ UNCHANGED <<factEntities, factLinks, factNextId, factOps>>
  BY DEF FactRemove
<1>2. /\ factCall[t] # FactIdle
      /\ ~factOverlap => FactTables /\ FactAlone(t)
  BY <1>1, FactAtAlone
<1>3. ASSUME ~factOverlap PROVE FactTables' /\ FactLinked({})'
  <2>1. FactTables /\ FactLinked({})
    BY <1>1, <1>2, <1>3 DEF FactAlone, FactOwn, FactOwning, FactAt
  <2>2. DOMAIN facts' \subseteq DOMAIN facts /\ \A id \in DOMAIN facts' : facts'[id] = facts[id]
    BY <1>1
  <2>3. FactTables'
    BY <1>1, <2>1, <2>2 DEF FactTables
  <2>4. \A id : FactLinksOf(id)' = FactLinksOf(id)
    BY <1>1 DEF FactLinksOf
  <2> QED BY <2>1, <2>2, <2>3, <2>4 DEF FactLinked
<1> QED
  BY <1>1, <1>2, <1>3, FactEndKeeps

LEMMA FeedbackReadKeeps ==
  ASSUME FactInv, NEW t \in FactThreads, FeedbackRead(t)
  PROVE  FactInv'
<1> SUFFICES ASSUME NEW c, c = factCall[t] PROVE FactInv'
  OBVIOUS
<1>1. PICK trust : trust = FactClamp(facts[c.id].trust + c.trust)
  OBVIOUS
<1>2. PICK next : next = [c EXCEPT !.pc = "write", !.trust = trust]
  OBVIOUS
<1>3. PICK call : call = IF c.id \in DOMAIN facts THEN next ELSE FactIdle
  OBVIOUS
<1>4. /\ c.pc = "feedback" /\ FactAt(t, "feedback")
      /\ factOverlap' = factOverlap
      /\ UNCHANGED <<facts, factEntities, factLinks, factNextId, factOps>>
  BY DEF FeedbackRead, FactAt
<1>5. /\ c # FactIdle /\ DOMAIN c = FactCallFields
      /\ ~factOverlap => FactTables /\ FactAlone(t)
  BY <1>4, FactAtAlone
<1>6. FactGo(t, call)
  <2>1. [c EXCEPT !.pc = "write", !.trust = FactClamp(facts[c.id].trust + @)] = next
    BY <1>1, <1>2, <1>5 DEF FactCallFields
  <2> QED BY <1>3, <2>1 DEF FeedbackRead
<1>7. FactCallOK(next) /\ next.pc = "write"
  BY ONLY <1>2, <1>5 DEF FactCallOK, FactCallFields, FactIdle
<1>8. ASSUME ~factOverlap PROVE FactAfter(call)
  <2>1. FactTables /\ FactLinked({})
    BY <1>4, <1>5, <1>8 DEF FactAlone, FactOwn, FactOwning
  <2>2. FactTables' /\ FactLinked({})'
    BY <1>4, <2>1, FactTablesStay
  <2>3. FactOwn(next)' = {} /\ FactStage(next)'
    BY <1>7 DEF FactOwn, FactOwning, FactStage
  <2> QED BY <1>3, <2>2, <2>3 DEF FactAfter, FactLinked
<1>9. FactCallOK(call)
  BY <1>3, <1>7, FactIdleOK
<1> QED
  BY <1>4, <1>5, <1>6, <1>8, <1>9, FactStepKeeps

LEMMA FeedbackWriteKeeps ==
  ASSUME FactInv, NEW t \in FactThreads, FeedbackWrite(t)
  PROVE  FactInv'
<1> SUFFICES ASSUME NEW c, c = factCall[t] PROVE FactInv'
  OBVIOUS
<1>1. /\ c.pc = "write" /\ FactAt(t, "write") /\ FactGo(t, FactIdle)
      /\ facts' = (IF c.id \in DOMAIN facts THEN [facts EXCEPT ![c.id].trust = c.trust]
                   ELSE facts)
      /\ factOverlap' = factOverlap
      /\ UNCHANGED <<factEntities, factLinks, factNextId, factOps>>
  BY DEF FeedbackWrite, FactAt
<1>2. /\ c # FactIdle
      /\ ~factOverlap => FactTables /\ FactAlone(t)
  BY <1>1, FactAtAlone
<1>3. ASSUME ~factOverlap PROVE FactTables' /\ FactLinked({})'
  <2>1. FactTables /\ FactLinked({})
    BY <1>1, <1>2, <1>3 DEF FactAlone, FactOwn, FactOwning
  <2>2. /\ DOMAIN facts' = DOMAIN facts
        /\ \A id \in DOMAIN facts : /\ facts'[id].content = facts[id].content
                                    /\ DOMAIN facts'[id] = FactRowFields
    <3>1. \A id \in DOMAIN facts : DOMAIN facts[id] = FactRowFields
      BY <2>1 DEF FactTables
    <3> QED BY <1>1, <3>1 DEF FactRowFields
  <2> QED BY <1>1, <2>1, <2>2, FactContentsStay
<1> QED
  BY <1>1, <1>2, <1>3, FactEndKeeps

LEMMA FactNextKeeps ==
  ASSUME FactInv, [FactNext]_factVars
  PROVE  FactInv'
<1>1. CASE UNCHANGED factVars
  BY <1>1 DEF factVars, FactInv, FactCalls, FactCallOK, FactTables, FactBusy, FactAlone,
              FactLinked, FactLinksOf, FactOwn, FactStage
<1>2. CASE FactNext
  <2>1. PICK t \in FactThreads :
          FactStoreTool(t) \/ FactFeedbackTool(t) \/ FactMemoryTool(t) \/ ExtractorAdds(t)
            \/ FactStep(t)
    BY <1>2 DEF FactNext
  <2>2. CASE FactStoreTool(t)
    BY <2>2, FactBeginKeeps DEF FactStoreTool
  <2>3. CASE FactFeedbackTool(t)
    BY <2>3, FactBeginKeeps DEF FactFeedbackTool
  <2>4. CASE FactMemoryTool(t)
    BY <2>4, FactBeginKeeps DEF FactMemoryTool
  <2>5. CASE ExtractorAdds(t)
    BY <2>5, FactBeginKeeps DEF ExtractorAdds
  <2>6. CASE FactStep(t)
    BY <2>6, FactCheckKeeps, FactInsertKeeps, FactRowIdKeeps, EnsureEntityKeeps,
       LinkFactEntityKeeps, FactVectorKeeps, FactUpdateKeeps, FactUnlinkKeeps, FactRemoveKeeps,
       FeedbackReadKeeps, FeedbackWriteKeeps DEF FactStep
  <2> QED BY <2>1, <2>2, <2>3, <2>4, <2>5, <2>6
<1> QED
  BY <1>1, <1>2

-----------------------------------------------------------------------------
\* A limit that is not reached cuts nothing, whatever the order.
LEMMA FactTopsAll ==
  ASSUME NEW S, NEW n \in Nat, S \subseteq 1..n, NEW m \in Nat, n <= m, NEW key
  PROVE  FactTops(S, m, key) = {S}
<1>1. IsFiniteSet(1..n) /\ Cardinality(1..n) = n
  <2>1. 1 \in Int /\ n \in Int
    OBVIOUS
  <2>2. IsFiniteSet(1..n) /\ Cardinality(1..n) = IF 1 > n THEN 0 ELSE n - 1 + 1
    BY <2>1, FS_Interval
  <2> QED BY <2>2
<1>2. IsFiniteSet(S) /\ Cardinality(S) \in Nat /\ Cardinality(S) <= n
  BY <1>1, FS_Subset, FS_CardinalityType
<1>3. (IF Cardinality(S) < m THEN Cardinality(S) ELSE m) = Cardinality(S)
  BY <1>2
<1>4. FactTops(S, m, key)
        = {T \in SUBSET S : /\ Cardinality(T) = Cardinality(S)
                            /\ \A x \in T, y \in S \ T : key[x] >= key[y]}
  BY <1>3 DEF FactTops
<1>5. \A T \in SUBSET S : Cardinality(T) = Cardinality(S) => T = S
  BY <1>2, FS_Subset
<1> QED
  BY <1>4, <1>5

LEMMA FactInvImpliesExact == FactInv => FactQueriesAreExact
<1> SUFFICES ASSUME FactInv, ~factOverlap, FactBusy = {} PROVE FactQueriesAreExact
  BY DEF FactQueriesAreExact
<1> DEFINE max == FactMaxOps
<1>1. FactTables /\ \A id \in DOMAIN facts : FactLinksOf(id) = Extract(facts[id].content)
  BY DEF FactInv, FactLinked
<1>2. max \in Nat /\ max <= 3 * max /\ 3 * max \in Nat
  BY FactAssumption
<1>3. DOMAIN facts \subseteq 1..max
  BY <1>1, <1>2 DEF FactTables
<1>4. \A S, key : S \subseteq DOMAIN facts =>
        FactTops(S, max, key) = {S} /\ FactTops(S, 3 * max, key) = {S}
  <2> SUFFICES ASSUME NEW S, NEW key, S \subseteq DOMAIN facts
               PROVE  FactTops(S, max, key) = {S} /\ FactTops(S, 3 * max, key) = {S}
    OBVIOUS
  <2>1. S \subseteq 1..max
    BY <1>3
  <2>2. FactTops(S, max, key) = {S}
    BY <1>2, <2>1, FactTopsAll
  <2>3. FactTops(S, 3 * max, key) = {S}
    BY <1>2, <2>1, FactTopsAll
  <2> QED BY <2>2, <2>3
<1>5. \A S : FactIn(S, "") = S
  BY DEF FactIn
<1>6. FactTrusted(FactMinTrust) \subseteq DOMAIN facts
  BY DEF FactTrusted
<1>7. ASSUME NEW E
      PROVE  {id \in FactTrusted(FactMinTrust) : E \subseteq FactLinksOf(id)} = FactMentions(E)
  BY <1>1, <1>6 DEF FactMentions
<1>8. ASSUME NEW e
      PROVE  {id \in FactTrusted(FactMinTrust) : e \in FactLinksOf(id)} = FactMentions({e})
  BY <1>1, <1>6 DEF FactMentions
<1>9. \A E : FactMentions(E) \subseteq DOMAIN facts
  BY <1>6 DEF FactMentions
<1>10. ASSUME NEW e
       PROVE  FactProbe(e, "", max) = {FactMentions({e})}
  <2>1. FactTops(FactMentions({e}), max, FactByTrust) = {FactMentions({e})}
    BY <1>4, <1>9
  <2> QED BY <1>5, <1>8, <2>1 DEF FactProbe, FindByEntity
<1>11. ASSUME NEW E
       PROVE  FindByEntities(E, "", max) = {FactMentions(E)}
  BY <1>4, <1>5, <1>7, <1>9 DEF FindByEntities
<1>12. ASSUME NEW e
       PROVE  FindRelated(e, "", max) \subseteq SUBSET FactMentions({e})
  <2> DEFINE carriers == {id \in DOMAIN facts : e \in FactLinksOf(id)}
             S == {id \in carriers \cap FactTrusted(FactMinTrust) : carriers \ {id} # {}}
  <2>1. FindRelated(e, "", max) = FactTops(S, max, FactByTrust)
    BY <1>5 DEF FindRelated
  <2>2. S \subseteq DOMAIN facts /\ S \subseteq FactMentions({e})
    BY <1>8
  <2> HIDE DEF S
  <2>3. FactTops(S, max, FactByTrust) = {S}
    BY <1>4, <2>2
  <2> QED BY ZenonT(30), <2>1, <2>2, <2>3
<1>13. ASSUME NEW p \in FindContradictions("", 1)
       PROVE  Extract(facts[p[1]].content) \cap Extract(facts[p[2]].content) # {}
  <2>1. p[1] \in DOMAIN facts /\ p[2] \in DOMAIN facts
    BY <1>5, <1>6 DEF FindContradictions
  <2>2. FactLinksOf(p[1]) \cap FactLinksOf(p[2]) # {}
    BY DEF FindContradictions
  <2> QED BY <1>1, <2>1, <2>2
<1>14. ASSUME NEW q, NEW answer \in FactSearch(q, "", FactMinTrust, max)
       PROVE  {id \in FactTrusted(FactMinTrust) :
                 Sanitize(q) \cap Tokenize(facts[id].content) # {}} \subseteq answer
  <2> DEFINE hits == {id \in DOMAIN facts : Sanitize(q) \cap Tokenize(facts[id].content) # {}}
  <2>1. FtsCandidates(q, 3 * max) = {hits}
    BY <1>4 DEF FtsCandidates
  <2>2. {id \in FactTrusted(FactMinTrust) : Sanitize(q) \cap Tokenize(facts[id].content) # {}}
          = hits \cap FactTrusted(FactMinTrust)
    BY <1>6
  <2>3. hits \subseteq DOMAIN facts
    OBVIOUS
  <2> HIDE DEF hits
  <2>4. CASE hits = {}
    BY <2>2, <2>4
  <2>5. CASE hits # {}
    <3>1. FactSearch(q, "", FactMinTrust, max)
            = FactTops(hits \cap FactTrusted(FactMinTrust), max, FactScores(q))
      BY <1>5, <2>1, <2>5 DEF FactSearch
    <3>2. FactTops(hits \cap FactTrusted(FactMinTrust), max, FactScores(q))
            = {hits \cap FactTrusted(FactMinTrust)}
      BY <1>4, <2>3
    <3>3. answer = hits \cap FactTrusted(FactMinTrust)
      BY <3>1, <3>2
    <3> QED BY <2>2, <3>3
  <2> QED BY <2>4, <2>5
<1> QED
  BY <1>10, <1>11, <1>12, <1>13, <1>14 DEF FactQueriesAreExact

\* The invariant holds of every behaviour of the fact memory.
LEMMA FactInvHolds == FactSpec => []FactInv
BY FactInitHolds, FactNextKeeps, PTL DEF FactSpec

\* Entity queries answer with the facts whose contents mention the entities, as long as
\* operations do not overlap (HolographicMemory::update_fact, FactRetriever).
THEOREM FactsExact == FactSpec => []FactQueriesAreExact
BY FactInvHolds, FactInvImpliesExact, PTL

\* A row: a content, and a trust between the floor and the ceiling.
FactTrusts == FactFloor..FactCeiling
FactRow(row) ==
  DOMAIN row = FactRowFields /\ row.content \in FactContents /\ row.trust \in FactTrusts
\* A call: what it inserts or writes is such, and the name it links is in the table.
FactCallTyped(call, names) ==
  /\ DOMAIN call = FactCallFields
  /\ call.id \in Nat /\ call.content \in FactContents \cup {""} /\ call.trust \in Int
  /\ call.pc \in {"check", "insert"} =>
       call.content \in FactContents /\ call.trust \in FactTrusts
  /\ call.pc = "write" => call.trust \in FactTrusts
  /\ call.pc = "link" => (CHOOSE e \in call.todo : TRUE) \in names

FactRowsTyped ==
  /\ factNextId \in Nat \ {0} /\ DOMAIN facts \subseteq 1..(factNextId - 1)
  /\ \A id \in DOMAIN facts : FactRow(facts[id])
FactNamesTyped ==
  /\ IsFiniteSet(DOMAIN factEntities) /\ \A e \in DOMAIN factEntities : factEntities[e] \in Nat
  /\ factLastRow \in Nat
FactLinksTyped == IsFiniteSet(factLinks) /\ factLinks \subseteq Nat \X Nat
FactCallsTyped ==
  /\ DOMAIN factCall = FactThreads
  /\ \A t \in FactThreads : FactCallTyped(factCall[t], DOMAIN factEntities)
FactTyped ==
  /\ FactRowsTyped /\ FactNamesTyped /\ FactLinksTyped /\ FactCallsTyped
  /\ factOps \in 0..FactMaxOps

\* The arithmetic of trusts and bounds.
LEMMA FactDeltas ==
  /\ \A delta \in {-5, 0} : delta \in Int
  /\ \A delta \in {1, -2} : delta \in Int
  /\ 0 \in Int /\ 0 \in Nat
OBVIOUS
\* Sums of integers are integers.
LEMMA FactSums == \A x, y \in Int : x + y \in Int
OBVIOUS
\* A count below its bound has room for one more.
LEMMA FactOneMore ==
  ASSUME NEW max \in Nat, NEW n \in 0..max, n < max PROVE n + 1 \in 0..max
OBVIOUS

\* A trust is clamped.
LEMMA FactClamped == \A x \in Int : FactClamp(x) \in FactTrusts
BY DEF FactClamp, FactTrusts, FactFloor, FactCeiling

\* No call at all.
LEMMA FactIdleTyped == \A names : FactCallTyped(FactIdle, names)
BY DEF FactIdle, FactCallTyped, FactCallFields

\* One call goes on; names are not taken out of the table.
LEMMA FactCallGoes ==
  ASSUME FactCallsTyped, NEW t \in FactThreads, NEW call, FactGo(t, call),
         FactCallTyped(call, DOMAIN factEntities'),
         DOMAIN factEntities \subseteq DOMAIN factEntities'
  PROVE  FactCallsTyped'
<1>1. \A u \in FactThreads : FactCallTyped(factCall[u], DOMAIN factEntities')
  BY DEF FactCallsTyped, FactCallTyped
<1>2. /\ DOMAIN factCall' = FactThreads
      /\ \A u \in FactThreads : factCall'[u] = call \/ factCall'[u] = factCall[u]
  BY DEF FactCallsTyped, FactGo
<1> QED
  BY <1>1, <1>2 DEF FactCallsTyped

\* A call begins with what its tool was given.
LEMMA FactBeginTyped ==
  ASSUME FactTyped, NEW t \in FactThreads, NEW op, NEW id \in Nat,
         NEW content \in FactContents \cup {""}, NEW trust \in Int,
         NEW pc \in {"check", "update", "remove", "feedback"},
         pc = "check" => content \in FactContents /\ trust \in FactTrusts,
         FactBegin(t, op, pc, id, content, trust)
  PROVE  FactTyped'
<1>1. PICK call : call = [op |-> op, pc |-> pc, id |-> id, content |-> content, trust |-> trust,
                          todo |-> {}]
  OBVIOUS
<1>2. /\ DOMAIN call = FactCallFields /\ call.pc = pc /\ call.id = id /\ call.content = content
      /\ call.trust = trust
  BY <1>1 DEF FactCallFields
<1>3. FactCallTyped(call, DOMAIN factEntities)
  BY <1>2 DEF FactCallTyped
<1>4. /\ FactGo(t, call) /\ factOps < FactMaxOps /\ factOps' = factOps + 1
      /\ UNCHANGED <<facts, factEntities, factLinks, factNextId, factLastRow>>
  BY <1>1 DEF FactBegin
<1>5. FactCallsTyped'
  BY <1>3, <1>4, FactCallGoes DEF FactTyped
<1>6. factOps' \in 0..FactMaxOps
  <2>1. FactMaxOps \in Nat /\ factOps \in 0..FactMaxOps
    BY FactAssumption DEF FactTyped
  <2>2. factOps < FactMaxOps /\ factOps' = factOps + 1
    BY <1>4
  <2>3. factOps + 1 \in 0..FactMaxOps
    BY <2>1, <2>2, FactOneMore
  <2> QED BY <2>2, <2>3
<1> QED
  BY <1>4, <1>5, <1>6 DEF FactTyped, FactRowsTyped, FactNamesTyped, FactLinksTyped

\* The tools, and the extractor.
LEMMA FactToolsTyped ==
  ASSUME FactTyped, NEW t \in FactThreads,
         FactStoreTool(t) \/ FactFeedbackTool(t) \/ FactMemoryTool(t) \/ ExtractorAdds(t)
  PROVE  FactTyped'
<1>0. \A id \in FactIds : id \in Nat
  BY FactAssumption DEF FactIds
<1>1. /\ FactAddTrust \in FactTrusts
      /\ \A importance \in {1, 9} : FactStoreTrust(importance) \in FactTrusts
  BY DEF FactAddTrust, FactStoreTrust, FactTrusts, FactFloor, FactCeiling
<1>2. FactTrusts \subseteq Int
  BY DEF FactTrusts, FactFloor, FactCeiling
<1>3. ASSUME NEW c \in FactContents, NEW trust \in FactTrusts, NEW op,
             FactBegin(t, op, "check", 0, c, trust)
      PROVE  FactTyped'
  <2>1. trust \in Int
    BY <1>2
  <2> QED BY <1>3, <2>1, FactBeginTyped
<1>4. ASSUME NEW id \in FactIds, NEW c \in FactContents \cup {""}, NEW delta \in {-5, 0},
             FactBegin(t, "update", "update", id, c, delta)
      PROVE  FactTyped'
  <2>1. delta \in Int /\ id \in Nat
    BY <1>0, FactDeltas
  <2> QED BY <1>4, <2>1, FactBeginTyped
<1>5. ASSUME NEW id \in FactIds, FactBegin(t, "remove", "remove", id, "", 0) PROVE FactTyped'
  <2>1. id \in Nat
    BY <1>0
  <2> QED BY <1>5, <2>1, FactDeltas, FactBeginTyped
<1>6. ASSUME NEW id \in FactIds, NEW delta \in {1, -2},
             FactBegin(t, "feedback", "feedback", id, "", delta)
      PROVE  FactTyped'
  <2>1. delta \in Int /\ id \in Nat
    BY <1>0, FactDeltas
  <2> QED BY <1>6, <2>1, FactBeginTyped
<1>7. CASE FactStoreTool(t) \/ ExtractorAdds(t)
  BY <1>1, <1>3, <1>4, <1>5, <1>7 DEF FactStoreTool, ExtractorAdds
<1>8. CASE FactMemoryTool(t)
  BY <1>1, <1>3, <1>5, <1>8 DEF FactMemoryTool
<1>9. CASE FactFeedbackTool(t)
  BY <1>6, <1>9 DEF FactFeedbackTool
<1> QED
  BY <1>7, <1>8, <1>9

\* A step of a call, apart from the call itself.
LEMMA FactStepTyped ==
  ASSUME FactTyped, NEW t \in FactThreads, NEW call, FactGo(t, call),
         FactCallTyped(call, DOMAIN factEntities'),
         DOMAIN factEntities \subseteq DOMAIN factEntities',
         UNCHANGED factOps, FactRowsTyped', FactNamesTyped', FactLinksTyped'
  PROVE  FactTyped'
BY FactCallGoes DEF FactTyped

\* A row is inserted under the next number.
LEMMA FactInsertTyped ==
  ASSUME FactTyped, NEW t \in FactThreads, FactInsert(t)
  PROVE  FactTyped'
<1>1. PICK c : c = factCall[t] /\ FactCallTyped(c, DOMAIN factEntities) /\ c.pc = "insert"
  BY DEF FactTyped, FactCallsTyped, FactInsert, FactAt
<1>2. UNCHANGED <<factEntities, factLinks, factOps>>
  BY DEF FactInsert
<1>3. FactLinksTyped'
  BY <1>2 DEF FactTyped, FactLinksTyped
<1>4. CASE FactHas(c.content)
  <2>1. FactGo(t, FactIdle) /\ UNCHANGED <<facts, factNextId, factLastRow>>
    BY <1>1, <1>4 DEF FactInsert
  <2>2. FactRowsTyped' /\ FactNamesTyped'
    BY <1>2, <2>1 DEF FactTyped, FactRowsTyped, FactNamesTyped
  <2> QED BY <1>2, <1>3, <2>1, <2>2, FactIdleTyped, FactStepTyped
<1>5. CASE ~FactHas(c.content)
  <2>1. PICK row, call : /\ row = [content |-> c.content, trust |-> c.trust, vector |-> ""]
                         /\ call = [c EXCEPT !.pc = "rowid"]
    OBVIOUS
  <2>2. /\ FactGo(t, call)
        /\ facts' = [id \in DOMAIN facts \cup {factNextId} |->
                       IF id = factNextId THEN row ELSE facts[id]]
        /\ factNextId' = factNextId + 1 /\ factLastRow' = factNextId
    BY <1>1, <1>5, <2>1 DEF FactInsert
  <2>3. FactRow(row)
    BY <1>1, <2>1 DEF FactRow, FactRowFields, FactCallTyped
  <2>4. FactCallTyped(call, DOMAIN factEntities')
    BY <1>1, <2>1 DEF FactCallTyped, FactCallFields
  <2>5. factNextId \in Nat \ {0} /\ DOMAIN facts \subseteq 1..(factNextId - 1)
    BY DEF FactTyped, FactRowsTyped
  <2>6. factNextId' \in Nat \ {0} /\ DOMAIN facts' \subseteq 1..(factNextId' - 1)
    BY <2>2, <2>5
  <2>7. \A id \in DOMAIN facts' : FactRow(facts'[id])
    BY <2>2, <2>3 DEF FactTyped, FactRowsTyped
  <2>8. FactNamesTyped'
    BY <1>2, <2>2, <2>5 DEF FactTyped, FactNamesTyped
  <2> QED BY <1>2, <1>3, <2>2, <2>4, <2>6, <2>7, <2>8, FactStepTyped DEF FactRowsTyped
<1> QED
  BY <1>4, <1>5

\* The steps that change the call only.
LEMMA FactCallStepsTyped ==
  ASSUME FactTyped, NEW t \in FactThreads,
         FactCheck(t) \/ FactRowId(t) \/ FeedbackRead(t)
  PROVE  FactTyped'
<1>1. PICK c : c = factCall[t] /\ FactCallTyped(c, DOMAIN factEntities)
  BY DEF FactTyped, FactCallsTyped
<1>2. UNCHANGED <<facts, factEntities, factLinks, factNextId, factLastRow, factOps>>
  BY DEF FactCheck, FactRowId, FeedbackRead
<1>3. FactRowsTyped' /\ FactNamesTyped' /\ FactLinksTyped'
  BY <1>2 DEF FactTyped, FactRowsTyped, FactNamesTyped, FactLinksTyped
<1>4. \E call : FactGo(t, call) /\ FactCallTyped(call, DOMAIN factEntities')
  <2>1. CASE FactGo(t, FactIdle)
    BY <2>1, FactIdleTyped
  <2>2. CASE FactCheck(t) /\ FactGo(t, [c EXCEPT !.pc = "insert"])
    <3>1. FactCallTyped([c EXCEPT !.pc = "insert"], DOMAIN factEntities')
      BY <1>1, <1>2, <2>2 DEF FactCallTyped, FactCallFields, FactCheck, FactAt
    <3> QED BY <2>2, <3>1
  <2>3. CASE FactRowId(t)
    <3>1. FactGo(t, [c EXCEPT !.pc = "ensure", !.id = factLastRow,
                                             !.todo = Extract(c.content)])
      BY <1>1, <2>3 DEF FactRowId
    <3>2. factLastRow \in Nat
      BY DEF FactTyped, FactNamesTyped
    <3>3. FactCallTyped([c EXCEPT !.pc = "ensure", !.id = factLastRow,
                                             !.todo = Extract(c.content)],
                        DOMAIN factEntities')
      BY <1>1, <1>2, <3>2 DEF FactCallTyped, FactCallFields
    <3> QED BY <3>1, <3>3
  <2>4. CASE FeedbackRead(t) /\ c.id \in DOMAIN facts
    <3>1. PICK trust : trust = FactClamp(facts[c.id].trust + c.trust)
      OBVIOUS
    <3>2. trust \in FactTrusts /\ trust \in Int
      <4>1. facts[c.id].trust \in FactTrusts /\ c.trust \in Int
        BY <1>1, <2>4 DEF FactTyped, FactRowsTyped, FactRow, FactCallTyped
      <4>2. FactTrusts \subseteq Int
        BY DEF FactTrusts, FactFloor, FactCeiling
      <4>3. facts[c.id].trust + c.trust \in Int
        BY <4>1, <4>2, FactSums
      <4> QED BY <3>1, <4>2, <4>3, FactClamped
    <3>3. FactGo(t, [c EXCEPT !.pc = "write", !.trust = trust])
      BY <1>1, <2>4, <3>1 DEF FeedbackRead, FactCallTyped, FactCallFields
    <3>4. FactCallTyped([c EXCEPT !.pc = "write", !.trust = trust], DOMAIN factEntities')
      BY <1>1, <1>2, <3>2 DEF FactCallTyped, FactCallFields
    <3> QED BY <3>3, <3>4
  <2> QED BY <1>1, <2>1, <2>2, <2>3, <2>4 DEF FactCheck, FeedbackRead
<1> QED
  BY <1>2, <1>3, <1>4, FactStepTyped

\* A name gets the next number, and a pair is of numbers.
LEMMA FactEntityStepsTyped ==
  ASSUME FactTyped, NEW t \in FactThreads,
         EnsureEntity(t) \/ LinkFactEntity(t) \/ FactUnlink(t)
  PROVE  FactTyped'
<1>1. PICK c : c = factCall[t] /\ FactCallTyped(c, DOMAIN factEntities)
  BY DEF FactTyped, FactCallsTyped
<1>2. UNCHANGED <<facts, factNextId, factOps>>
  BY DEF EnsureEntity, LinkFactEntity, FactUnlink
<1>3. FactRowsTyped'
  BY <1>2 DEF FactTyped, FactRowsTyped
<1>4. FactNamesTyped /\ FactLinksTyped
  BY DEF FactTyped
<1>5. Cardinality(DOMAIN factEntities) + 1 \in Nat /\ Cardinality(factLinks) + 1 \in Nat
  <2>1. Cardinality(DOMAIN factEntities) \in Nat /\ Cardinality(factLinks) \in Nat
    BY <1>4, FS_CardinalityType DEF FactNamesTyped, FactLinksTyped
  <2> QED BY <2>1
<1>6. CASE EnsureEntity(t)
  <2>1. PICK e, id : /\ e = (CHOOSE n \in c.todo : TRUE)
                     /\ id = Cardinality(DOMAIN factEntities) + 1
    OBVIOUS
  <2>2. /\ FactGo(t, [c EXCEPT !.pc = "link"]) /\ UNCHANGED factLinks
        /\ \/ e \in DOMAIN factEntities /\ UNCHANGED <<factEntities, factLastRow>>
           \/ /\ factEntities' = [n \in DOMAIN factEntities \cup {e} |->
                                    IF n = e THEN id ELSE factEntities[n]]
              /\ factLastRow' = id
    BY <1>1, <1>6, <2>1 DEF EnsureEntity, FactNextName
  <2>3. DOMAIN factEntities \subseteq DOMAIN factEntities' /\ e \in DOMAIN factEntities'
    BY <2>2
  <2>4. FactCallTyped([c EXCEPT !.pc = "link"], DOMAIN factEntities')
    BY <1>1, <2>1, <2>3 DEF FactCallTyped, FactCallFields
  <2>5. FactNamesTyped'
    <3>1. IsFiniteSet(DOMAIN factEntities \cup {e})
      BY <1>4, FS_AddElement DEF FactNamesTyped
    <3>2. id \in Nat
      BY <1>5, <2>1
    <3>3. CASE UNCHANGED <<factEntities, factLastRow>>
      BY <1>4, <3>3 DEF FactNamesTyped
    <3>4. CASE /\ factEntities' = [n \in DOMAIN factEntities \cup {e} |->
                                    IF n = e THEN id ELSE factEntities[n]]
               /\ factLastRow' = id
      BY <1>4, <3>1, <3>2, <3>4 DEF FactNamesTyped
    <3> QED BY <2>2, <3>3, <3>4
  <2>6. FactLinksTyped'
    BY <1>4, <2>2 DEF FactLinksTyped
  <2> QED BY <1>2, <1>3, <2>2, <2>3, <2>4, <2>5, <2>6, FactStepTyped
<1>7. CASE LinkFactEntity(t)
  <2>1. PICK e, pair : e = (CHOOSE n \in c.todo : TRUE) /\ pair = <<c.id, factEntities[e]>>
    OBVIOUS
  <2>2. /\ FactGo(t, [c EXCEPT !.pc = "ensure", !.todo = c.todo \ {e}])
        /\ factLinks' = factLinks \cup {pair} /\ UNCHANGED factEntities
        /\ factLastRow' \in {factLastRow, Cardinality(factLinks) + 1} /\ c.pc = "link"
    BY <1>1, <1>7, <2>1 DEF LinkFactEntity, FactNextName, FactAt, FactCallTyped, FactCallFields
  <2>3. e \in DOMAIN factEntities /\ c.id \in Nat
    BY <1>1, <2>1, <2>2 DEF FactCallTyped
  <2>4. FactCallTyped([c EXCEPT !.pc = "ensure", !.todo = c.todo \ {e}], DOMAIN factEntities')
    BY <1>1 DEF FactCallTyped, FactCallFields
  <2>5. FactNamesTyped'
    BY <1>4, <1>5, <2>2 DEF FactNamesTyped
  <2>6. FactLinksTyped'
    <3>1. pair \in Nat \X Nat
      BY <1>4, <2>1, <2>3 DEF FactNamesTyped
    <3>2. IsFiniteSet(factLinks \cup {pair})
      BY <1>4, FS_AddElement DEF FactLinksTyped
    <3> QED BY <1>4, <2>2, <3>1, <3>2 DEF FactLinksTyped
  <2> QED BY <1>2, <1>3, <2>2, <2>4, <2>5, <2>6, FactStepTyped
<1>8. CASE FactUnlink(t)
  <2>1. /\ FactGo(t, [c EXCEPT !.pc = "ensure", !.todo = Extract(c.content)])
        /\ factLinks' \subseteq factLinks /\ UNCHANGED <<factEntities, factLastRow>>
    BY <1>1, <1>8 DEF FactUnlink
  <2>2. FactCallTyped([c EXCEPT !.pc = "ensure", !.todo = Extract(c.content)],
                      DOMAIN factEntities')
    BY <1>1 DEF FactCallTyped, FactCallFields
  <2>3. FactLinksTyped'
    BY <1>4, <2>1, FS_Subset DEF FactLinksTyped
  <2>4. FactNamesTyped'
    BY <1>4, <2>1 DEF FactNamesTyped
  <2> QED BY <1>2, <1>3, <2>1, <2>2, <2>3, <2>4, FactStepTyped
<1> QED
  BY <1>6, <1>7, <1>8

\* What is written into a row is a content and a trust.
LEMMA FactRowStepsTyped ==
  ASSUME FactTyped, NEW t \in FactThreads,
         FactVector(t) \/ FactUpdate(t) \/ FactRemove(t) \/ FeedbackWrite(t)
  PROVE  FactTyped'
<1>1. PICK c : c = factCall[t] /\ FactCallTyped(c, DOMAIN factEntities)
  BY DEF FactTyped, FactCallsTyped
<1>2. UNCHANGED <<factEntities, factLinks, factNextId, factLastRow, factOps>>
  BY DEF FactVector, FactUpdate, FactRemove, FeedbackWrite
<1>3. FactNamesTyped' /\ FactLinksTyped'
  BY <1>2 DEF FactTyped, FactNamesTyped, FactLinksTyped
<1>4. \E call : FactGo(t, call) /\ FactCallTyped(call, DOMAIN factEntities')
  <2>1. FactGo(t, FactIdle) \/ FactGo(t, [c EXCEPT !.pc = "unlink"])
    BY <1>1 DEF FactVector, FactUpdate, FactRemove, FeedbackWrite
  <2>2. FactCallTyped([c EXCEPT !.pc = "unlink"], DOMAIN factEntities')
    BY <1>1, <1>2 DEF FactCallTyped, FactCallFields
  <2> QED BY <2>1, <2>2, FactIdleTyped
<1>5. /\ factNextId \in Nat \ {0} /\ DOMAIN facts \subseteq 1..(factNextId - 1)
      /\ \A id \in DOMAIN facts : FactRow(facts[id])
  BY DEF FactTyped, FactRowsTyped
<1>6. /\ DOMAIN facts' \subseteq DOMAIN facts /\ \A id \in DOMAIN facts' : FactRow(facts'[id])
  <2>1. CASE facts' = facts
    BY <1>5, <2>1
  <2>2. CASE FactRemove(t)
    BY <1>5, <2>2 DEF FactRemove
  <2>3. ASSUME NEW row, FactRow(row), c.id \in DOMAIN facts,
               facts' = [facts EXCEPT ![c.id] = row]
        PROVE  /\ DOMAIN facts' \subseteq DOMAIN facts
               /\ \A id \in DOMAIN facts' : FactRow(facts'[id])
    BY <1>5, <2>3
  <2>4. CASE FactVector(t) /\ facts' # facts
    <3>1. PICK row : row = [facts[c.id] EXCEPT !.vector = c.content]
      OBVIOUS
    <3>2. c.id \in DOMAIN facts /\ facts' = [facts EXCEPT ![c.id] = row]
      BY <1>1, <2>4, <3>1 DEF FactVector
    <3>3. FactRow(row)
      BY <1>5, <3>1, <3>2 DEF FactRow, FactRowFields
    <3> QED BY <2>3, <3>2, <3>3
  <2>5. CASE FeedbackWrite(t) /\ facts' # facts
    <3>1. PICK row : row = [facts[c.id] EXCEPT !.trust = c.trust]
      OBVIOUS
    <3>2. c.id \in DOMAIN facts /\ facts' = [facts EXCEPT ![c.id] = row] /\ c.pc = "write"
      BY <1>1, <2>5, <3>1 DEF FeedbackWrite, FactAt
    <3>3. FactRow(row)
      BY <1>1, <1>5, <3>1, <3>2 DEF FactRow, FactRowFields, FactCallTyped
    <3> QED BY <2>3, <3>2, <3>3
  <2>6. CASE FactUpdate(t) /\ facts' # facts
    <3>1. PICK content, trust :
            /\ content = (IF c.content = "" THEN facts[c.id].content ELSE c.content)
            /\ trust = FactClamp(facts[c.id].trust + c.trust)
      OBVIOUS
    <3>2. PICK row : row = [facts[c.id] EXCEPT !.content = content, !.trust = trust]
      OBVIOUS
    <3>3. c.id \in DOMAIN facts
      BY <1>1, <2>6 DEF FactUpdate
    <3>4. FactRow(facts[c.id])
      BY <1>5, <3>3
    <3>5. facts' = [facts EXCEPT ![c.id] = row]
      <4>1. facts' = [facts EXCEPT ![c.id].content = IF c.content = "" THEN @ ELSE c.content,
                                   ![c.id].trust = FactClamp(@ + c.trust)]
        BY <1>1, <2>6 DEF FactUpdate
      <4> QED BY <3>1, <3>2, <3>3, <3>4, <4>1 DEF FactRow, FactRowFields
    <3>6. trust \in FactTrusts
      <4>1. facts[c.id].trust \in FactTrusts /\ c.trust \in Int
        BY <1>1, <3>4 DEF FactRow, FactCallTyped
      <4>2. facts[c.id].trust + c.trust \in Int
        BY <4>1 DEF FactTrusts, FactFloor, FactCeiling
      <4> QED BY <3>1, <4>2, FactClamped
    <3>7. content \in FactContents
      BY <1>1, <3>1, <3>4 DEF FactRow, FactCallTyped
    <3>8. FactRow(row)
      BY <3>2, <3>4, <3>6, <3>7 DEF FactRow, FactRowFields
    <3> QED BY <2>3, <3>3, <3>5, <3>8
  <2> QED BY <2>1, <2>2, <2>4, <2>5, <2>6
<1>7. FactRowsTyped'
  BY <1>2, <1>5, <1>6 DEF FactRowsTyped
<1> QED
  BY <1>2, <1>3, <1>4, <1>7, FactStepTyped

\* The fact memory has its types, also while operations overlap: ids are numbers that were
\* given, trusts stay between floor and ceiling (HolographicMemory).
LEMMA FactTypesHold == FactSpec => []FactTypeOK
<1>1. FactInit => FactTyped
  <2> SUFFICES ASSUME FactInit PROVE FactTyped
    OBVIOUS
  <2>1. DOMAIN facts = {} /\ DOMAIN factEntities = {} /\ factLinks = {} /\ factNextId = 1
        /\ factLastRow = 0 /\ factOps = 0
    BY DEF FactInit
  <2>2. IsFiniteSet({})
    BY FS_EmptySet
  <2>3. FactRowsTyped /\ FactNamesTyped /\ FactLinksTyped
    BY <2>1, <2>2 DEF FactRowsTyped, FactNamesTyped, FactLinksTyped
  <2>4. FactCallsTyped
    BY FactIdleTyped DEF FactInit, FactCallsTyped
  <2>5. factOps \in 0..FactMaxOps
    <3>1. FactMaxOps \in Nat
      BY FactAssumption
    <3> QED BY ONLY <2>1, <3>1
  <2> QED BY <2>3, <2>4, <2>5 DEF FactTyped
<1>2. FactTyped /\ [FactNext]_factVars => FactTyped'
  <2>1. FactTyped /\ UNCHANGED factVars => FactTyped'
    BY DEF factVars, FactTyped, FactRowsTyped, FactNamesTyped, FactLinksTyped, FactCallsTyped
  <2>2. FactTyped /\ FactNext => FactTyped'
    <3> SUFFICES ASSUME FactTyped, FactNext PROVE FactTyped'
      OBVIOUS
    <3>1. PICK t \in FactThreads :
            \/ FactStoreTool(t) \/ FactFeedbackTool(t) \/ FactMemoryTool(t) \/ ExtractorAdds(t)
            \/ FactStep(t)
      BY DEF FactNext
    <3> QED BY <3>1, FactToolsTyped, FactInsertTyped, FactCallStepsTyped, FactEntityStepsTyped,
               FactRowStepsTyped DEF FactStep
  <2> QED BY <2>1, <2>2
<1>3. FactTyped => FactTypeOK
  BY DEF FactTyped, FactRowsTyped, FactRow, FactTrusts, FactLinksTyped, FactTypeOK
<1> QED
  BY <1>1, <1>2, <1>3, PTL DEF FactSpec

=============================================================================
