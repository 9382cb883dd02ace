-------------------------- MODULE UserStorageProofs --------------------------
(***************************************************************************)
(* What is proved of UserStorage for every number of storage nodes, logic  *)
(* nodes and sessions.                                                     *)
(***************************************************************************)
EXTENDS UserStorage, FiniteSetTheorems, TLAPS

-----------------------------------------------------------------------------
(* Sets of stores that are too large to be apart.                          *)

\* Two sets that together are more than all the stores have a store in common.
LEMMA TooManyMeet ==
  ASSUME NEW A \in SUBSET Stores, NEW B \in SUBSET Stores,
         Cardinality(A) + Cardinality(B) > Cardinality(Stores)
  PROVE  \E s \in Stores : s \in A /\ s \in B
<1> SUFFICES ASSUME A \cap B = {} PROVE FALSE
  OBVIOUS
<1>1. IsFiniteSet(Stores) /\ IsFiniteSet(A) /\ IsFiniteSet(B) /\ A \cup B \in SUBSET Stores
  BY StorageAssumption, FS_Subset
<1>2. /\ Cardinality(Stores) \in Nat /\ Cardinality(A) \in Nat /\ Cardinality(B) \in Nat
      /\ Cardinality(A \cup B) \in Nat /\ Cardinality(A \cup B) <= Cardinality(Stores)
  BY <1>1, FS_CardinalityType, FS_Subset
<1>3. Cardinality(A \cup B) = Cardinality(A) + Cardinality(B) - Cardinality(A \cap B)
  BY <1>1, FS_Union
<1>4. Cardinality(A \cap B) = 0
  BY FS_EmptySet
<1> QED
  BY <1>2, <1>3, <1>4

\* Twice more than two thirds is more than all.

LEMMA TwoThirds ==
  ASSUME NEW n \in Nat, NEW x \in Nat, NEW y \in Nat,
         x > (2 * n) \div 3, y > (2 * n) \div 3
  PROVE  x + y > n
<1> DEFINE q == (2 * n) \div 3
<1>1. q \in Nat /\ 3 * q + 2 >= 2 * n
  BY SMT
<1> HIDE DEF q
<1>2. x > q /\ y > q
  BY DEF q
<1> QED
  BY <1>1, <1>2, SMT

\* Two sets of more than two thirds of the stores have a store in common.
LEMMA QuorumsMeet ==
  ASSUME NEW A \in SUBSET Stores, NEW B \in SUBSET Stores,
         Cardinality(A) > Consensus, Cardinality(B) > Consensus
  PROVE  \E s \in Stores : s \in A /\ s \in B
<1>1. IsFiniteSet(Stores) /\ IsFiniteSet(A) /\ IsFiniteSet(B)
  BY StorageAssumption, FS_Subset
<1>2. Cardinality(Stores) \in Nat /\ Cardinality(A) \in Nat /\ Cardinality(B) \in Nat
  BY <1>1, FS_CardinalityType
<1>3. Cardinality(A) + Cardinality(B) > Cardinality(Stores)
  BY <1>2, TwoThirds DEF Consensus
<1> QED
  BY <1>3, TooManyMeet

\* A set of more than two thirds and one of just a third of the stores have one too.
LEMMA ThirdBlocks ==
  ASSUME NEW A \in SUBSET Stores, NEW B \in SUBSET Stores,
         Cardinality(A) > Consensus, Cardinality(B) >= Cardinality(Stores) - Consensus
  PROVE  \E s \in Stores : s \in A /\ s \in B
<1>1. IsFiniteSet(Stores) /\ IsFiniteSet(A) /\ IsFiniteSet(B)
  BY StorageAssumption, FS_Subset
<1>2. /\ Cardinality(Stores) \in Nat /\ Cardinality(A) \in Nat /\ Cardinality(B) \in Nat
      /\ Consensus \in Nat
  BY <1>1, FS_CardinalityType DEF Consensus
<1>3. Cardinality(A) + Cardinality(B) > Cardinality(Stores)
  BY <1>2
<1> QED
  BY <1>3, TooManyMeet

-----------------------------------------------------------------------------
(* Type correctness.                                                       *)

LEMMA VersionFacts ==
  /\ NoData \notin Versions
  /\ 0 \in Versions /\ -1 \in Versions
  /\ Absent \in Versions /\ Empty \in Versions
  /\ Sessions \subseteq Versions
  /\ \A v \in Versions : InitUserData(v) \in Versions
BY StorageAssumption DEF NoData, Versions, Sessions, Absent, Empty, InitUserData

LEMMA PutType ==
  ASSUME TypeOK, NEW s \in Stores, NEW v \in Versions, Put(s, v)
  PROVE  /\ db' \in [Stores -> Versions]
         /\ held' \in [Sessions -> [Stores -> Versions \cup {NoData}]]
BY DEF TypeOK, StoresOK, ReadsOK, Put

LEMMA InitType == Init => TypeOK
<1> SUFFICES ASSUME Init PROVE TypeOK
  OBVIOUS
<1>1. SessionsOK
  BY DEF Init, SessionsOK, Phases
<1>2. ReadsOK
  BY DEF Init, ReadsOK
<1>3. SavesOK
  BY DEF Init, SavesOK, RpcStates
<1>4. StoresOK
  BY StorageAssumption, VersionFacts DEF Init, StoresOK
<1>5. ChainOK
  BY VersionFacts DEF Init, ChainOK
<1>6. HistoryOK
  BY VersionFacts DEF Init, HistoryOK
<1> QED
  BY <1>1, <1>2, <1>3, <1>4, <1>5, <1>6 DEF TypeOK

LEMMA NextType ==
  ASSUME TypeOK, [Next]_vars
  PROVE  TypeOK'
<1> USE StorageAssumption, VersionFacts
<1>1. ASSUME NEW a \in Sessions, Appoint(a) PROVE TypeOK'
  <2>1. SessionsOK'
    BY <1>1 DEF Appoint, TypeOK, SessionsOK, Phases
  <2>2. SavesOK'
    BY <1>1 DEF Appoint, TypeOK, SavesOK, RpcStates, writeVars
  <2>3. ChainOK'
    BY <1>1 DEF Appoint, TypeOK, ChainOK
  <2>4. ReadsOK' /\ StoresOK' /\ HistoryOK'
    BY <1>1 DEF Appoint, TypeOK, ReadsOK, StoresOK, HistoryOK, readVars, writeVars
  <2> QED
    BY <2>1, <2>2, <2>3, <2>4 DEF TypeOK
<1>2. ASSUME NEW a \in Sessions, Enter(a) PROVE TypeOK'
  <2>0. \/ phase' = [phase EXCEPT ![a] = "playing"]
        \/ phase' = [phase EXCEPT ![a] = "reading"]
    BY <1>2 DEF Enter
  <2>1. SessionsOK'
    BY <1>2 DEF Enter, Remembered, TypeOK, SessionsOK, Phases
  <2>2. ReadsOK'
    <3>1. /\ asked' \in {asked, asked \cup ({a} \X Stores)}
          /\ held' \in {held, [held EXCEPT ![a] = db]}
          /\ replies' = replies
      BY <1>2 DEF Enter
    <3>2. db \in [Stores -> Versions \cup {NoData}]
      BY DEF TypeOK, StoresOK
    <3> QED
      BY <3>1, <3>2 DEF TypeOK, ReadsOK
  <2>3. SavesOK'
    BY <1>2, <2>0 DEF Enter, TypeOK, SessionsOK, SavesOK, writeVars
  <2>4. HistoryOK'
    BY <1>2 DEF Enter, Remembered, TypeOK, HistoryOK
  <2>5. StoresOK' /\ ChainOK'
    BY <1>2 DEF Enter, TypeOK, StoresOK, ChainOK, writeVars, chainVars
  <2> QED
    BY <2>1, <2>2, <2>3, <2>4, <2>5 DEF TypeOK
<1>3. ASSUME NEW a \in Sessions, ReadRejects(a) PROVE TypeOK'
  <2>1. SessionsOK'
    BY <1>3 DEF ReadRejects, ReadEnds, TypeOK, SessionsOK, Phases
  <2>2. ReadsOK'
    BY <1>3 DEF ReadRejects, ReadEnds, TypeOK, ReadsOK
  <2>3. SavesOK'
    BY <1>3 DEF ReadRejects, ReadEnds, TypeOK, SavesOK, RpcStates, writeVars
  <2>4. StoresOK' /\ ChainOK' /\ HistoryOK'
    BY <1>3 DEF ReadRejects, TypeOK, StoresOK, ChainOK, HistoryOK, writeVars, chainVars
  <2> QED
    BY <2>1, <2>2, <2>3, <2>4 DEF TypeOK
<1>4. ASSUME NEW a \in Sessions, Play(a) PROVE TypeOK'
  <2>1. SessionsOK'
    BY <1>4 DEF Play, TypeOK, SessionsOK, Phases
  <2>2. ReadsOK' /\ SavesOK' /\ StoresOK' /\ ChainOK' /\ HistoryOK'
    BY <1>4 DEF Play, TypeOK, ReadsOK, SavesOK, StoresOK, ChainOK, HistoryOK, readVars,
                writeVars, chainVars
  <2> QED
    BY <2>1, <2>2 DEF TypeOK
<1>5. ASSUME NEW a \in Sessions, Save(a) PROVE TypeOK'
  <2>1. SessionsOK'
    BY <1>5 DEF Save, TypeOK, SessionsOK, Phases
  <2>2. SavesOK'
    BY <1>5 DEF Save, TypeOK, SavesOK, RpcStates, SessionsOK
  <2>3. ReadsOK' /\ StoresOK' /\ ChainOK' /\ HistoryOK'
    BY <1>5 DEF Save, TypeOK, ReadsOK, StoresOK, ChainOK, HistoryOK, readVars, chainVars
  <2> QED
    BY <2>1, <2>2, <2>3 DEF TypeOK
<1>6. ASSUME NEW a \in Sessions, SaveTimesOut(a) PROVE TypeOK'
  <2>1. SessionsOK'
    BY <1>6 DEF SaveTimesOut, TypeOK, SessionsOK, Phases
  <2>2. SavesOK'
    BY <1>6 DEF SaveTimesOut, TypeOK, SavesOK, RpcStates, writeVars
  <2>3. ReadsOK' /\ StoresOK' /\ ChainOK' /\ HistoryOK'
    BY <1>6 DEF SaveTimesOut, TypeOK, ReadsOK, StoresOK, ChainOK, HistoryOK, readVars,
                writeVars, chainVars
  <2> QED
    BY <2>1, <2>2, <2>3 DEF TypeOK
<1>7. ASSUME NEW a \in Sessions, SaveSettles(a) PROVE TypeOK'
  <2>1. SessionsOK'
    BY <1>7 DEF SaveSettles, TypeOK, SessionsOK, Phases
  <2>2. SavesOK'
    BY <1>7 DEF SaveSettles, TypeOK, SavesOK, RpcStates
  <2>3. HistoryOK'
    BY <1>7 DEF SaveSettles, TypeOK, HistoryOK, SavesOK
  <2>4. ReadsOK' /\ StoresOK' /\ ChainOK'
    BY <1>7 DEF SaveSettles, TypeOK, ReadsOK, StoresOK, ChainOK, readVars, chainVars
  <2> QED
    BY <2>1, <2>2, <2>3, <2>4 DEF TypeOK
<1>8. ASSUME NEW a \in Sessions, NEW v \in Versions, ReadResolves(a, v) PROVE TypeOK'
  <2>1. SessionsOK'
    BY <1>8 DEF ReadResolves, ReadEnds, TypeOK, SessionsOK, Phases
  <2>2. ReadsOK'
    BY <1>8 DEF ReadResolves, ReadEnds, TypeOK, ReadsOK
  <2>3. SavesOK'
    BY <1>8 DEF ReadResolves, ReadEnds, TypeOK, SavesOK, RpcStates, writeVars
  <2>4. StoresOK' /\ ChainOK' /\ HistoryOK'
    BY <1>8 DEF ReadResolves, TypeOK, StoresOK, ChainOK, HistoryOK, writeVars, chainVars
  <2> QED
    BY <2>1, <2>2, <2>3, <2>4 DEF TypeOK
<1>9. ASSUME NEW a \in Sessions, NEW s \in Stores, OnAppointed(a, s) PROVE TypeOK'
  <2>1. StoresOK'
    BY <1>9 DEF OnAppointed, AddPermission, TypeOK, StoresOK
  <2>2. ChainOK'
    BY <1>9 DEF OnAppointed, AddWrite2ChainRequest, TypeOK, ChainOK
  <2>3. SessionsOK' /\ ReadsOK' /\ SavesOK' /\ HistoryOK'
    BY <1>9 DEF OnAppointed, TypeOK, SessionsOK, ReadsOK, SavesOK, HistoryOK, readVars,
                writeVars
  <2> QED
    BY <2>1, <2>2, <2>3 DEF TypeOK
<1>10. ASSUME NEW a \in Sessions, NEW s \in Stores, EthAnswers(a, s) PROVE TypeOK'
  <2>1. ChainOK'
    BY <1>10 DEF EthAnswers, TypeOK, ChainOK
  <2>2. SessionsOK' /\ ReadsOK' /\ SavesOK' /\ StoresOK' /\ HistoryOK'
    BY <1>10 DEF EthAnswers, TypeOK, SessionsOK, ReadsOK, SavesOK, StoresOK, HistoryOK,
                 readVars, writeVars
  <2> QED
    BY <2>1, <2>2 DEF TypeOK
<1>11. ASSUME NEW a \in Sessions, NEW s \in Stores, EthFails(a, s) PROVE TypeOK'
  <2>1. ChainOK'
    BY <1>11 DEF EthFails, TypeOK, ChainOK
  <2>2. SessionsOK' /\ ReadsOK' /\ SavesOK' /\ StoresOK' /\ HistoryOK'
    BY <1>11 DEF EthFails, TypeOK, SessionsOK, ReadsOK, SavesOK, StoresOK, HistoryOK,
                 readVars, writeVars
  <2> QED
    BY <2>1, <2>2 DEF TypeOK
<1>12. ASSUME NEW b \in Sessions \cup Grants, NEW s \in Stores, PermissionExpires(b, s)
       PROVE TypeOK'
  <2>1. StoresOK'
    BY <1>12 DEF PermissionExpires, TypeOK, StoresOK
  <2>2. SessionsOK' /\ ReadsOK' /\ SavesOK' /\ ChainOK' /\ HistoryOK'
    BY <1>12 DEF PermissionExpires, TypeOK, SessionsOK, ReadsOK, SavesOK, ChainOK,
                 HistoryOK, readVars, writeVars, chainVars
  <2> QED
    BY <2>1, <2>2 DEF TypeOK
<1>13. ASSUME NEW a \in Sessions, NEW s \in Stores, StoreReads(a, s) PROVE TypeOK'
  <2>1. ReadsOK'
    BY <1>13 DEF StoreReads, TypeOK, ReadsOK, StoresOK
  <2>2. SessionsOK' /\ SavesOK' /\ StoresOK' /\ ChainOK' /\ HistoryOK'
    BY <1>13 DEF StoreReads, TypeOK, SessionsOK, SavesOK, StoresOK, ChainOK, HistoryOK,
                 writeVars, chainVars
  <2> QED
    BY <2>1, <2>2 DEF TypeOK
<1>22. ASSUME NEW a \in Sessions, NEW s \in Stores, StoreReadsNothing(a, s) PROVE TypeOK'
  <2>1. ReadsOK'
    BY <1>22 DEF StoreReadsNothing, TypeOK, ReadsOK
  <2>2. SessionsOK' /\ SavesOK' /\ StoresOK' /\ ChainOK' /\ HistoryOK'
    BY <1>22 DEF StoreReadsNothing, TypeOK, SessionsOK, SavesOK, StoresOK, ChainOK,
                 HistoryOK, writeVars, chainVars
  <2> QED
    BY <2>1, <2>2 DEF TypeOK
<1>23. ASSUME NEW g \in Grants, NEW s \in Stores, OnAddPermission(g, s) PROVE TypeOK'
  <2>1. StoresOK'
    BY <1>23 DEF OnAddPermission, AddPermission, TypeOK, StoresOK
  <2>2. SessionsOK' /\ ReadsOK' /\ SavesOK' /\ ChainOK' /\ HistoryOK'
    BY <1>23 DEF OnAddPermission, TypeOK, SessionsOK, ReadsOK, SavesOK, ChainOK,
                 HistoryOK, readVars, writeVars, chainVars
  <2> QED
    BY <2>1, <2>2 DEF TypeOK
<1>14. ASSUME NEW a \in Sessions, NEW s \in Stores, ReadFails(a, s) PROVE TypeOK'
  <2>1. ReadsOK'
    BY <1>14 DEF ReadFails, TypeOK, ReadsOK
  <2>2. SessionsOK' /\ SavesOK' /\ StoresOK' /\ ChainOK' /\ HistoryOK'
    BY <1>14 DEF ReadFails, TypeOK, SessionsOK, SavesOK, StoresOK, ChainOK, HistoryOK,
                 writeVars, chainVars
  <2> QED
    BY <2>1, <2>2 DEF TypeOK
<1>15. ASSUME NEW a \in Sessions, NEW s \in Stores, StoreRefuses(a, s) PROVE TypeOK'
  <2>1. SavesOK'
    BY <1>15 DEF StoreRefuses, TypeOK, SavesOK, RpcStates
  <2>2. SessionsOK' /\ ReadsOK' /\ StoresOK' /\ ChainOK' /\ HistoryOK'
    BY <1>15 DEF StoreRefuses, TypeOK, SessionsOK, ReadsOK, StoresOK, ChainOK, HistoryOK,
                 readVars, chainVars
  <2> QED
    BY <2>1, <2>2 DEF TypeOK
<1>16. ASSUME NEW a \in Sessions, NEW s \in Stores, ConnectionBreaks(a, s) PROVE TypeOK'
  <2>1. SavesOK'
    BY <1>16 DEF ConnectionBreaks, TypeOK, SavesOK, RpcStates
  <2>2. SessionsOK' /\ ReadsOK' /\ StoresOK' /\ ChainOK' /\ HistoryOK'
    BY <1>16 DEF ConnectionBreaks, TypeOK, SessionsOK, ReadsOK, StoresOK, ChainOK,
                 HistoryOK, readVars, chainVars
  <2> QED
    BY <2>1, <2>2 DEF TypeOK
<1>17. ASSUME NEW a \in Sessions, NEW s \in Stores, JobRequests(a, s) PROVE TypeOK'
  <2>1. ChainOK'
    BY <1>17 DEF JobRequests, TypeOK, ChainOK, StoresOK
  <2>2. SessionsOK' /\ ReadsOK' /\ SavesOK' /\ StoresOK' /\ HistoryOK'
    BY <1>17 DEF JobRequests, TypeOK, SessionsOK, ReadsOK, SavesOK, StoresOK, HistoryOK,
                 readVars, writeVars
  <2> QED
    BY <2>1, <2>2 DEF TypeOK
<1>18. ASSUME NEW a \in Sessions, NEW s \in Stores, NEW b \in BOOLEAN,
    StoreWrites(a, s, b) PROVE TypeOK'
  <2>1. saving[a] \in Versions
    BY <1>18 DEF StoreWrites, TypeOK, SavesOK, RpcStates
  <2>2. ReadsOK'
    BY <1>18, PutType, <2>1 DEF StoreWrites, TypeOK, ReadsOK, readVars
  <2>3. SavesOK'
    BY <1>18, <2>1 DEF StoreWrites, TypeOK, SavesOK, RpcStates
  <2>4. StoresOK'
    BY <1>18, PutType, <2>1 DEF StoreWrites, TypeOK, StoresOK
  <2>5. SessionsOK' /\ ChainOK' /\ HistoryOK'
    BY <1>18 DEF StoreWrites, TypeOK, SessionsOK, ChainOK, HistoryOK, readVars, chainVars
  <2> QED
    BY <2>2, <2>3, <2>4, <2>5 DEF TypeOK
<1>19. ASSUME NEW a \in Sessions, NEW s \in Stores, NEW v \in Versions, EthPut(a, s, v)
       PROVE TypeOK'
  <2>1. ReadsOK'
    BY <1>19, PutType DEF EthPut, TypeOK, ReadsOK, readVars
  <2>2. StoresOK'
    BY <1>19, PutType DEF EthPut, TypeOK, StoresOK
  <2>3. SessionsOK' /\ SavesOK' /\ ChainOK' /\ HistoryOK'
    BY <1>19 DEF EthPut, TypeOK, SessionsOK, SavesOK, ChainOK, HistoryOK, readVars,
                 writeVars
  <2> QED
    BY <2>1, <2>2, <2>3 DEF TypeOK
<1>20. ASSUME NEW a \in Sessions, NEW s \in Stores, NEW v \in Versions,
    NEW b \in BOOLEAN, CenterAnswers(a, s, v, b) PROVE TypeOK'
  <2>1. ChainOK'
    BY <1>20 DEF CenterAnswers, TypeOK, ChainOK
  <2>2. SessionsOK' /\ ReadsOK' /\ SavesOK' /\ StoresOK' /\ HistoryOK'
    BY <1>20 DEF CenterAnswers, TypeOK, SessionsOK, ReadsOK, SavesOK, StoresOK,
                 HistoryOK, readVars, writeVars
  <2> QED
    BY <2>1, <2>2 DEF TypeOK
<1>21. CASE UNCHANGED vars
  BY <1>21 DEF vars, TypeOK, SessionsOK, ReadsOK, SavesOK, StoresOK, ChainOK, HistoryOK,
              readVars, writeVars, chainVars
<1> QED
  BY <1>1, <1>2, <1>3, <1>4, <1>5, <1>6, <1>7, <1>8, <1>9, <1>10, <1>11, <1>12, <1>13,
     <1>14, <1>15, <1>16, <1>17, <1>18, <1>19, <1>20, <1>21, <1>22, <1>23 DEF Next

\* In every behaviour every variable keeps its type, a session that is played has
\* begun with some version, and what is being saved is some version.
THEOREM TypeCorrect == Spec => []TypeOK
BY InitType, NextType, PTL DEF Spec

-----------------------------------------------------------------------------
(* Reads and quorums.                                                      *)

\* Only a session that reads has calls and replies; a store whose version has not
\* changed since the read began has that version, and replied with it.
ReadInv ==
  /\ \A a \in Sessions, s \in Stores : <<a, s>> \in asked => phase[a] = "reading"
  /\ \A a \in Sessions, s \in Stores, v \in Versions :
       <<a, s, v>> \in replies => phase[a] = "reading" /\ held[a][s] \in {v, NoData}
  /\ \A a \in Sessions, s \in Stores :
       phase[a] = "reading" => held[a][s] \in {db[s], NoData}

\* What a store puts keeps ReadInv, as long as nothing else about reads changes.
LEMMA PutRead ==
  ASSUME TypeOK, ReadInv, NEW s \in Stores, NEW v \in Versions, Put(s, v),
         UNCHANGED <<phase, asked, replies>>
  PROVE  ReadInv'
<1>1. \A a \in Sessions, t \in Stores :
        held'[a][t] = IF t = s /\ phase[a] = "reading" /\ held[a][s] # v
                        THEN NoData ELSE held[a][t]
  BY DEF Put
<1>2. \A t \in Stores : db'[t] = IF t = s THEN v ELSE db[t]
  BY DEF Put, TypeOK, SessionsOK, ReadsOK, StoresOK
<1>3. UNCHANGED phase /\ UNCHANGED asked /\ UNCHANGED replies
  OBVIOUS
<1>4. \A a \in Sessions, t \in Stores : <<a, t>> \in asked' => phase'[a] = "reading"
  BY <1>3 DEF ReadInv
<1>5. \A a \in Sessions, t \in Stores, w \in Versions :
        <<a, t, w>> \in replies' => phase'[a] = "reading" /\ held'[a][t] \in {w, NoData}
  BY <1>1, <1>3 DEF ReadInv
<1>6. \A a \in Sessions, t \in Stores :
        phase'[a] = "reading" => held'[a][t] \in {db'[t], NoData}
  BY <1>1, <1>2, <1>3 DEF ReadInv
<1> QED
  BY <1>4, <1>5, <1>6 DEF ReadInv

LEMMA InitRead == Init => ReadInv
BY DEF Init, ReadInv

LEMMA NextRead ==
  ASSUME TypeOK, ReadInv, [Next]_vars
  PROVE  ReadInv'
<1> USE StorageAssumption, VersionFacts
<1>1. ASSUME NEW a \in Sessions, Appoint(a) PROVE ReadInv'
  BY <1>1 DEF Appoint, TypeOK, SessionsOK, ReadsOK, StoresOK, ReadInv, readVars, writeVars
<1>2. ASSUME NEW a \in Sessions, Enter(a) PROVE ReadInv'
  <2>0. \/ phase' = [phase EXCEPT ![a] = "playing"]
        \/ phase' = [phase EXCEPT ![a] = "reading"]
    BY <1>2 DEF Enter
  <2>1. phase[a] = "appointed" /\ phase' \in [Sessions -> Phases]
    BY <1>2, <2>0 DEF Enter, TypeOK, SessionsOK, Phases
  <2>2. /\ \A b \in Sessions : b # a => phase'[b] = phase[b]
        /\ phase'[a] \in {"playing", "reading"}
        /\ UNCHANGED <<replies, db>>
    BY <1>2, <2>0 DEF Enter, TypeOK, SessionsOK
  <2>3. CASE phase'[a] = "playing"
    BY <1>2, <2>1, <2>2, <2>3 DEF Enter, TypeOK, SessionsOK, ReadsOK, StoresOK, ReadInv
  <2>4. CASE phase'[a] = "reading"
    <3>1. /\ asked' = asked \cup ({a} \X Stores)
          /\ held' = [held EXCEPT ![a] = db]
      BY <1>2, <2>4 DEF Enter, TypeOK, SessionsOK, ReadsOK, StoresOK
    <3>2. /\ \A b \in Sessions : b # a => held'[b] = held[b]
          /\ held'[a] = db
      BY <3>1 DEF TypeOK, SessionsOK, ReadsOK, StoresOK
    <3> QED
      BY <2>1, <2>2, <2>4, <3>1, <3>2 DEF TypeOK, SessionsOK, ReadsOK, StoresOK, ReadInv
  <2> QED
    BY <2>2, <2>3, <2>4
<1>3. ASSUME NEW a \in Sessions, ReadEnds(a), phase'[a] # "reading",
             \A b \in Sessions : b # a => phase'[b] = phase[b], UNCHANGED <<asked, db>>
      PROVE ReadInv'
  <2>1. \A b \in Sessions : b # a => held'[b] = held[b]
    BY <1>3 DEF ReadEnds, TypeOK, SessionsOK, ReadsOK, StoresOK
  <2>2. \A b \in Sessions, s \in Stores, v \in Versions :
          <<b, s, v>> \in replies' => b # a /\ <<b, s, v>> \in replies
    BY <1>3 DEF ReadEnds
  <2>3. \A b \in Sessions, s \in Stores : <<b, s>> \in asked' => b # a
    BY <1>3 DEF ReadEnds
  <2> QED
    BY <1>3, <2>1, <2>2, <2>3 DEF ReadInv
<1>4. ASSUME NEW a \in Sessions, ReadRejects(a) PROVE ReadInv'
  BY <1>3, <1>4 DEF ReadRejects, TypeOK, SessionsOK, ReadsOK, StoresOK
<1>5. ASSUME NEW a \in Sessions, NEW v \in Versions, ReadResolves(a, v) PROVE ReadInv'
  BY <1>3, <1>5 DEF ReadResolves, TypeOK, SessionsOK, ReadsOK, StoresOK
<1>6. ASSUME NEW a \in Sessions, Play(a) PROVE ReadInv'
  BY <1>6 DEF Play, ReadInv, readVars
<1>7. ASSUME NEW a \in Sessions, Save(a) \/ SaveTimesOut(a) \/ SaveSettles(a)
      PROVE ReadInv'
  BY <1>7 DEF Save, SaveTimesOut, SaveSettles, ReadInv, TypeOK, SessionsOK, ReadsOK,
              StoresOK, readVars
<1>8. ASSUME NEW a \in Sessions, NEW s \in Stores, StoreReads(a, s) PROVE ReadInv'
  <2>1. /\ <<a, s>> \in asked /\ asked' \subseteq asked
        /\ replies' = replies \cup {<<a, s, db[s]>>}
        /\ UNCHANGED <<phase, db, held>>
    BY <1>8 DEF StoreReads
  <2>2. phase[a] = "reading" /\ held[a][s] \in {db[s], NoData}
    BY <2>1 DEF ReadInv
  <2> QED
    BY <2>1, <2>2 DEF ReadInv
<1>9. ASSUME NEW a \in Sessions, NEW s \in Stores, ReadFails(a, s) PROVE ReadInv'
  BY <1>9 DEF ReadFails, ReadInv
<1>16. ASSUME NEW a \in Sessions, NEW s \in Stores, StoreReadsNothing(a, s)
       PROVE ReadInv'
  <2>1. /\ <<a, s>> \in asked /\ asked' \subseteq asked
        /\ replies' = replies \cup {<<a, s, Absent>>}
        /\ UNCHANGED <<phase, db>>
    BY <1>16 DEF StoreReadsNothing
  <2>2. phase[a] = "reading"
    BY <2>1 DEF ReadInv
  <2>3. \A b \in Sessions, t \in Stores :
          held'[b][t] = IF b = a /\ t = s THEN NoData ELSE held[b][t]
    BY <1>16 DEF StoreReadsNothing, TypeOK, ReadsOK
  <2> QED
    BY <2>1, <2>2, <2>3 DEF ReadInv
<1>17. ASSUME NEW g \in Grants, NEW s \in Stores, OnAddPermission(g, s) PROVE ReadInv'
  BY <1>17 DEF OnAddPermission, ReadInv, readVars
<1>18. ASSUME NEW b \in Sessions \cup Grants, NEW s \in Stores, PermissionExpires(b, s)
       PROVE ReadInv'
  BY <1>18 DEF PermissionExpires, ReadInv, readVars
<1>10. ASSUME NEW a \in Sessions, NEW s \in Stores,
              \/ OnAppointed(a, s) \/ EthAnswers(a, s) \/ EthFails(a, s)
              \/ JobRequests(a, s)
       PROVE ReadInv'
  BY <1>10 DEF OnAppointed, EthAnswers, EthFails, JobRequests, ReadInv, readVars
<1>11. ASSUME NEW a \in Sessions, NEW s \in Stores,
              StoreRefuses(a, s) \/ ConnectionBreaks(a, s)
       PROVE ReadInv'
  BY <1>11 DEF StoreRefuses, ConnectionBreaks, ReadInv, readVars
<1>12. ASSUME NEW a \in Sessions, NEW s \in Stores, NEW b \in BOOLEAN,
              StoreWrites(a, s, b)
       PROVE ReadInv'
  <2>1. saving[a] \in Versions
    BY <1>12 DEF StoreWrites, TypeOK, SavesOK, RpcStates
  <2> QED
    BY <1>12, <2>1, PutRead DEF StoreWrites, readVars
<1>13. ASSUME NEW a \in Sessions, NEW s \in Stores, NEW v \in Versions, EthPut(a, s, v)
       PROVE ReadInv'
  BY <1>13, PutRead DEF EthPut, readVars
<1>14. ASSUME NEW a \in Sessions, NEW s \in Stores, NEW v \in Versions, NEW b \in BOOLEAN,
              CenterAnswers(a, s, v, b)
       PROVE ReadInv'
  BY <1>14 DEF CenterAnswers, ReadInv, readVars
<1>15. CASE UNCHANGED vars
  BY <1>15 DEF vars, ReadInv, readVars
<1> QED
  BY <1>1, <1>2, <1>4, <1>5, <1>6, <1>7, <1>8, <1>9, <1>10, <1>11, <1>12, <1>13, <1>14,
     <1>15, <1>16, <1>17, <1>18 DEF Next

\* The version a read resolves with is that of the steady stores, if there are
\* enough of them.
LEMMA ResolvesSteady ==
  ASSUME TypeOK, ReadInv, NEW a \in Sessions, NEW v \in Versions, NEW w \in Versions,
         ReadResolves(a, w),
         Cardinality(Steady(a, v)) >= Cardinality(Stores) - Consensus
  PROVE  base'[a] = InitUserData(v)
<1>1. Cardinality(Brought(a, w)) > Consensus
  BY DEF ReadResolves, Agreed
<1>2. PICK s \in Stores : s \in Brought(a, w) /\ s \in Steady(a, v)
  BY <1>1, ThirdBlocks DEF Brought, Steady
<1>3. held[a][s] = v /\ held[a][s] \in {w, NoData}
  BY <1>2 DEF Brought, Steady, ReadInv
<1>4. v # NoData
  BY VersionFacts
<1> QED
  BY <1>3, <1>4 DEF ReadResolves, TypeOK, SessionsOK, ReadsOK, StoresOK

\* Only the end of a read takes a session from reading to playing.
LEMMA OnlyReadResolves ==
  ASSUME TypeOK, ReadInv, [Next]_vars, NEW a \in Sessions, NEW v \in Versions,
         phase[a] = "reading", phase'[a] = "playing",
         Cardinality(Steady(a, v)) >= Cardinality(Stores) - Consensus
  PROVE  base'[a] = InitUserData(v)
<1>1. ASSUME NEW b \in Sessions, NEW w \in Versions, ReadResolves(b, w) PROVE b = a
  BY <1>1 DEF ReadResolves, TypeOK, SessionsOK, ReadsOK, StoresOK
<1>2. ASSUME NEW b \in Sessions,
             \/ Appoint(b) \/ Enter(b) \/ ReadRejects(b) \/ Play(b) \/ Save(b)
             \/ SaveTimesOut(b) \/ SaveSettles(b)
      PROVE FALSE
  BY <1>2 DEF Appoint, Enter, ReadRejects, Play, Save, SaveTimesOut, SaveSettles, TypeOK,
              SessionsOK, ReadsOK, StoresOK
<1>3. ASSUME UNCHANGED phase PROVE FALSE
  BY <1>3
<1>4. ASSUME NEW b \in Sessions, NEW s \in Stores,
             \/ OnAppointed(b, s) \/ EthAnswers(b, s) \/ EthFails(b, s)
             \/ StoreReads(b, s) \/ StoreReadsNothing(b, s) \/ ReadFails(b, s)
             \/ StoreRefuses(b, s) \/ ConnectionBreaks(b, s) \/ JobRequests(b, s)
      PROVE UNCHANGED phase
  BY <1>4 DEF OnAppointed, EthAnswers, EthFails, StoreReads, StoreReadsNothing,
              ReadFails, StoreRefuses, ConnectionBreaks, JobRequests
<1>10. ASSUME NEW b \in Sessions \cup Grants, NEW s \in Stores,
              OnAddPermission(b, s) \/ PermissionExpires(b, s)
       PROVE UNCHANGED phase
  BY <1>10 DEF OnAddPermission, PermissionExpires
<1>5. ASSUME NEW b \in Sessions, NEW s \in Stores, NEW t \in BOOLEAN, StoreWrites(b, s, t)
      PROVE UNCHANGED phase
  BY <1>5 DEF StoreWrites
<1>6. ASSUME NEW b \in Sessions, NEW s \in Stores, NEW w \in Versions, EthPut(b, s, w)
      PROVE UNCHANGED phase
  BY <1>6 DEF EthPut
<1>7. ASSUME NEW b \in Sessions, NEW s \in Stores, NEW w \in Versions, NEW t \in BOOLEAN,
             CenterAnswers(b, s, w, t)
      PROVE UNCHANGED phase
  BY <1>7 DEF CenterAnswers
<1>8. ~UNCHANGED vars
  BY <1>3 DEF vars
<1>9. PICK w \in Versions : ReadResolves(a, w)
  <2>1. Next
    BY <1>8
  <2>2. \E b \in Sessions, w \in Versions : ReadResolves(b, w)
    BY <2>1, <1>2, <1>3, <1>4, <1>5, <1>6, <1>7, <1>10 DEF Next
  <2> QED
    BY <2>2, <1>1
<1> QED
  BY <1>9, ResolvesSteady

\* In every behaviour a read returns no other version than the one which just a third of
\* the stores had and could read all the time (ReadIsSteady), for any number of stores:
\* those who answer otherwise are then too few to agree.
THEOREM ReadsAreSteady == Spec => ReadIsSteady
<1>1. Init => TypeOK /\ ReadInv
  BY InitType, InitRead
<1>2. TypeOK /\ ReadInv /\ [Next]_vars => TypeOK' /\ ReadInv'
  BY NextType, NextRead
<1>3. TypeOK /\ ReadInv /\ [Next]_vars =>
        [\A a \in Sessions, v \in Versions :
           /\ phase[a] = "reading" /\ phase'[a] = "playing"
           /\ Cardinality(Steady(a, v)) >= Cardinality(Stores) - Consensus
           => base'[a] = InitUserData(v)]_vars
  BY OnlyReadResolves
<1> QED
  BY <1>1, <1>2, <1>3, PTL DEF Spec, ReadIsSteady

-----------------------------------------------------------------------------
(* That nothing saved is lost.                                             *)

\* What is needed of the deployment: there are stores, and the save before reached all,
\* nothing is on the chain, put on it or brought from it, fewer stores fail to read
\* than a read needs, and every session is on a logic node of its own.
FreshStart ==
  /\ Stores # {} /\ \A s \in Stores : FirstDb[s] = 0
  /\ ~OnChain /\ Offline = {}
  /\ MaxErrors <= Consensus
  /\ \A a, b \in Sessions : Host[a] = Host[b] => a = b

Many(S) == Cardinality(S) > Consensus

\* Nothing comes from the chain.
IdleInv == ethGot = {} /\ chainReq = {} /\ chain = NoData

\* What a session has at each of its stages, and that the next one is appointed only
\* when it has been read.
StageInv == \A a \in Sessions :
  /\ phase[a] \in {"none", "appointed", "reading"} =>
       cache[Host[a]] = NoData /\ base[a] = NoData
  /\ \A s \in Stores : rpc[a][s] # "none" => phase[a] \in {"saving", "over"}
  /\ \A s \in Stores : rpc[a][s] \in {"sent", "acked"} => phase[a] = "saving"
  /\ \A b \in Sessions : a < b /\ phase[b] # "none" => Entered(a) /\ phase[a] # "reading"

\* Every version there is was made by a session before n.
Below(n) ==
  /\ latest < n
  /\ \A s \in Stores : db[s] < n
  /\ \A a \in Sessions : cache[Host[a]] < n /\ saving[a] < n
  /\ \A a \in Sessions, s \in Stores, v \in Versions : <<a, s, v>> \in replies => v < n

VersionInv ==
  /\ latest >= 0 /\ \A s \in Stores : db[s] >= 0
  /\ \A a \in Sessions : 0 <= expected[a] /\ expected[a] < a
  /\ \A n \in Sessions : ~Entered(n) => Below(n)

\* A session plays and saves nothing older than what was saved when it was entered.
GainInv == \A a \in Sessions :
  /\ phase[a] = "playing" => cache[Host[a]] >= expected[a]
  /\ phase[a] = "saving" \/ (\E s \in Stores : rpc[a][s] # "none") =>
       saving[a] >= expected[a]

ErrorsInv == \A a \in Sessions : Cardinality(Brought(a, Absent)) <= MaxErrors

\* What is under way, and what it will lead to, is no older than version n.
Writers(n) == \A a \in Sessions :
  /\ phase[a] \in {"reading", "playing", "saving"} => expected[a] >= n
  /\ \A s \in Stores : Pending(a, s) => saving[a] >= n

\* As long as a session is still to be entered, more than two thirds of the stores
\* have what was saved last, or something newer, and nothing older is under way.
FutureInv == \A c \in Sessions : ~Entered(c) =>
  /\ Many({s \in Stores : db[s] >= latest})
  /\ Writers(latest)
  /\ \A a \in Sessions, s \in Stores : rpc[a][s] = "acked" => db[s] = saving[a]

\* The stores that have answered, and go on to answer, what session c needs.
Good(c) == {s \in Stores : /\ db[s] >= expected[c]
                           /\ \A v \in Versions : <<c, s, v>> \in replies =>
                                v >= expected[c] \/ v = Absent}

ReadingInv == \A c \in Sessions : phase[c] = "reading" =>
  Many(Good(c)) /\ Writers(expected[c])

KeptInv ==
  /\ IdleInv /\ StageInv /\ VersionInv /\ GainInv /\ ErrorsInv
  /\ FutureInv /\ ReadingInv /\ NothingSavedIsLost

LEMMA ManyGrows ==
  ASSUME NEW S \in SUBSET Stores, NEW T \in SUBSET Stores, S \subseteq T, Many(S)
  PROVE  Many(T)
<1>1. /\ IsFiniteSet(T) /\ IsFiniteSet(S) /\ Cardinality(S) <= Cardinality(T)
  BY StorageAssumption, FS_Subset
<1>2. Cardinality(S) \in Nat /\ Cardinality(T) \in Nat /\ Cardinality(Stores) \in Nat
  BY <1>1, StorageAssumption, FS_CardinalityType
<1> QED
  BY <1>1, <1>2 DEF Many, Consensus

\* Versions and sessions are integers.
LEMMA IntFacts ==
  ASSUME TypeOK
  PROVE  /\ NSessions \in Int /\ Sessions \subseteq Int /\ Versions \subseteq Int
         /\ \A a \in Sessions : Host[a] \in Nodes
         /\ \A a \in Sessions : /\ cache[Host[a]] \in Int /\ base[a] \in Int
                                /\ saving[a] \in Int /\ expected[a] \in Int
         /\ latest \in Int /\ \A s \in Stores : db[s] \in Versions /\ db[s] \in Int
         /\ NoData = -4 /\ Absent = -3 /\ -4 \in Int
<1>1. Sessions \subseteq Int /\ Versions \subseteq Int /\ NSessions \in Int
  BY StorageAssumption DEF Sessions, Versions, Absent
<1>2. \A a \in Sessions : Host[a] \in Nodes
  BY StorageAssumption
<1>3. NoData = -4 /\ Absent = -3
  BY DEF NoData, Absent
<1> DEFINE any == Versions \cup {NoData}
<1>4. any \subseteq Int /\ Versions \subseteq Int /\ -4 \in Int
  BY <1>1, <1>3
<1>5. \A a \in Sessions : cache[Host[a]] \in any /\ base[a] \in any /\ saving[a] \in any
  BY <1>2 DEF TypeOK, SessionsOK, SavesOK
<1>6. /\ \A a \in Sessions : expected[a] \in Versions
      /\ latest \in Versions /\ \A s \in Stores : db[s] \in Versions
  BY DEF TypeOK, HistoryOK, StoresOK
<1> HIDE DEF any
<1> QED
  BY <1>1, <1>2, <1>3, <1>4, <1>5, <1>6

\* A step that leaves alone what the invariant is about.
keptVars == <<phase, base, cache, replies, rpc, saving, db, latest, expected, ethGot,
              chainReq, chain>>

LEMMA QuietKept ==
  ASSUME KeptInv, UNCHANGED keptVars
  PROVE  KeptInv'
<1> USE DEF keptVars
<1>1. IdleInv' /\ StageInv' /\ VersionInv' /\ GainInv' /\ NothingSavedIsLost'
  BY DEF KeptInv, IdleInv, StageInv, VersionInv, GainInv, Entered, Below,
         NothingSavedIsLost
<1>2. ErrorsInv'
  BY DEF KeptInv, ErrorsInv, Brought
<1>3. FutureInv'
  BY DEF KeptInv, FutureInv, Entered, Writers, Pending, Many, Consensus
<1>4. ReadingInv'
  BY DEF KeptInv, ReadingInv, Good, Writers, Pending, Many, Consensus
<1> QED
  BY <1>1, <1>2, <1>3, <1>4 DEF KeptInv

LEMMA InitKept == ASSUME FreshStart, Init PROVE KeptInv
<1>1. \A s \in Stores : db[s] = 0
  BY DEF FreshStart, Init
<1>2. Sessions \subseteq Int /\ (\A a \in Sessions : a > 0) /\ NoData = -4
      /\ \A a \in Sessions : Host[a] \in Nodes
  BY StorageAssumption DEF Sessions, NoData
<1>3. /\ \A a \in Sessions : phase[a] = "none" /\ base[a] = NoData /\ expected[a] = 0
                             /\ cache[Host[a]] = NoData /\ saving[a] = NoData
      /\ \A a \in Sessions, s \in Stores : rpc[a][s] = "none"
      /\ replies = {} /\ latest = 0
  BY <1>2 DEF Init
<1>4. IdleInv
  BY DEF Init, IdleInv, FreshStart
<1>5. StageInv
  BY <1>3 DEF StageInv
<1>6. VersionInv
  BY <1>1, <1>2, <1>3 DEF VersionInv, Below
<1>7. GainInv /\ ReadingInv /\ NothingSavedIsLost
  BY <1>3 DEF GainInv, ReadingInv, NothingSavedIsLost
<1>8. ErrorsInv
  <2>1. \A a \in Sessions : Brought(a, Absent) = {}
    BY <1>3 DEF Brought
  <2>2. Cardinality({}) = 0 /\ MaxErrors \in Nat
    BY FS_EmptySet, StorageAssumption
  <2> QED
    BY <2>1, <2>2 DEF ErrorsInv
<1>9. FutureInv
  <2>1. {s \in Stores : db[s] >= latest} = Stores
    BY <1>1, <1>3
  <2>2. Cardinality(Stores) \in Nat /\ Cardinality(Stores) # 0
    BY StorageAssumption, FS_CardinalityType, FS_EmptySet DEF FreshStart
  <2>3. Many(Stores)
    BY <2>2 DEF Many, Consensus
  <2>4. Writers(latest) /\ \A a \in Sessions, s \in Stores : rpc[a][s] # "acked"
    BY <1>3 DEF Writers, Pending
  <2> QED
    BY <2>1, <2>3, <2>4 DEF FutureInv
<1> QED
  BY <1>4, <1>5, <1>6, <1>7, <1>8, <1>9 DEF KeptInv

\* While a session is still to be entered, one of two others that were is through.
LEMMA OneIsThrough ==
  ASSUME TypeOK, InTurn, StageInv, NEW c \in Sessions, ~Entered(c),
         NEW a \in Sessions, NEW b \in Sessions, a # b, Entered(a), Entered(b)
  PROVE  Through(a) \/ Through(b)
<1>1. a \in Int /\ b \in Int /\ c \in Int /\ c <= NSessions /\ NSessions \in Int
  BY StorageAssumption DEF Sessions
<1>2. a < c /\ b < c
  <2>1. c # a /\ c # b
    OBVIOUS
  <2>2. ~(c < a) /\ ~(c < b)
    BY DEF StageInv, Entered
  <2> QED
    BY <1>1, <2>1, <2>2
<1>3. a < NSessions /\ b < NSessions /\ (a < b \/ b < a)
  BY <1>1, <1>2
<1> QED
  BY <1>3 DEF InTurn

\* The next session is appointed.
LEMMA AppointKept ==
  ASSUME TypeOK, KeptInv, NEW a \in Sessions, Appoint(a)
  PROVE  KeptInv'
<1>1. /\ phase[a] = "none" /\ phase'[a] = "appointed"
      /\ \A b \in Sessions \ {a} : phase'[b] = phase[b]
      /\ a - 1 \in Sessions => phase[a - 1] \in {"playing", "saving", "over", "failed"}
  BY DEF Appoint, TypeOK, SessionsOK
<1>2. UNCHANGED <<base, cache, replies, rpc, saving, db, latest, expected, ethGot, chainReq,
                  chain>>
  BY DEF Appoint, readVars, writeVars
<1>3. \A b \in Sessions : Entered(b)' <=> Entered(b)
  BY <1>1 DEF Entered
<1>4. StageInv'
  <2>1. ASSUME NEW b \in Sessions, NEW c \in Sessions, b < c, phase'[c] # "none"
        PROVE  Entered(b)' /\ phase'[b] # "reading"
    <3>1. b # a
      <4>1. b \in Int /\ c \in Int /\ b # c
        BY <2>1, IntFacts
      <4> QED
        BY <1>1, <2>1, <4>1 DEF KeptInv, StageInv, Entered
    <3>2. Entered(b) /\ phase[b] # "reading"
      <4>1. CASE c # a
        BY <1>1, <2>1, <4>1 DEF KeptInv, StageInv
      <4>2. CASE c = a
        <5>1. a \in Int /\ b \in Int /\ a - 1 \in Sessions /\ (b = a - 1 \/ b < a - 1)
          BY <2>1, <4>2, StorageAssumption DEF Sessions
        <5>2. phase[a - 1] \in {"playing", "saving", "over", "failed"}
          BY <1>1, <5>1
        <5> QED
          BY <5>1, <5>2 DEF KeptInv, StageInv, Entered
      <4> QED
        BY <4>1, <4>2
    <3> QED
      BY <1>1, <1>3, <3>1, <3>2
  <2>2. \A b \in Sessions :
          /\ phase'[b] \in {"none", "appointed", "reading"} =>
               cache'[Host[b]] = NoData /\ base'[b] = NoData
          /\ \A s \in Stores : rpc'[b][s] # "none" => phase'[b] \in {"saving", "over"}
          /\ \A s \in Stores : rpc'[b][s] \in {"sent", "acked"} => phase'[b] = "saving"
    BY <1>1, <1>2 DEF KeptInv, StageInv
  <2> QED
    BY <2>1, <2>2 DEF StageInv
<1>5. \A b \in Sessions, q \in {"reading", "playing", "saving"} :
        phase'[b] = q <=> phase[b] = q
  BY <1>1
<1>6. IdleInv' /\ NothingSavedIsLost'
  BY <1>2 DEF KeptInv, IdleInv, NothingSavedIsLost
<1>7. VersionInv'
  BY <1>2, <1>3 DEF KeptInv, VersionInv, Below
<1>8. GainInv'
  BY <1>2, <1>5 DEF KeptInv, GainInv
<1>9. ErrorsInv'
  BY <1>2 DEF KeptInv, ErrorsInv, Brought
<1>10. FutureInv'
  BY <1>2, <1>3, <1>5 DEF KeptInv, FutureInv, Writers, Pending, Many, Consensus
<1>11. ReadingInv'
  BY <1>2, <1>5 DEF KeptInv, ReadingInv, Good, Writers, Pending, Many, Consensus
<1> QED
  BY <1>4, <1>6, <1>7, <1>8, <1>9, <1>10, <1>11 DEF KeptInv

\* A session is entered: its node does not remember the player, so it reads, and more
\* than two thirds of the stores have what it needs.
LEMMA EnterKept ==
  ASSUME TypeOK, ReadInv, KeptInv, NEW a \in Sessions, Enter(a)
  PROVE  KeptInv'
<1>1. phase[a] = "appointed" /\ cache[Host[a]] = NoData /\ base[a] = NoData
  BY DEF Enter, KeptInv, StageInv
<1>2. /\ phase' = [phase EXCEPT ![a] = "reading"]
      /\ expected' = [expected EXCEPT ![a] = latest]
      /\ UNCHANGED <<base, cache, replies, rpc, saving, db, latest, ethGot, chainReq, chain>>
  BY <1>1 DEF Enter, Remembered, writeVars, chainVars
<1>3. /\ phase'[a] = "reading" /\ \A b \in Sessions \ {a} : phase'[b] = phase[b]
      /\ expected'[a] = latest /\ \A b \in Sessions \ {a} : expected'[b] = expected[b]
  BY <1>2 DEF TypeOK, SessionsOK, HistoryOK
<1>4. \A s \in Stores : rpc[a][s] = "none"
  BY <1>1 DEF KeptInv, StageInv
<1>5. ~Entered(a)
  BY <1>1 DEF Entered
<1>6. /\ \A b \in Sessions : ~Entered(b)' => ~Entered(b) /\ b # a
      /\ \A b \in Sessions \ {a} : Entered(b)' <=> Entered(b)
  BY <1>1, <1>3 DEF Entered
<1>7. latest \in Int /\ Sessions \subseteq Int
  BY IntFacts
<1>8. \A c \in Sessions \ {a} : phase[c] # "reading"
  <2> SUFFICES ASSUME NEW c \in Sessions, c # a, phase[c] = "reading" PROVE FALSE
    OBVIOUS
  <2>1. a < c \/ c < a
    BY <1>7
  <2> QED
    BY <1>1, <1>5, <2>1 DEF KeptInv, StageInv
<1>9. IdleInv' /\ NothingSavedIsLost'
  BY <1>1, <1>2, <1>3 DEF KeptInv, IdleInv, NothingSavedIsLost
<1>10. StageInv'
  <2>1. ASSUME NEW b \in Sessions, NEW c \in Sessions, b < c, phase'[c] # "none"
        PROVE  Entered(b)' /\ phase'[b] # "reading"
    <3>1. phase[c] # "none"
      BY <1>1, <1>3, <2>1
    <3>2. Entered(b) /\ phase[b] # "reading"
      BY <2>1, <3>1 DEF KeptInv, StageInv
    <3> QED
      BY <1>3, <1>5, <1>6, <3>2
  <2>2. \A b \in Sessions :
          /\ phase'[b] \in {"none", "appointed", "reading"} =>
               cache'[Host[b]] = NoData /\ base'[b] = NoData
          /\ \A s \in Stores : rpc'[b][s] # "none" => phase'[b] \in {"saving", "over"}
          /\ \A s \in Stores : rpc'[b][s] \in {"sent", "acked"} => phase'[b] = "saving"
    BY <1>1, <1>2, <1>3, <1>4 DEF KeptInv, StageInv
  <2> QED
    BY <2>1, <2>2 DEF StageInv
<1>11. VersionInv'
  BY <1>2, <1>3, <1>5, <1>6 DEF KeptInv, VersionInv, Below
<1>12. GainInv'
  BY <1>2, <1>3, <1>4 DEF KeptInv, GainInv
<1>13. ErrorsInv'
  BY <1>2 DEF KeptInv, ErrorsInv, Brought
<1>14. Writers(latest)'
  <2>1. Writers(latest)
    BY <1>5 DEF KeptInv, FutureInv
  <2> QED
    BY <1>2, <1>3, <1>7, <2>1 DEF Writers, Pending
<1>15. FutureInv'
  BY <1>2, <1>6, <1>14 DEF KeptInv, FutureInv, Many, Consensus
<1>16. ReadingInv'
  <2>1. Many(Good(a))'
    <3>1. Good(a)' = {s \in Stores : db[s] >= latest}
      BY <1>1, <1>2, <1>3 DEF ReadInv, Good
    <3>2. Many({s \in Stores : db[s] >= latest})
      BY <1>5 DEF KeptInv, FutureInv
    <3> QED
      BY <3>1, <3>2 DEF Many, Consensus
  <2>2. Writers(expected[a])'
    BY <1>2, <1>3, <1>14 DEF Writers, Pending
  <2>3. \A c \in Sessions : phase'[c] = "reading" => c = a
    BY <1>3, <1>8
  <2> QED
    BY <2>1, <2>2, <2>3 DEF ReadingInv
<1> QED
  BY <1>9, <1>10, <1>11, <1>12, <1>13, <1>15, <1>16 DEF KeptInv

\* A store replies with what it has.
LEMMA StoreReadsKept ==
  ASSUME TypeOK, ReadInv, KeptInv, NEW a \in Sessions, NEW s \in Stores, StoreReads(a, s)
  PROVE  KeptInv'
<1>1. /\ <<a, s>> \in asked /\ replies' = replies \cup {<<a, s, db[s]>>}
      /\ UNCHANGED <<phase, base, cache, rpc, saving, db, latest, expected, ethGot,
                     chainReq, chain>>
  BY DEF StoreReads, writeVars, chainVars
<1>2. IdleInv' /\ StageInv' /\ GainInv' /\ NothingSavedIsLost'
  BY <1>1 DEF KeptInv, IdleInv, StageInv, GainInv, NothingSavedIsLost, Entered
<1>3. VersionInv'
  <2>1. ASSUME NEW n \in Sessions, Below(n) PROVE Below(n)'
    <3>1. \A b \in Sessions, t \in Stores, v \in Versions : <<b, t, v>> \in replies' => v < n
      BY <1>1, <2>1 DEF Below
    <3> QED
      BY <1>1, <2>1, <3>1 DEF Below
  <2> QED
    BY <1>1, <2>1 DEF KeptInv, VersionInv, Entered
<1>4. ErrorsInv'
  <2>1. db[s] # Absent
    BY DEF KeptInv, VersionInv, Absent
  <2>2. \A b \in Sessions : Brought(b, Absent)' = Brought(b, Absent)
    BY <1>1, <2>1 DEF Brought
  <2> QED
    BY <2>2 DEF KeptInv, ErrorsInv
<1>5. FutureInv'
  BY <1>1 DEF KeptInv, FutureInv, Writers, Pending, Many, Consensus, Entered
<1>6. ReadingInv'
  <2> SUFFICES ASSUME NEW c \in Sessions, phase[c] = "reading"
               PROVE  Many(Good(c))' /\ Writers(expected[c])'
    BY <1>1 DEF ReadingInv
  <2>1. Good(c) \subseteq Good(c)' /\ Good(c)' \subseteq Stores /\ Good(c) \subseteq Stores
    BY <1>1 DEF Good
  <2>2. Many(Good(c)) /\ Writers(expected[c])
    BY DEF KeptInv, ReadingInv
  <2>3. Many(Good(c)')
    BY <2>1, <2>2, ManyGrows
  <2> QED
    BY <1>1, <2>2, <2>3 DEF Writers, Pending, Many, Consensus
<1> QED
  BY <1>2, <1>3, <1>4, <1>5, <1>6 DEF KeptInv

\* A store fails to read: fewer do than a read needs.
LEMMA StoreReadsNothingKept ==
  ASSUME TypeOK, KeptInv, NEW a \in Sessions, NEW s \in Stores, StoreReadsNothing(a, s)
  PROVE  KeptInv'
<1>1. /\ replies' = replies \cup {<<a, s, Absent>>}
      /\ Cardinality(Brought(a, Absent)) < MaxErrors
      /\ UNCHANGED <<phase, base, cache, rpc, saving, db, latest, expected, ethGot,
                     chainReq, chain>>
  BY DEF StoreReadsNothing, writeVars, chainVars
<1>2. IdleInv' /\ StageInv' /\ GainInv' /\ NothingSavedIsLost'
  BY <1>1 DEF KeptInv, IdleInv, StageInv, GainInv, NothingSavedIsLost, Entered
<1>3. VersionInv'
  <2>1. ASSUME NEW n \in Sessions, Below(n) PROVE Below(n)'
    <3>1. Absent < n
      BY StorageAssumption DEF Sessions, Absent
    <3>2. \A b \in Sessions, t \in Stores, v \in Versions : <<b, t, v>> \in replies' => v < n
      BY <1>1, <2>1, <3>1 DEF Below
    <3> QED
      BY <1>1, <2>1, <3>2 DEF Below
  <2> QED
    BY <1>1, <2>1 DEF KeptInv, VersionInv, Entered
<1>4. ErrorsInv'
  <2>1. /\ Brought(a, Absent)' = Brought(a, Absent) \cup {s}
        /\ \A b \in Sessions \ {a} : Brought(b, Absent)' = Brought(b, Absent)
    BY <1>1 DEF Brought
  <2>2. IsFiniteSet(Brought(a, Absent))
    BY StorageAssumption, FS_Subset DEF Brought
  <2>3. /\ Cardinality(Brought(a, Absent)) \in Nat
        /\ \/ Cardinality(Brought(a, Absent)') = Cardinality(Brought(a, Absent))
           \/ Cardinality(Brought(a, Absent)') = Cardinality(Brought(a, Absent)) + 1
    BY <2>1, <2>2, FS_AddElement, FS_CardinalityType
  <2>4. Cardinality(Brought(a, Absent)') <= MaxErrors
    BY <1>1, <2>3, StorageAssumption
  <2> QED
    BY <2>1, <2>4 DEF KeptInv, ErrorsInv
<1>5. FutureInv'
  BY <1>1 DEF KeptInv, FutureInv, Writers, Pending, Many, Consensus, Entered
<1>6. ReadingInv'
  <2> SUFFICES ASSUME NEW c \in Sessions, phase[c] = "reading"
               PROVE  Many(Good(c))' /\ Writers(expected[c])'
    BY <1>1 DEF ReadingInv
  <2>1. Good(c) \subseteq Good(c)' /\ Good(c)' \subseteq Stores /\ Good(c) \subseteq Stores
    BY <1>1 DEF Good
  <2>2. Many(Good(c)) /\ Writers(expected[c])
    BY DEF KeptInv, ReadingInv
  <2>3. Many(Good(c)')
    BY <2>1, <2>2, ManyGrows
  <2> QED
    BY <1>1, <2>2, <2>3 DEF Writers, Pending, Many, Consensus
<1> QED
  BY <1>2, <1>3, <1>4, <1>5, <1>6 DEF KeptInv

\* What a read resolves with is no older than what was saved when it was entered: some
\* store that has brought it is one of those that have what the session needs.
LEMMA ReadIsGood ==
  ASSUME TypeOK, KeptInv, FreshStart, NEW a \in Sessions, NEW v \in Versions,
         phase[a] = "reading", Agreed(a, v)
  PROVE  /\ v >= expected[a] /\ InitUserData(v) = v /\ v # NoData
         /\ \A n \in Sessions : Below(n) => v < n
<1>1. Many(Good(a)) /\ Cardinality(Brought(a, v)) > Consensus
  BY DEF KeptInv, ReadingInv, Agreed
<1>2. PICK s \in Stores : s \in Good(a) /\ s \in Brought(a, v)
  BY <1>1, QuorumsMeet DEF Good, Brought, Many
<1>3. v # Absent
  <2>1. Cardinality(Brought(a, Absent)) <= MaxErrors /\ MaxErrors <= Consensus
    BY DEF KeptInv, ErrorsInv, FreshStart
  <2>2. Cardinality(Brought(a, Absent)) \in Nat /\ MaxErrors \in Nat /\ Consensus \in Nat
    <3>1. IsFiniteSet(Brought(a, Absent))
      BY StorageAssumption, FS_Subset DEF Brought
    <3>2. Cardinality(Stores) \in Nat
      BY StorageAssumption, FS_CardinalityType
    <3> QED
      BY <3>1, <3>2, StorageAssumption, FS_CardinalityType DEF Consensus
  <2> QED
    BY <1>1, <2>1, <2>2
<1>4. v >= expected[a] /\ \A n \in Sessions : Below(n) => v < n
  BY <1>2, <1>3 DEF Good, Brought, Below
<1> QED
  BY <1>3, <1>4, VersionFacts DEF InitUserData

\* A read ends, with a version that is good or with none.
LEMMA ReadEndKept ==
  ASSUME TypeOK, KeptInv, FreshStart, NEW a \in Sessions,
         ReadRejects(a) \/ \E v \in Versions : ReadResolves(a, v)
  PROVE  KeptInv'
<1>1. /\ phase[a] = "reading"
      /\ \A b \in Sessions \ {a} : phase'[b] = phase[b] /\ base'[b] = base[b]
      /\ replies' = {r \in replies : r[1] # a}
      /\ UNCHANGED <<rpc, saving, db, latest, expected, ethGot, chainReq, chain>>
  BY DEF ReadRejects, ReadResolves, ReadEnds, writeVars, chainVars, TypeOK, SessionsOK
<1>2. \A s \in Stores : rpc[a][s] = "none"
  BY <1>1 DEF KeptInv, StageInv
<1>3. /\ \A b \in Sessions \ {a} : cache'[Host[b]] = cache[Host[b]]
      /\ \/ phase'[a] = "failed" /\ UNCHANGED <<base, cache>>
         \/ /\ phase'[a] = "playing" /\ cache'[Host[a]] = base'[a]
            /\ base'[a] >= expected[a] /\ \A n \in Sessions : Below(n) => base'[a] < n
  <2>1. CASE ReadRejects(a)
    BY <2>1 DEF ReadRejects, TypeOK, SessionsOK
  <2>2. ASSUME NEW v \in Versions, ReadResolves(a, v)
        PROVE  /\ \A b \in Sessions \ {a} : cache'[Host[b]] = cache[Host[b]]
               /\ phase'[a] = "playing" /\ cache'[Host[a]] = base'[a]
               /\ base'[a] >= expected[a] /\ \A n \in Sessions : Below(n) => base'[a] < n
    <3>1. /\ v >= expected[a] /\ InitUserData(v) = v
          /\ \A n \in Sessions : Below(n) => v < n
      BY <1>1, <2>2, ReadIsGood DEF ReadResolves
    <3>2. /\ base' = [base EXCEPT ![a] = v] /\ cache' = [cache EXCEPT ![Host[a]] = v]
          /\ phase' = [phase EXCEPT ![a] = "playing"]
      BY <2>2, <3>1 DEF ReadResolves
    <3>3. Host[a] \in Nodes /\ \A b \in Sessions \ {a} : Host[b] \in Nodes /\ Host[b] # Host[a]
      BY StorageAssumption DEF FreshStart
    <3>4. /\ \A b \in Sessions \ {a} : cache'[Host[b]] = cache[Host[b]]
          /\ phase'[a] = "playing" /\ cache'[Host[a]] = v /\ base'[a] = v
      BY <3>2, <3>3 DEF TypeOK, SessionsOK
    <3> QED
      BY <3>1, <3>4
  <2> QED
    BY <2>1, <2>2
<1>4. \A b \in Sessions : Entered(b)' <=> Entered(b)
  BY <1>1, <1>3 DEF Entered
<1>5. IdleInv'
  BY <1>1 DEF KeptInv, IdleInv
<1>6. NothingSavedIsLost'
  BY <1>1, <1>3 DEF KeptInv, NothingSavedIsLost
<1>7. StageInv'
  <2>1. \A b, c \in Sessions : b < c /\ phase'[c] # "none" => Entered(b)' /\ phase'[b] # "reading"
    BY <1>1, <1>3, <1>4 DEF KeptInv, StageInv
  <2>2. \A b \in Sessions :
          /\ phase'[b] \in {"none", "appointed", "reading"} =>
               cache'[Host[b]] = NoData /\ base'[b] = NoData
          /\ \A s \in Stores : rpc'[b][s] # "none" => phase'[b] \in {"saving", "over"}
          /\ \A s \in Stores : rpc'[b][s] \in {"sent", "acked"} => phase'[b] = "saving"
    BY <1>1, <1>2, <1>3 DEF KeptInv, StageInv
  <2> QED
    BY <2>1, <2>2 DEF StageInv
<1>8. VersionInv'
  <2>1. ASSUME NEW n \in Sessions, Below(n) PROVE Below(n)'
    <3>1. \A b \in Sessions : cache'[Host[b]] < n
      BY <1>3, <2>1 DEF Below
    <3> QED
      BY <1>1, <2>1, <3>1 DEF Below
  <2> QED
    BY <1>1, <1>4, <2>1 DEF KeptInv, VersionInv
<1>9. GainInv'
  BY <1>1, <1>2, <1>3 DEF KeptInv, GainInv
<1>10. ErrorsInv'
  <2>1. ASSUME NEW b \in Sessions
        PROVE  Brought(b, Absent)' \in {Brought(b, Absent), {}}
    <3>1. CASE b = a
      BY <1>1, <3>1 DEF Brought
    <3>2. CASE b # a
      BY <1>1, <3>2 DEF Brought
    <3> QED
      BY <3>1, <3>2
  <2>2. Cardinality({}) = 0 /\ MaxErrors \in Nat
    BY FS_EmptySet, StorageAssumption
  <2> QED
    BY <2>1, <2>2 DEF KeptInv, ErrorsInv
<1>12. FutureInv'
  <2>2. Writers(latest) => Writers(latest)'
    BY <1>1, <1>3 DEF Writers, Pending
  <2> QED
    BY <1>1, <1>4, <2>2 DEF KeptInv, FutureInv, Many, Consensus
<1>13. ReadingInv'
  <2> SUFFICES ASSUME NEW c \in Sessions, phase'[c] = "reading"
               PROVE  Many(Good(c))' /\ Writers(expected[c])'
    BY DEF ReadingInv
  <2>1. c # a /\ phase[c] = "reading"
    BY <1>1, <1>3
  <2>2. Good(c)' = Good(c)
    BY <1>1, <2>1 DEF Good
  <2>3. Many(Good(c)) /\ Writers(expected[c])
    BY <2>1 DEF KeptInv, ReadingInv
  <2> QED
    BY <1>1, <1>3, <2>2, <2>3 DEF Writers, Pending, Many, Consensus
<1> QED
  BY <1>5, <1>6, <1>7, <1>8, <1>9, <1>10, <1>12, <1>13 DEF KeptInv

\* The game of a session makes a version of its own, the newest there is.
LEMMA PlayKept ==
  ASSUME TypeOK, KeptInv, FreshStart, NEW a \in Sessions, Play(a)
  PROVE  KeptInv'
<1>1. /\ phase[a] = "playing" /\ cache' = [cache EXCEPT ![Host[a]] = a]
      /\ UNCHANGED <<phase, base, replies, rpc, saving, db, latest, expected, ethGot,
                     chainReq, chain>>
  BY DEF Play, readVars, writeVars, chainVars
<1>2. cache'[Host[a]] = a /\ \A b \in Sessions \ {a} : cache'[Host[b]] = cache[Host[b]]
  <2>1. Host[a] \in Nodes /\ \A b \in Sessions \ {a} : Host[b] \in Nodes /\ Host[b] # Host[a]
    BY StorageAssumption DEF FreshStart
  <2> QED
    BY <1>1, <2>1 DEF TypeOK, SessionsOK
<1>3. Sessions \subseteq Int
  BY IntFacts
<1>4. IdleInv' /\ NothingSavedIsLost' /\ ErrorsInv'
  BY <1>1 DEF KeptInv, IdleInv, NothingSavedIsLost, ErrorsInv, Brought
<1>5. StageInv'
  BY <1>1, <1>2 DEF KeptInv, StageInv, Entered
<1>6. VersionInv'
  <2>1. ASSUME NEW n \in Sessions, ~Entered(n) PROVE Below(n)'
    <3>1. Below(n)
      BY <2>1 DEF KeptInv, VersionInv
    <3>2. a < n
      <4>1. a # n /\ ~(n < a)
        BY <1>1, <2>1 DEF KeptInv, StageInv, Entered
      <4> QED
        BY <1>3, <4>1
    <3> QED
      BY <1>1, <1>2, <3>1, <3>2 DEF Below
  <2> QED
    BY <1>1, <2>1 DEF KeptInv, VersionInv, Entered
<1>7. GainInv'
  <2>1. expected[a] < a /\ expected[a] \in Int /\ a \in Int
    BY IntFacts DEF KeptInv, VersionInv
  <2> QED
    BY <1>1, <1>2, <2>1 DEF KeptInv, GainInv
<1>8. FutureInv'
  BY <1>1 DEF KeptInv, FutureInv, Writers, Pending, Many, Consensus, Entered
<1>9. ReadingInv'
  BY <1>1 DEF KeptInv, ReadingInv, Good, Writers, Pending, Many, Consensus
<1> QED
  BY <1>4, <1>5, <1>6, <1>7, <1>8, <1>9 DEF KeptInv

\* A session saves what its node has by then, or fails to have it approved.
LEMMA SaveKept ==
  ASSUME TypeOK, KeptInv, NEW a \in Sessions, Save(a) \/ SaveTimesOut(a)
  PROVE  KeptInv'
<1>1. /\ phase[a] = "playing" /\ phase'[a] \in {"saving", "failed"}
      /\ \A b \in Sessions \ {a} : phase'[b] = phase[b]
      /\ UNCHANGED <<base, cache, replies, db, latest, expected, ethGot, chainReq, chain>>
  BY DEF Save, SaveTimesOut, readVars, chainVars, TypeOK, SessionsOK
<1>2. /\ \A b \in Sessions \ {a} : rpc'[b] = rpc[b] /\ saving'[b] = saving[b]
      /\ \/ /\ phase'[a] = "saving" /\ saving'[a] = cache[Host[a]]
            /\ \A s \in Stores : rpc'[a][s] = "sent"
         \/ phase'[a] = "failed" /\ rpc'[a] = rpc[a] /\ saving'[a] = saving[a]
  BY DEF Save, SaveTimesOut, writeVars, TypeOK, SessionsOK, SavesOK
<1>3. /\ cache[Host[a]] >= expected[a] /\ \A s \in Stores : rpc[a][s] = "none"
  BY <1>1 DEF KeptInv, GainInv, StageInv
<1>4. \A b \in Sessions : Entered(b)' <=> Entered(b)
  BY <1>1 DEF Entered
<1>5. IdleInv' /\ NothingSavedIsLost' /\ ErrorsInv'
  BY <1>1 DEF KeptInv, IdleInv, NothingSavedIsLost, ErrorsInv, Brought
<1>6. StageInv'
  <2>1. \A b, c \in Sessions : b < c /\ phase'[c] # "none" => Entered(b)' /\ phase'[b] # "reading"
    BY <1>1, <1>4 DEF KeptInv, StageInv
  <2>2. \A b \in Sessions :
          /\ phase'[b] \in {"none", "appointed", "reading"} =>
               cache'[Host[b]] = NoData /\ base'[b] = NoData
          /\ \A s \in Stores : rpc'[b][s] # "none" => phase'[b] \in {"saving", "over"}
          /\ \A s \in Stores : rpc'[b][s] \in {"sent", "acked"} => phase'[b] = "saving"
    BY <1>1, <1>2, <1>3 DEF KeptInv, StageInv
  <2> QED
    BY <2>1, <2>2 DEF StageInv
<1>7. VersionInv'
  <2>1. ASSUME NEW n \in Sessions, Below(n) PROVE Below(n)'
    <3>1. \A b \in Sessions : saving'[b] < n
      BY <1>2, <2>1 DEF Below
    <3> QED
      BY <1>1, <2>1, <3>1 DEF Below
  <2> QED
    BY <1>1, <1>4, <2>1 DEF KeptInv, VersionInv
<1>8. GainInv'
  BY <1>1, <1>2, <1>3 DEF KeptInv, GainInv
<1>9. ASSUME NEW n \in Int, Writers(n)
      PROVE  \A b \in Sessions :
               /\ phase'[b] \in {"reading", "playing", "saving"} => expected'[b] >= n
               /\ \A s \in Stores : rpc'[b][s] \in {"sent", "orphan"} => saving'[b] >= n
  <2>1. expected[a] >= n /\ expected[a] \in Int /\ cache[Host[a]] \in Int
    BY <1>1, <1>9, IntFacts DEF Writers
  <2>2. cache[Host[a]] >= n
    BY <1>3, <2>1
  <2> QED
    BY <1>1, <1>2, <1>3, <1>9, <2>1, <2>2 DEF Writers, Pending
<1>10. FutureInv'
  <2>1. latest \in Int
    BY IntFacts
  <2>2. Writers(latest) => Writers(latest)'
    BY <1>1, <1>9, <2>1 DEF Writers, Pending
  <2>3. \A b \in Sessions, s \in Stores :
          rpc'[b][s] = "acked" => rpc[b][s] = "acked" /\ saving'[b] = saving[b]
    BY <1>2
  <2> QED
    BY <1>1, <1>4, <2>2, <2>3 DEF KeptInv, FutureInv, Many, Consensus
<1>11. ReadingInv'
  <2> SUFFICES ASSUME NEW c \in Sessions, phase'[c] = "reading"
               PROVE  Many(Good(c))' /\ Writers(expected[c])'
    BY DEF ReadingInv
  <2>1. phase[c] = "reading" /\ expected[c] \in Int
    BY <1>1, IntFacts
  <2>2. Many(Good(c)) /\ Writers(expected[c])
    BY <2>1 DEF KeptInv, ReadingInv
  <2>3. Many(Good(c))'
    BY <1>1, <2>2 DEF Good, Many, Consensus
  <2>4. Writers(expected[c])'
    BY <1>1, <1>9, <2>1, <2>2 DEF Writers, Pending
  <2> QED
    BY <2>3, <2>4
<1> QED
  BY <1>5, <1>6, <1>7, <1>8, <1>10, <1>11 DEF KeptInv

\* A store puts what is saved, be it late: that is no older than what the sessions
\* still to come need, and than what the one that reads needs.
LEMMA StoreWritesKept ==
  ASSUME TypeOK, KeptInv, InTurn, NEW a \in Sessions, NEW s \in Stores,
         NEW answered \in BOOLEAN, StoreWrites(a, s, answered)
  PROVE  KeptInv'
<1>1. /\ Pending(a, s)
      /\ db' = [db EXCEPT ![s] = saving[a]]
      /\ UNCHANGED <<phase, base, cache, replies, saving, latest, expected, ethGot,
                     chainReq, chain>>
  BY DEF StoreWrites, Put, Pending, readVars, chainVars
<1>2. \E x \in {"acked", "ended"} : /\ rpc' = [rpc EXCEPT ![a][s] = x]
                                    /\ x = "acked" => rpc[a][s] = "sent"
  BY DEF StoreWrites
<1>3. /\ db'[s] = saving[a] /\ \A t \in Stores \ {s} : db'[t] = db[t]
      /\ \A b \in Sessions, t \in Stores : b # a \/ t # s => rpc'[b][t] = rpc[b][t]
      /\ \/ rpc'[a][s] = "acked" /\ rpc[a][s] = "sent"
         \/ rpc'[a][s] = "ended"
  BY <1>1, <1>2 DEF TypeOK, StoresOK, SavesOK
<1>4. /\ saving[a] >= expected[a] /\ phase[a] \in {"saving", "over"}
      /\ 0 <= expected[a] /\ saving[a] \in Int /\ expected[a] \in Int
  BY <1>1, IntFacts DEF KeptInv, GainInv, StageInv, VersionInv, Pending
<1>5. \A b \in Sessions : Entered(b)' <=> Entered(b)
  BY <1>1 DEF Entered
<1>6. IdleInv' /\ NothingSavedIsLost' /\ ErrorsInv'
  BY <1>1 DEF KeptInv, IdleInv, NothingSavedIsLost, ErrorsInv, Brought
<1>7. StageInv'
  <2>1. \A b, c \in Sessions : b < c /\ phase'[c] # "none" => Entered(b)' /\ phase'[b] # "reading"
    BY <1>1, <1>5 DEF KeptInv, StageInv
  <2>2. \A b \in Sessions :
          /\ phase'[b] \in {"none", "appointed", "reading"} =>
               cache'[Host[b]] = NoData /\ base'[b] = NoData
          /\ \A t \in Stores : rpc'[b][t] # "none" => phase'[b] \in {"saving", "over"}
          /\ \A t \in Stores : rpc'[b][t] \in {"sent", "acked"} => phase'[b] = "saving"
    BY <1>1, <1>3, <1>4 DEF KeptInv, StageInv
  <2> QED
    BY <2>1, <2>2 DEF StageInv
<1>8. VersionInv'
  <2>1. ASSUME NEW n \in Sessions, Below(n) PROVE Below(n)'
    <3>1. \A t \in Stores : db'[t] < n
      BY <1>3, <2>1 DEF Below
    <3> QED
      BY <1>1, <2>1, <3>1 DEF Below
  <2>2. \A t \in Stores : db'[t] >= 0
    BY <1>3, <1>4 DEF KeptInv, VersionInv
  <2> QED
    BY <1>1, <1>5, <2>1, <2>2 DEF KeptInv, VersionInv
<1>9. GainInv'
  <2>1. \A b \in Sessions : (\E t \in Stores : rpc'[b][t] # "none") => \E t \in Stores : rpc[b][t] # "none"
    BY <1>1, <1>3 DEF Pending
  <2> QED
    BY <1>1, <2>1 DEF KeptInv, GainInv
<1>10. \A b \in Sessions, t \in Stores :
         rpc'[b][t] \in {"sent", "orphan"} => rpc[b][t] \in {"sent", "orphan"}
  BY <1>3
<1>11. FutureInv'
  <2> SUFFICES ASSUME NEW c \in Sessions, ~Entered(c)
               PROVE  /\ Many({t \in Stores : db[t] >= latest})'
                      /\ Writers(latest)'
                      /\ \A b \in Sessions, t \in Stores : rpc'[b][t] = "acked" => db'[t] = saving'[b]
    BY <1>5 DEF FutureInv
  <2>1. /\ Many({t \in Stores : db[t] >= latest}) /\ Writers(latest)
        /\ \A b \in Sessions, t \in Stores : rpc[b][t] = "acked" => db[t] = saving[b]
    BY DEF KeptInv, FutureInv
  <2>2. saving[a] >= latest
    BY <1>1, <2>1 DEF Writers
  <2>3. Many({t \in Stores : db'[t] >= latest})
    <3> DEFINE S == {t \in Stores : db[t] >= latest}
               T == {t \in Stores : db'[t] >= latest}
    <3>1. S \subseteq T /\ S \in SUBSET Stores /\ T \in SUBSET Stores
      BY <1>3, <2>2
    <3>2. Many(S)
      BY <2>1
    <3> HIDE DEF S, T
    <3>3. Many(T)
      BY <3>1, <3>2, ManyGrows
    <3> QED
      BY <3>3 DEF T
  <2>4. ASSUME NEW b \in Sessions, NEW t \in Stores, rpc'[b][t] = "acked"
        PROVE  db'[t] = saving'[b]
    <3>1. CASE b = a /\ t = s
      BY <1>1, <1>3, <3>1
    <3>2. CASE t # s
      BY <1>1, <1>3, <2>1, <2>4, <3>2
    <3>3. CASE b # a
      <4>1. phase[b] = "saving"
        BY <1>3, <2>4, <3>3 DEF KeptInv, StageInv
      <4>2. Entered(a) /\ Entered(b)
        BY <1>4, <4>1 DEF Entered
      <4>3. ~Through(a) /\ ~Through(b)
        BY <1>1, <4>1 DEF Through
      <4> QED
        BY <3>3, <4>2, <4>3, OneIsThrough DEF KeptInv
    <3> QED
      BY <3>1, <3>2, <3>3
  <2> QED
    BY <1>1, <1>10, <2>1, <2>3, <2>4 DEF Writers, Pending, Many, Consensus
<1>12. ReadingInv'
  <2> SUFFICES ASSUME NEW c \in Sessions, phase[c] = "reading"
               PROVE  Many(Good(c))' /\ Writers(expected[c])'
    BY <1>1 DEF ReadingInv
  <2>1. Many(Good(c)) /\ Writers(expected[c])
    BY DEF KeptInv, ReadingInv
  <2>2. saving[a] >= expected[c]
    BY <1>1, <2>1 DEF Writers
  <2>3. Good(c) \subseteq Good(c)' /\ Good(c)' \subseteq Stores /\ Good(c) \subseteq Stores
    BY <1>1, <1>3, <2>2 DEF Good
  <2>4. Many(Good(c)')
    BY <2>1, <2>3, ManyGrows
  <2> QED
    BY <1>1, <1>10, <2>1, <2>4 DEF Writers, Pending, Many, Consensus
<1> QED
  BY <1>6, <1>7, <1>8, <1>9, <1>11, <1>12 DEF KeptInv

\* A write is refused, or its caller does not hear of it.
LEMMA WriteFailsKept ==
  ASSUME TypeOK, KeptInv, NEW a \in Sessions, NEW s \in Stores,
         StoreRefuses(a, s) \/ ConnectionBreaks(a, s)
  PROVE  KeptInv'
<1>1. /\ Pending(a, s)
      /\ UNCHANGED <<phase, base, cache, replies, saving, db, latest, expected, ethGot,
                     chainReq, chain>>
  BY DEF StoreRefuses, ConnectionBreaks, Pending, readVars, chainVars
<1>2. \E x \in {"ended", "orphan"} : rpc' = [rpc EXCEPT ![a][s] = x]
  BY DEF StoreRefuses, ConnectionBreaks
<1>3. /\ \A b \in Sessions, t \in Stores : b # a \/ t # s => rpc'[b][t] = rpc[b][t]
      /\ rpc'[a][s] \in {"ended", "orphan"}
  BY <1>2 DEF TypeOK, SavesOK
<1>4. /\ \A b \in Sessions, t \in Stores :
           /\ rpc'[b][t] # "none" => rpc[b][t] # "none"
           /\ rpc'[b][t] \in {"sent", "acked"} => rpc'[b][t] = rpc[b][t]
           /\ rpc'[b][t] \in {"sent", "orphan"} => rpc[b][t] \in {"sent", "orphan"}
  BY <1>1, <1>3 DEF Pending
<1>5. IdleInv' /\ NothingSavedIsLost' /\ ErrorsInv' /\ VersionInv'
  BY <1>1 DEF KeptInv, IdleInv, NothingSavedIsLost, ErrorsInv, Brought, VersionInv, Below,
              Entered
<1>6. StageInv' /\ GainInv'
  BY <1>1, <1>4 DEF KeptInv, StageInv, GainInv, Entered
<1>7. FutureInv'
  <2> SUFFICES ASSUME NEW c \in Sessions, ~Entered(c)
               PROVE  /\ Many({t \in Stores : db[t] >= latest})'
                      /\ Writers(latest)'
                      /\ \A b \in Sessions, t \in Stores : rpc'[b][t] = "acked" => db'[t] = saving'[b]
    BY <1>1 DEF FutureInv, Entered
  <2>1. /\ Many({t \in Stores : db[t] >= latest}) /\ Writers(latest)
        /\ \A b \in Sessions, t \in Stores : rpc[b][t] = "acked" => db[t] = saving[b]
    BY DEF KeptInv, FutureInv
  <2>2. Writers(latest)'
    BY <1>1, <1>4, <2>1 DEF Writers, Pending
  <2> QED
    BY <1>1, <1>4, <2>1, <2>2 DEF Many, Consensus
<1>8. ReadingInv'
  BY <1>1, <1>4 DEF KeptInv, ReadingInv, Good, Writers, Pending, Many, Consensus
<1> QED
  BY <1>5, <1>6, <1>7, <1>8 DEF KeptInv

\* A save is answered: with success only when more than two thirds of the stores have
\* what was saved, as long as a session is still to come.
LEMMA SaveSettlesKept ==
  ASSUME TypeOK, KeptInv, InTurn, NEW a \in Sessions, SaveSettles(a)
  PROVE  KeptInv'
<1>1. /\ phase[a] = "saving" /\ phase'[a] = "over"
      /\ \A b \in Sessions \ {a} : phase'[b] = phase[b]
      /\ UNCHANGED <<base, cache, replies, saving, db, expected, ethGot, chainReq, chain>>
  BY DEF SaveSettles, readVars, chainVars, TypeOK, SessionsOK
<1>2. /\ \A s \in Stores : rpc[a][s] # "sent"
      /\ \A b \in Sessions \ {a} : rpc'[b] = rpc[b]
      /\ \A s \in Stores : rpc'[a][s] = IF rpc[a][s] = "acked" THEN "ended" ELSE rpc[a][s]
  BY DEF SaveSettles, TypeOK, SavesOK
<1>3. latest' = latest \/ (latest' = saving[a] /\ Many(Fulfilled(a)))
  BY DEF SaveSettles, Many
<1>4. \A b \in Sessions : Entered(b)' <=> Entered(b)
  BY <1>1 DEF Entered
<1>5. /\ saving[a] >= expected[a] /\ 0 <= expected[a] /\ latest >= 0
      /\ saving[a] \in Int /\ expected[a] \in Int /\ latest \in Int
  BY <1>1, IntFacts DEF KeptInv, GainInv, VersionInv
<1>6. IdleInv' /\ NothingSavedIsLost' /\ ErrorsInv'
  BY <1>1 DEF KeptInv, IdleInv, NothingSavedIsLost, ErrorsInv, Brought
<1>7. StageInv'
  <2>1. \A b, c \in Sessions : b < c /\ phase'[c] # "none" => Entered(b)' /\ phase'[b] # "reading"
    BY <1>1, <1>4 DEF KeptInv, StageInv
  <2>2. \A b \in Sessions :
          /\ phase'[b] \in {"none", "appointed", "reading"} =>
               cache'[Host[b]] = NoData /\ base'[b] = NoData
          /\ \A s \in Stores : rpc'[b][s] # "none" => phase'[b] \in {"saving", "over"}
          /\ \A s \in Stores : rpc'[b][s] \in {"sent", "acked"} => phase'[b] = "saving"
    BY <1>1, <1>2 DEF KeptInv, StageInv
  <2> QED
    BY <2>1, <2>2 DEF StageInv
<1>8. VersionInv'
  <2>1. ASSUME NEW n \in Sessions, Below(n) PROVE Below(n)'
    BY <1>1, <1>3, <2>1 DEF Below
  <2>2. latest' >= 0
    BY <1>3, <1>5
  <2> QED
    BY <1>1, <1>4, <2>1, <2>2 DEF KeptInv, VersionInv
<1>9. GainInv'
  BY <1>1, <1>2 DEF KeptInv, GainInv
<1>10. \A b \in Sessions, s \in Stores :
         /\ rpc'[b][s] \in {"sent", "orphan"} => rpc[b][s] \in {"sent", "orphan"}
         /\ rpc'[b][s] = "acked" => rpc[b][s] = "acked"
  BY <1>2
<1>11. FutureInv'
  <2> SUFFICES ASSUME NEW c \in Sessions, ~Entered(c)
               PROVE  /\ Many({s \in Stores : db[s] >= latest})'
                      /\ Writers(latest)'
                      /\ \A b \in Sessions, s \in Stores :
                           rpc'[b][s] = "acked" => db'[s] = saving'[b]
    BY <1>4 DEF FutureInv
  <2>1. /\ Many({s \in Stores : db[s] >= latest}) /\ Writers(latest)
        /\ \A b \in Sessions, s \in Stores : rpc[b][s] = "acked" => db[s] = saving[b]
    BY DEF KeptInv, FutureInv
  <2>2. Many({s \in Stores : db[s] >= latest'})
    <3>1. CASE latest' = latest
      BY <2>1, <3>1
    <3>2. CASE latest' = saving[a] /\ Many(Fulfilled(a))
      <4> DEFINE T == {s \in Stores : db[s] >= saving[a]}
      <4>1. Fulfilled(a) \subseteq T /\ Fulfilled(a) \in SUBSET Stores /\ T \in SUBSET Stores
        BY <1>5, <2>1 DEF Fulfilled
      <4> HIDE DEF T
      <4>2. Many(T)
        BY <3>2, <4>1, ManyGrows
      <4> QED
        BY <3>2, <4>2 DEF T
    <3> QED
      BY <1>3, <3>1, <3>2
  <2>3. ASSUME NEW b \in Sessions, b # a
        PROVE  /\ phase[b] \notin {"reading", "playing", "saving"}
               /\ \A s \in Stores : ~Pending(b, s)
    <3>1. Entered(a) /\ ~Through(a)
      BY <1>1 DEF Entered, Through
    <3>2. Entered(b) => Through(b)
      BY <2>3, <3>1, OneIsThrough DEF KeptInv
    <3>3. ~Entered(b) => \A s \in Stores : rpc[b][s] = "none"
      BY DEF KeptInv, StageInv, Entered
    <3> QED
      BY <3>2, <3>3 DEF Entered, Through, Pending
  <2>4. \A s \in Stores : Pending(a, s) => saving[a] >= latest'
    BY <1>3, <1>5, <2>1 DEF Writers
  <2>5. Writers(latest)'
    BY <1>1, <1>10, <2>3, <2>4 DEF Writers, Pending
  <2> QED
    BY <1>1, <1>10, <2>1, <2>2, <2>5 DEF Many, Consensus
<1>12. ReadingInv'
  <2> SUFFICES ASSUME NEW c \in Sessions, phase'[c] = "reading"
               PROVE  Many(Good(c))' /\ Writers(expected[c])'
    BY DEF ReadingInv
  <2>1. phase[c] = "reading"
    BY <1>1
  <2>2. Many(Good(c)) /\ Writers(expected[c])
    BY <2>1 DEF KeptInv, ReadingInv
  <2>3. Many(Good(c))'
    BY <1>1, <2>2 DEF Good, Many, Consensus
  <2>4. Writers(expected[c])'
    BY <1>1, <1>10, <2>2 DEF Writers, Pending
  <2> QED
    BY <2>3, <2>4
<1> QED
  BY <1>6, <1>7, <1>8, <1>9, <1>11, <1>12 DEF KeptInv

LEMMA KeptStep ==
  ASSUME TypeOK, ReadInv, KeptInv, InTurn, FreshStart, [Next]_vars
  PROVE  KeptInv'
<1> USE DEF keptVars, readVars, writeVars, chainVars
<1>1. ASSUME NEW a \in Sessions,
             \/ Appoint(a) \/ Enter(a) \/ ReadRejects(a)
             \/ Play(a) \/ Save(a) \/ SaveTimesOut(a) \/ SaveSettles(a)
      PROVE KeptInv'
  BY <1>1, AppointKept, EnterKept, ReadEndKept, PlayKept, SaveKept, SaveSettlesKept
<1>2. ASSUME NEW a \in Sessions, NEW v \in Versions, ReadResolves(a, v) PROVE KeptInv'
  BY <1>2, ReadEndKept
<1>3. ASSUME NEW a \in Sessions, NEW s \in Stores, StoreReads(a, s) \/ StoreReadsNothing(a, s)
      PROVE KeptInv'
  BY <1>3, StoreReadsKept, StoreReadsNothingKept
<1>4. ASSUME NEW a \in Sessions, NEW s \in Stores, StoreRefuses(a, s) \/ ConnectionBreaks(a, s)
      PROVE KeptInv'
  BY <1>4, WriteFailsKept
<1>5. ASSUME NEW a \in Sessions, NEW s \in Stores, NEW answered \in BOOLEAN,
             StoreWrites(a, s, answered)
      PROVE KeptInv'
  BY <1>5, StoreWritesKept
<1>6. ASSUME NEW a \in Sessions, NEW s \in Stores, EthAnswers(a, s) PROVE KeptInv'
  <2>1. chain = NoData
    BY DEF KeptInv, IdleInv
  <2> QED
    BY <1>6, <2>1, QuietKept DEF EthAnswers
<1>7. ASSUME NEW a \in Sessions, NEW s \in Stores,
             OnAppointed(a, s) \/ EthFails(a, s) \/ ReadFails(a, s)
      PROVE KeptInv'
  BY <1>7, QuietKept DEF OnAppointed, EthFails, ReadFails
<1>8. ASSUME NEW b \in Sessions \cup Grants, NEW s \in Stores,
             OnAddPermission(b, s) \/ PermissionExpires(b, s)
      PROVE KeptInv'
  BY <1>8, QuietKept DEF OnAddPermission, PermissionExpires
<1>9. ASSUME NEW a \in Sessions, NEW s \in Stores, JobRequests(a, s) PROVE FALSE
  BY <1>9 DEF JobRequests, FreshStart
<1>10. ASSUME NEW a \in Sessions, NEW s \in Stores, NEW v \in Versions,
              EthPut(a, s, v) \/ \E accepts \in BOOLEAN : CenterAnswers(a, s, v, accepts)
       PROVE FALSE
  BY <1>10 DEF EthPut, CenterAnswers, KeptInv, IdleInv
<1>11. CASE UNCHANGED vars
  BY <1>11, QuietKept DEF vars
<1> QED
  BY <1>1, <1>2, <1>3, <1>4, <1>5, <1>6, <1>7, <1>8, <1>9, <1>10, <1>11 DEF Next

\* From a fresh start, and with saves in turn, no session begins with a version older
\* than the last save that was answered with success before it was entered
\* (NothingSavedIsLost), for any number of stores and sessions: loadUserFromStorage
\* and write ask for more than two thirds each, so a read meets every earlier save.
THEOREM SavedInTurnKept ==
  ASSUME FreshStart
  PROVE  Spec /\ []InTurn => []NothingSavedIsLost
<1>1. Init => TypeOK /\ ReadInv /\ KeptInv
  BY InitType, InitRead, InitKept
<1>2. TypeOK /\ ReadInv /\ [Next]_vars => TypeOK' /\ ReadInv'
  BY NextType, NextRead
<1>3. TypeOK /\ ReadInv /\ KeptInv /\ InTurn /\ [Next]_vars => KeptInv'
  BY KeptStep
<1>4. KeptInv => NothingSavedIsLost
  BY DEF KeptInv
<1> QED
  BY <1>1, <1>2, <1>3, <1>4, PTL DEF Spec

\* The second of two sessions may begin, read and save whatever is still under way of
\* the first, late writes included.
THEOREM TwoSessionsKept ==
  ASSUME FreshStart, NSessions <= 2
  PROVE  Spec => []NothingSavedIsLost
<1>1. InTurn
  <2>1. \A a, b \in Sessions : a < b => ~(b < NSessions)
    BY StorageAssumption DEF Sessions
  <2> QED
    BY <2>1 DEF InTurn
<1> QED
  BY <1>1, SavedInTurnKept, PTL

-----------------------------------------------------------------------------
(* That the player's data are a register.                                  *)

\* The version the sessions began with, or one that was saved.
Given(v) == v = 0 \/ \E b \in Sessions : saving[b] = v

\* Stores have and bring only versions that were saved; a session plays and saves the
\* version it began with or its own, and what it began with was made before it.
OriginInv ==
  /\ \A s \in Stores : Given(db[s])
  /\ \A a \in Sessions, s \in Stores, v \in Versions :
       <<a, s, v>> \in replies => Given(v) \/ v = Absent
  /\ \A a \in Sessions :
       /\ base[a] < a /\ saving[a] <= a
       /\ saving[a] # NoData => phase[a] \in {"saving", "over"}
       /\ phase[a] = "playing" => cache[Host[a]] \in {base[a], a}

\* While a session reads that is not the last nothing is written.
EchoInv == \A a \in Sessions : a < NSessions /\ phase[a] = "reading" =>
  \A s \in Stores, v \in Versions : <<a, s, v>> \in replies => v \in {db[s], Absent}

\* The stores that have version n or a newer one, and have brought no older one.
NotBefore(a, n) == {s \in Stores : /\ db[s] >= n
                                   /\ \A v \in Versions : <<a, s, v>> \in replies =>
                                        v >= n \/ v = Absent}

\* From now on version n or a newer one is read and written.
Settled(n) ==
  /\ Many({s \in Stores : db[s] >= n})
  /\ \A a \in Sessions :
       /\ phase[a] = "reading" => Many(NotBefore(a, n))
       /\ phase[a] = "playing" => cache[Host[a]] >= n
       /\ \A s \in Stores : Pending(a, s) => saving[a] >= n

Begun(n) == \E a \in Sessions : a < NSessions /\ base[a] = n

\* What a session has begun with is settled.
FloorInv == \A n \in Versions : Begun(n) => Settled(n)

RegisterInv == OriginInv /\ EchoInv /\ FloorInv

LEMMA InitRegister == ASSUME FreshStart, Init PROVE RegisterInv
<1>1. /\ \A a \in Sessions : a \in Nat \ {0} /\ Host[a] \in Nodes
      /\ NoData = -4 /\ NoData \notin Versions
  BY StorageAssumption, VersionFacts DEF Sessions, NoData
<1>2. /\ \A s \in Stores : db[s] = 0
      /\ \A a \in Sessions : phase[a] = "none" /\ base[a] = NoData /\ saving[a] = NoData
      /\ replies = {}
  BY <1>1 DEF FreshStart, Init
<1>3. OriginInv
  BY <1>1, <1>2 DEF OriginInv, Given
<1>4. EchoInv /\ FloorInv
  BY <1>1, <1>2 DEF EchoInv, FloorInv, Begun
<1> QED
  BY <1>3, <1>4 DEF RegisterInv

LEMMA QuietRegister ==
  ASSUME RegisterInv, UNCHANGED keptVars
  PROVE  RegisterInv'
<1> USE DEF keptVars
<1>1. OriginInv' /\ EchoInv'
  BY DEF RegisterInv, OriginInv, Given, EchoInv
<1>2. FloorInv'
  BY DEF RegisterInv, FloorInv, Begun, Settled, NotBefore, Pending, Many, Consensus
<1> QED
  BY <1>1, <1>2 DEF RegisterInv

\* The next session is appointed.
LEMMA AppointRegister ==
  ASSUME TypeOK, RegisterInv, NEW a \in Sessions, Appoint(a)
  PROVE  RegisterInv'
<1>1. /\ phase[a] = "none" /\ phase'[a] = "appointed"
      /\ \A b \in Sessions \ {a} : phase'[b] = phase[b]
      /\ UNCHANGED <<base, cache, replies, rpc, saving, db>>
  BY DEF Appoint, readVars, writeVars, TypeOK, SessionsOK
<1>2. \A b \in Sessions, q \in {"reading", "playing", "saving", "over"} :
        phase'[b] = q <=> phase[b] = q
  BY <1>1
<1>3. OriginInv'
  BY <1>1, <1>2 DEF RegisterInv, OriginInv, Given
<1>4. EchoInv'
  BY <1>1, <1>2 DEF RegisterInv, EchoInv
<1>5. FloorInv'
  <2> SUFFICES ASSUME NEW n \in Versions, Begun(n)' PROVE Settled(n)'
    BY DEF FloorInv
  <2>1. Settled(n)
    BY <1>1 DEF RegisterInv, FloorInv, Begun
  <2> QED
    BY <1>1, <1>2, <2>1 DEF Settled, NotBefore, Pending, Many, Consensus
<1> QED
  BY <1>3, <1>4, <1>5 DEF RegisterInv

\* A session is entered: nothing has been brought to it.
LEMMA EnterRegister ==
  ASSUME TypeOK, ReadInv, KeptInv, RegisterInv, NEW a \in Sessions, Enter(a)
  PROVE  RegisterInv'
<1>1. phase[a] = "appointed" /\ cache[Host[a]] = NoData
  BY DEF Enter, KeptInv, StageInv
<1>2. /\ phase'[a] = "reading" /\ \A b \in Sessions \ {a} : phase'[b] = phase[b]
      /\ UNCHANGED <<base, cache, replies, rpc, saving, db>>
  BY <1>1 DEF Enter, Remembered, writeVars, TypeOK, SessionsOK
<1>3. \A s \in Stores, v \in Versions : <<a, s, v>> \notin replies
  BY <1>1 DEF ReadInv
<1>4. \A b \in Sessions, q \in {"playing", "saving", "over"} :
        phase'[b] = q <=> phase[b] = q
  BY <1>1, <1>2
<1>5. OriginInv'
  BY <1>2, <1>4 DEF RegisterInv, OriginInv, Given
<1>6. EchoInv'
  BY <1>2, <1>3 DEF RegisterInv, EchoInv
<1>7. FloorInv'
  <2> SUFFICES ASSUME NEW n \in Versions, Begun(n)' PROVE Settled(n)'
    BY DEF FloorInv
  <2>1. Settled(n)
    BY <1>2 DEF RegisterInv, FloorInv, Begun
  <2>2. NotBefore(a, n)' = {s \in Stores : db[s] >= n}
    BY <1>2, <1>3 DEF NotBefore
  <2>3. Many({s \in Stores : db[s] >= n})
    BY <2>1 DEF Settled
  <2>4. Many(NotBefore(a, n))'
    BY <2>2, <2>3 DEF Many, Consensus
  <2>5. ASSUME NEW b \in Sessions, b # a, phase'[b] = "reading"
        PROVE  Many(NotBefore(b, n))'
    BY <1>2, <2>1, <2>5 DEF Settled, NotBefore, Many, Consensus
  <2>6. \A b \in Sessions : /\ phase'[b] = "playing" => cache'[Host[b]] >= n
                            /\ \A s \in Stores : Pending(b, s)' => saving'[b] >= n
    BY <1>2, <1>4, <2>1 DEF Settled, Pending
  <2>7. Many({s \in Stores : db[s] >= n})'
    BY <1>2, <2>3 DEF Many, Consensus
  <2> QED
    BY <2>4, <2>5, <2>6, <2>7 DEF Settled
<1> QED
  BY <1>5, <1>6, <1>7 DEF RegisterInv

\* A store replies: with what it has, or with nothing when it fails to read.
LEMMA RepliesRegister ==
  ASSUME TypeOK, RegisterInv, NEW a \in Sessions, NEW s \in Stores,
         StoreReads(a, s) \/ StoreReadsNothing(a, s)
  PROVE  RegisterInv'
<1>1. PICK w \in {db[s], Absent} : replies' = replies \cup {<<a, s, w>>}
  BY DEF StoreReads, StoreReadsNothing
<1>2. UNCHANGED <<phase, base, cache, rpc, saving, db>>
  BY DEF StoreReads, StoreReadsNothing, writeVars
<1>3. \A b \in Sessions, t \in Stores, v \in Versions : <<b, t, v>> \in replies' =>
        <<b, t, v>> \in replies \/ v = Absent \/ v = db[t]
  BY <1>1
<1>4. OriginInv'
  <2>1. \A b \in Sessions, t \in Stores, v \in Versions :
          <<b, t, v>> \in replies' => Given(v) \/ v = Absent
    BY <1>3 DEF RegisterInv, OriginInv
  <2> QED
    BY <1>2, <2>1 DEF RegisterInv, OriginInv, Given
<1>5. EchoInv'
  BY <1>2, <1>3 DEF RegisterInv, EchoInv
<1>6. FloorInv'
  <2> SUFFICES ASSUME NEW n \in Versions, Begun(n)' PROVE Settled(n)'
    BY DEF FloorInv
  <2>1. Settled(n)
    BY <1>2 DEF RegisterInv, FloorInv, Begun
  <2>2. ASSUME NEW b \in Sessions, phase[b] = "reading"
        PROVE  Many(NotBefore(b, n)')
    <3>1. Many(NotBefore(b, n))
      BY <2>1, <2>2 DEF Settled
    <3>2. /\ NotBefore(b, n) \subseteq NotBefore(b, n)'
          /\ NotBefore(b, n) \subseteq Stores /\ NotBefore(b, n)' \subseteq Stores
      BY <1>2, <1>3 DEF NotBefore
    <3> QED
      BY <3>1, <3>2, ManyGrows
  <2>3. \A b \in Sessions : phase'[b] = "reading" => Many(NotBefore(b, n))'
    BY <1>2, <2>2 DEF Many, Consensus
  <2> QED
    BY <1>2, <2>1, <2>3 DEF Settled, Pending, Many, Consensus
<1> QED
  BY <1>4, <1>5, <1>6 DEF RegisterInv

\* What a read resolves with was saved, and is no older than what is settled.
LEMMA ReadIsSettled ==
  ASSUME TypeOK, KeptInv, FreshStart, RegisterInv,
         NEW a \in Sessions, NEW v \in Versions, phase[a] = "reading", Agreed(a, v)
  PROVE  /\ v # Absent /\ InitUserData(v) = v /\ Given(v)
         /\ \A n \in Versions : Settled(n) => v >= n
<1>1. InitUserData(v) = v
  BY ReadIsGood
<1>2. v # Absent
  BY <1>1 DEF InitUserData, Absent, Empty
<1>3. Many(Brought(a, v)) /\ Brought(a, v) \subseteq Stores
  BY DEF Agreed, Many, Brought
<1>4. Given(v)
  <2>1. PICK s \in Stores : s \in Brought(a, v)
    BY <1>3, QuorumsMeet DEF Many
  <2> QED
    BY <1>2, <2>1 DEF Brought, RegisterInv, OriginInv
<1>5. ASSUME NEW n \in Versions, Settled(n) PROVE v >= n
  <2>1. Many(NotBefore(a, n)) /\ NotBefore(a, n) \subseteq Stores
    BY <1>5 DEF Settled, NotBefore
  <2>2. PICK s \in Stores : s \in Brought(a, v) /\ s \in NotBefore(a, n)
    BY <1>3, <2>1, QuorumsMeet DEF Many
  <2> QED
    BY <1>2, <2>2 DEF Brought, NotBefore
<1> QED
  BY <1>1, <1>2, <1>4, <1>5

\* Those before a session that reads, or plays, and is not the last are through; those
\* after it have not been entered.
LEMMA OthersRest ==
  ASSUME TypeOK, KeptInv, InTurn, NEW a \in Sessions, a < NSessions,
         phase[a] = "reading", NEW b \in Sessions, b # a
  PROVE  /\ phase[b] \notin {"reading", "playing", "saving"}
         /\ \A s \in Stores : ~Pending(b, s)
<1>1. CASE b < a
  BY <1>1 DEF InTurn, Entered, Through
<1>2. CASE a < b
  <2>1. phase[b] = "none"
    BY <1>2 DEF KeptInv, StageInv
  <2> QED
    BY <2>1 DEF KeptInv, StageInv, Pending
<1> QED
  BY <1>1, <1>2, IntFacts

\* A read ends: what it brings to a session that is not the last is settled, as nothing
\* is under way; and nothing older than what was settled is brought to any.
LEMMA ReadEndRegister ==
  ASSUME TypeOK, KeptInv, FreshStart, InTurn, RegisterInv, NEW a \in Sessions,
         ReadRejects(a) \/ \E v \in Versions : ReadResolves(a, v)
  PROVE  RegisterInv'
<1>1. /\ phase[a] = "reading"
      /\ \A b \in Sessions \ {a} : phase'[b] = phase[b] /\ base'[b] = base[b]
      /\ replies' = {r \in replies : r[1] # a}
      /\ UNCHANGED <<rpc, saving, db>>
  BY DEF ReadRejects, ReadResolves, ReadEnds, writeVars, TypeOK, SessionsOK
<1>2. /\ \A s \in Stores : rpc[a][s] = "none"
      /\ base[a] = NoData /\ saving[a] = NoData
  BY <1>1 DEF KeptInv, StageInv, RegisterInv, OriginInv
<1>3. /\ \A b \in Sessions \ {a} : cache'[Host[b]] = cache[Host[b]]
      /\ \/ phase'[a] = "failed" /\ UNCHANGED <<base, cache>>
         \/ /\ phase'[a] = "playing" /\ cache'[Host[a]] = base'[a]
            /\ base'[a] \in Versions /\ base'[a] # Absent /\ Agreed(a, base'[a])
            /\ Given(base'[a]) /\ \A n \in Versions : Settled(n) => base'[a] >= n
  <2>1. CASE ReadRejects(a)
    BY <2>1 DEF ReadRejects, TypeOK, SessionsOK
  <2>2. ASSUME NEW v \in Versions, ReadResolves(a, v)
        PROVE  /\ \A b \in Sessions \ {a} : cache'[Host[b]] = cache[Host[b]]
               /\ phase'[a] = "playing" /\ cache'[Host[a]] = base'[a]
               /\ base'[a] \in Versions /\ base'[a] # Absent /\ Agreed(a, base'[a])
               /\ Given(base'[a]) /\ \A n \in Versions : Settled(n) => base'[a] >= n
    <3>1. /\ v # Absent /\ InitUserData(v) = v /\ Given(v) /\ Agreed(a, v)
          /\ \A n \in Versions : Settled(n) => v >= n
      BY <1>1, <2>2, ReadIsSettled DEF ReadResolves
    <3>2. /\ base' = [base EXCEPT ![a] = v] /\ cache' = [cache EXCEPT ![Host[a]] = v]
          /\ phase' = [phase EXCEPT ![a] = "playing"]
      BY <2>2, <3>1 DEF ReadResolves
    <3>3. Host[a] \in Nodes /\ \A b \in Sessions \ {a} : Host[b] \in Nodes /\ Host[b] # Host[a]
      BY StorageAssumption DEF FreshStart
    <3>4. /\ \A b \in Sessions \ {a} : cache'[Host[b]] = cache[Host[b]]
          /\ phase'[a] = "playing" /\ cache'[Host[a]] = v /\ base'[a] = v
      BY <3>2, <3>3 DEF TypeOK, SessionsOK
    <3> QED
      BY <3>1, <3>4
  <2> QED
    BY <2>1, <2>2
<1>4. \A b \in Sessions, s \in Stores, v \in Versions :
        <<b, s, v>> \in replies' <=> b # a /\ <<b, s, v>> \in replies
  BY <1>1
<1>5. OriginInv'
  <2>1. base'[a] < a
    <3>1. CASE base'[a] = base[a]
      BY <3>1 DEF RegisterInv, OriginInv
    <3>2. CASE Given(base'[a]) /\ base'[a] \in Versions
      <4>1. a \in Nat \ {0} /\ NoData \notin Versions
        BY StorageAssumption, VersionFacts DEF Sessions
      <4>2. ASSUME NEW b \in Sessions, saving[b] = base'[a] PROVE base'[a] < a
        <5>1. phase[b] \in {"saving", "over"} /\ saving[b] <= b
          BY <3>2, <4>1, <4>2 DEF RegisterInv, OriginInv
        <5>2. b < a
          <6>1. b # a /\ ~(a < b)
            BY <1>1, <5>1 DEF KeptInv, StageInv
          <6> QED
            BY <6>1, IntFacts
        <5> QED
          BY <4>2, <5>1, <5>2, IntFacts
      <4> QED
        BY <3>2, <4>1, <4>2 DEF Given
    <3> QED
      BY <1>3, <3>1, <3>2
  <2>2. \A b \in Sessions :
          /\ base'[b] < b /\ saving'[b] <= b
          /\ saving'[b] # NoData => phase'[b] \in {"saving", "over"}
          /\ phase'[b] = "playing" => cache'[Host[b]] \in {base'[b], b}
    BY <1>1, <1>2, <1>3, <2>1 DEF RegisterInv, OriginInv
  <2> QED
    BY <1>1, <1>4, <2>2 DEF RegisterInv, OriginInv, Given
<1>6. EchoInv'
  BY <1>1, <1>3, <1>4 DEF RegisterInv, EchoInv
<1>7. FloorInv'
  <2> SUFFICES ASSUME NEW n \in Versions, Begun(n)' PROVE Settled(n)'
    BY DEF FloorInv
  <2>1. CASE Settled(n)
    <3>1. ASSUME NEW b \in Sessions, phase'[b] = "reading"
          PROVE  Many(NotBefore(b, n))'
      <4>1. b # a /\ phase[b] = "reading"
        BY <1>1, <1>3, <3>1
      <4>2. NotBefore(b, n)' = NotBefore(b, n)
        BY <1>1, <1>4, <4>1 DEF NotBefore
      <4> QED
        BY <2>1, <4>1, <4>2 DEF Settled, Many, Consensus
    <3>2. \A b \in Sessions : phase'[b] = "playing" => cache'[Host[b]] >= n
      BY <1>1, <1>3, <2>1 DEF Settled
    <3>3. \A b \in Sessions, s \in Stores : Pending(b, s)' => saving'[b] >= n
      BY <1>1, <2>1 DEF Settled, Pending
    <3>4. Many({s \in Stores : db[s] >= n})'
      BY <1>1, <2>1 DEF Settled, Many, Consensus
    <3> QED
      BY <3>1, <3>2, <3>3, <3>4 DEF Settled
  <2>2. CASE ~Settled(n)
    <3>1. a < NSessions /\ base'[a] = n /\ phase'[a] = "playing"
      <4>1. ~Begun(n)
        BY <2>2 DEF RegisterInv, FloorInv
      <4>2. PICK b \in Sessions : b < NSessions /\ base'[b] = n
        BY DEF Begun
      <4>3. b = a /\ base'[a] # base[a]
        BY <1>1, <4>1, <4>2 DEF Begun
      <4> QED
        BY <1>3, <4>2, <4>3
    <3>2. \A b \in Sessions \ {a} :
            /\ phase[b] \notin {"reading", "playing", "saving"}
            /\ \A s \in Stores : ~Pending(b, s)
      BY <1>1, <3>1, OthersRest
    <3>3. n # Absent /\ Many(Brought(a, n)) /\ cache'[Host[a]] = n /\ n \in Int
      BY <1>3, <3>1, IntFacts DEF Agreed, Many
    <3>4. Many({s \in Stores : db[s] >= n})
      <4> DEFINE T == {s \in Stores : db[s] >= n}
      <4>1. /\ Brought(a, n) \subseteq T /\ Brought(a, n) \in SUBSET Stores
            /\ T \in SUBSET Stores
        BY <1>1, <3>1, <3>3 DEF Brought, RegisterInv, EchoInv
      <4> HIDE DEF T
      <4>2. Many(T)
        BY <3>3, <4>1, ManyGrows
      <4> QED
        BY <4>2 DEF T
    <3>5. \A b \in Sessions : phase'[b] # "reading"
      BY <1>1, <3>1, <3>2
    <3>6. \A b \in Sessions : phase'[b] = "playing" => cache'[Host[b]] >= n
      BY <1>1, <3>2, <3>3
    <3>7. \A b \in Sessions, s \in Stores : ~Pending(b, s)'
      BY <1>1, <1>2, <3>2 DEF Pending
    <3>8. Many({s \in Stores : db[s] >= n})'
      BY <1>1, <3>4 DEF Many, Consensus
    <3> QED
      BY <3>5, <3>6, <3>7, <3>8 DEF Settled
  <2> QED
    BY <2>1, <2>2
<1> QED
  BY <1>5, <1>6, <1>7 DEF RegisterInv

\* The game makes a version newer than what any session but the last has begun with.
LEMMA PlayRegister ==
  ASSUME TypeOK, KeptInv, FreshStart, InTurn, RegisterInv, NEW a \in Sessions, Play(a)
  PROVE  RegisterInv'
<1>1. /\ phase[a] = "playing" /\ cache' = [cache EXCEPT ![Host[a]] = a]
      /\ UNCHANGED <<phase, base, replies, rpc, saving, db>>
  BY DEF Play, readVars, writeVars
<1>2. cache'[Host[a]] = a /\ \A b \in Sessions \ {a} : cache'[Host[b]] = cache[Host[b]]
  <2>1. Host[a] \in Nodes /\ \A b \in Sessions \ {a} : Host[b] \in Nodes /\ Host[b] # Host[a]
    BY StorageAssumption DEF FreshStart
  <2> QED
    BY <1>1, <2>1 DEF TypeOK, SessionsOK
<1>3. OriginInv'
  BY <1>1, <1>2 DEF RegisterInv, OriginInv, Given
<1>4. EchoInv'
  BY <1>1 DEF RegisterInv, EchoInv
<1>5. FloorInv'
  <2> SUFFICES ASSUME NEW n \in Versions, Begun(n)' PROVE Settled(n)'
    BY DEF FloorInv
  <2>1. Settled(n)
    BY <1>1 DEF RegisterInv, FloorInv, Begun
  <2>2. a >= n
    <3>1. PICK b \in Sessions : b < NSessions /\ base[b] = n
      BY <1>1 DEF Begun
    <3>2. n < b /\ n # NoData
      BY <3>1, VersionFacts DEF RegisterInv, OriginInv
    <3>3. ~(a < b)
      BY <1>1, <3>1, <3>2 DEF KeptInv, StageInv, InTurn, Through, Entered
    <3> QED
      BY <3>2, <3>3, IntFacts
  <2>3. \A b \in Sessions : phase'[b] = "playing" => cache'[Host[b]] >= n
    BY <1>1, <1>2, <2>1, <2>2 DEF Settled
  <2> QED
    BY <1>1, <2>1, <2>3 DEF Settled, NotBefore, Pending, Many, Consensus
<1> QED
  BY <1>3, <1>4, <1>5 DEF RegisterInv

\* A session saves what its node has, or fails to have it approved.
LEMMA SaveRegister ==
  ASSUME TypeOK, KeptInv, RegisterInv, NEW a \in Sessions, Save(a) \/ SaveTimesOut(a)
  PROVE  RegisterInv'
<1>1. /\ phase[a] = "playing" /\ phase'[a] \in {"saving", "failed"}
      /\ \A b \in Sessions \ {a} : phase'[b] = phase[b]
      /\ UNCHANGED <<base, cache, replies, db>>
  BY DEF Save, SaveTimesOut, readVars, TypeOK, SessionsOK
<1>2. /\ \A b \in Sessions \ {a} : rpc'[b] = rpc[b] /\ saving'[b] = saving[b]
      /\ \/ /\ phase'[a] = "saving" /\ saving'[a] = cache[Host[a]]
            /\ \A s \in Stores : rpc'[a][s] = "sent"
         \/ phase'[a] = "failed" /\ rpc'[a] = rpc[a] /\ saving'[a] = saving[a]
  BY DEF Save, SaveTimesOut, writeVars, TypeOK, SessionsOK, SavesOK
<1>3. /\ saving[a] = NoData /\ cache[Host[a]] \in {base[a], a} /\ base[a] < a
      /\ \A s \in Stores : rpc[a][s] = "none"
  BY <1>1 DEF RegisterInv, OriginInv, KeptInv, StageInv
<1>4. OriginInv'
  <2>1. \A v \in Versions : Given(v) => Given(v)'
    BY <1>2, <1>3, VersionFacts DEF Given
  <2>2. \A s \in Stores : Given(db[s])'
    BY <1>1, <2>1, IntFacts DEF RegisterInv, OriginInv
  <2>3. saving'[a] <= a
    BY <1>2, <1>3, IntFacts DEF RegisterInv, OriginInv
  <2>4. \A b \in Sessions :
          /\ base'[b] < b /\ saving'[b] <= b
          /\ saving'[b] # NoData => phase'[b] \in {"saving", "over"}
          /\ phase'[b] = "playing" => cache'[Host[b]] \in {base'[b], b}
    BY <1>1, <1>2, <1>3, <2>3 DEF RegisterInv, OriginInv
  <2>5. \A b \in Sessions, s \in Stores, v \in Versions :
          <<b, s, v>> \in replies' => Given(v)' \/ v = Absent
    BY <1>1, <2>1 DEF RegisterInv, OriginInv
  <2> QED
    BY <1>1, <2>2, <2>4, <2>5 DEF OriginInv, Given
<1>5. EchoInv'
  BY <1>1 DEF RegisterInv, EchoInv
<1>6. FloorInv'
  <2> SUFFICES ASSUME NEW n \in Versions, Begun(n)' PROVE Settled(n)'
    BY DEF FloorInv
  <2>1. Settled(n)
    BY <1>1 DEF RegisterInv, FloorInv, Begun
  <2>2. cache[Host[a]] >= n
    BY <1>1, <2>1 DEF Settled
  <2>3. \A b \in Sessions, s \in Stores : Pending(b, s)' => saving'[b] >= n
    BY <1>2, <1>3, <2>1, <2>2 DEF Settled, Pending
  <2>4. \A b \in Sessions : phase'[b] = "playing" => cache'[Host[b]] >= n
    BY <1>1, <2>1 DEF Settled
  <2>5. \A b \in Sessions : phase'[b] = "reading" => Many(NotBefore(b, n))'
    BY <1>1, <2>1 DEF Settled, NotBefore, Many, Consensus
  <2>6. Many({s \in Stores : db[s] >= n})'
    BY <1>1, <2>1 DEF Settled, Many, Consensus
  <2> QED
    BY <2>3, <2>4, <2>5, <2>6 DEF Settled
<1> QED
  BY <1>4, <1>5, <1>6 DEF RegisterInv

\* A store puts what is saved, be it late.
LEMMA StoreWritesRegister ==
  ASSUME TypeOK, KeptInv, InTurn, RegisterInv, NEW a \in Sessions, NEW s \in Stores,
         NEW answered \in BOOLEAN, StoreWrites(a, s, answered)
  PROVE  RegisterInv'
<1>1. /\ Pending(a, s)
      /\ db' = [db EXCEPT ![s] = saving[a]]
      /\ UNCHANGED <<phase, base, cache, replies, saving>>
  BY DEF StoreWrites, Put, Pending, readVars
<1>2. \E x \in {"acked", "ended"} : rpc' = [rpc EXCEPT ![a][s] = x]
  BY DEF StoreWrites
<1>3. /\ db'[s] = saving[a] /\ \A t \in Stores \ {s} : db'[t] = db[t]
      /\ \A b \in Sessions, t \in Stores : Pending(b, t)' => Pending(b, t)
  BY <1>1, <1>2 DEF TypeOK, StoresOK, SavesOK, Pending
<1>4. OriginInv'
  BY <1>1, <1>3 DEF RegisterInv, OriginInv, Given
<1>5. EchoInv'
  <2> SUFFICES ASSUME NEW b \in Sessions, b < NSessions, phase[b] = "reading" PROVE FALSE
    BY <1>1 DEF EchoInv
  <2>1. a # b
    BY <1>1 DEF KeptInv, StageInv, Pending
  <2> QED
    BY <1>1, <2>1, OthersRest
<1>6. FloorInv'
  <2> SUFFICES ASSUME NEW n \in Versions, Begun(n)' PROVE Settled(n)'
    BY DEF FloorInv
  <2>1. Settled(n)
    BY <1>1 DEF RegisterInv, FloorInv, Begun
  <2>2. saving[a] >= n
    BY <1>1, <2>1 DEF Settled
  <2>3. \A t \in Stores : db[t] >= n => db'[t] >= n
    BY <1>3, <2>2
  <2>4. Many({t \in Stores : db'[t] >= n})
    <3> DEFINE S == {t \in Stores : db[t] >= n}
               T == {t \in Stores : db'[t] >= n}
    <3>1. S \subseteq T /\ S \in SUBSET Stores /\ T \in SUBSET Stores
      BY <2>3
    <3>2. Many(S)
      BY <2>1 DEF Settled
    <3> HIDE DEF S, T
    <3>3. Many(T)
      BY <3>1, <3>2, ManyGrows
    <3> QED
      BY <3>3 DEF T
  <2>5. ASSUME NEW b \in Sessions, phase[b] = "reading"
        PROVE  Many(NotBefore(b, n)')
    <3>1. Many(NotBefore(b, n))
      BY <2>1, <2>5 DEF Settled
    <3>2. /\ NotBefore(b, n) \subseteq NotBefore(b, n)'
          /\ NotBefore(b, n) \subseteq Stores /\ NotBefore(b, n)' \subseteq Stores
      BY <1>1, <2>3 DEF NotBefore
    <3> QED
      BY <3>1, <3>2, ManyGrows
  <2>6. \A b \in Sessions : phase'[b] = "reading" => Many(NotBefore(b, n))'
    BY <1>1, <2>5 DEF Many, Consensus
  <2>7. \A b \in Sessions, t \in Stores : Pending(b, t)' => saving'[b] >= n
    BY <1>1, <1>3, <2>1 DEF Settled
  <2>8. \A b \in Sessions : phase'[b] = "playing" => cache'[Host[b]] >= n
    BY <1>1, <2>1 DEF Settled
  <2> QED
    BY <2>4, <2>6, <2>7, <2>8 DEF Settled, Many, Consensus
<1> QED
  BY <1>4, <1>5, <1>6 DEF RegisterInv

\* A write is refused or not answered, or the save as a whole is answered.
LEMMA AnswersRegister ==
  ASSUME TypeOK, RegisterInv, NEW a \in Sessions,
         SaveSettles(a) \/ \E s \in Stores : StoreRefuses(a, s) \/ ConnectionBreaks(a, s)
  PROVE  RegisterInv'
<1>1. /\ UNCHANGED <<base, cache, replies, saving, db>>
      /\ \A b \in Sessions : phase'[b] # phase[b] => phase[b] = "saving" /\ phase'[b] = "over"
  BY DEF SaveSettles, StoreRefuses, ConnectionBreaks, readVars, TypeOK, SessionsOK
<1>2. \A b \in Sessions, t \in Stores : Pending(b, t)' => Pending(b, t)
  <2>1. CASE SaveSettles(a)
    BY <2>1 DEF SaveSettles, TypeOK, SavesOK, Pending
  <2>2. ASSUME NEW s \in Stores, StoreRefuses(a, s) \/ ConnectionBreaks(a, s)
        PROVE  \A b \in Sessions, t \in Stores : Pending(b, t)' => Pending(b, t)
    BY <2>2 DEF StoreRefuses, ConnectionBreaks, TypeOK, SavesOK, Pending
  <2> QED
    BY <2>1, <2>2
<1>3. OriginInv'
  BY <1>1 DEF RegisterInv, OriginInv, Given
<1>4. EchoInv'
  BY <1>1 DEF RegisterInv, EchoInv
<1>5. FloorInv'
  <2> SUFFICES ASSUME NEW n \in Versions, Begun(n)' PROVE Settled(n)'
    BY DEF FloorInv
  <2>1. Settled(n)
    BY <1>1 DEF RegisterInv, FloorInv, Begun
  <2>2. \A b \in Sessions, t \in Stores : Pending(b, t)' => saving'[b] >= n
    BY <1>1, <1>2, <2>1 DEF Settled
  <2>3. \A b \in Sessions : phase'[b] = "reading" => Many(NotBefore(b, n))'
    BY <1>1, <2>1 DEF Settled, NotBefore, Many, Consensus
  <2>4. \A b \in Sessions : phase'[b] = "playing" => cache'[Host[b]] >= n
    BY <1>1, <2>1 DEF Settled
  <2>5. Many({s \in Stores : db[s] >= n})'
    BY <1>1, <2>1 DEF Settled, Many, Consensus
  <2> QED
    BY <2>2, <2>3, <2>4, <2>5 DEF Settled
<1> QED
  BY <1>3, <1>4, <1>5 DEF RegisterInv

LEMMA RegisterStep ==
  ASSUME TypeOK, ReadInv, KeptInv, RegisterInv, InTurn, FreshStart, [Next]_vars
  PROVE  RegisterInv'
<1> USE DEF keptVars, readVars, writeVars, chainVars
<1>1. ASSUME NEW a \in Sessions,
             \/ Appoint(a) \/ Enter(a) \/ ReadRejects(a)
             \/ Play(a) \/ Save(a) \/ SaveTimesOut(a) \/ SaveSettles(a)
      PROVE RegisterInv'
  BY <1>1, AppointRegister, EnterRegister, ReadEndRegister, PlayRegister, SaveRegister,
     AnswersRegister
<1>2. ASSUME NEW a \in Sessions, NEW v \in Versions, ReadResolves(a, v)
      PROVE RegisterInv'
  BY <1>2, ReadEndRegister
<1>3. ASSUME NEW a \in Sessions, NEW s \in Stores, StoreReads(a, s) \/ StoreReadsNothing(a, s)
      PROVE RegisterInv'
  BY <1>3, RepliesRegister
<1>4. ASSUME NEW a \in Sessions, NEW s \in Stores, StoreRefuses(a, s) \/ ConnectionBreaks(a, s)
      PROVE RegisterInv'
  BY <1>4, AnswersRegister
<1>5. ASSUME NEW a \in Sessions, NEW s \in Stores, NEW answered \in BOOLEAN,
             StoreWrites(a, s, answered)
      PROVE RegisterInv'
  BY <1>5, StoreWritesRegister
<1>6. ASSUME NEW a \in Sessions, NEW s \in Stores, EthAnswers(a, s) PROVE RegisterInv'
  <2>1. chain = NoData
    BY DEF KeptInv, IdleInv
  <2> QED
    BY <1>6, <2>1, QuietRegister DEF EthAnswers
<1>7. ASSUME NEW a \in Sessions, NEW s \in Stores,
             OnAppointed(a, s) \/ EthFails(a, s) \/ ReadFails(a, s)
      PROVE RegisterInv'
  BY <1>7, QuietRegister DEF OnAppointed, EthFails, ReadFails
<1>8. ASSUME NEW b \in Sessions \cup Grants, NEW s \in Stores,
             OnAddPermission(b, s) \/ PermissionExpires(b, s)
      PROVE RegisterInv'
  BY <1>8, QuietRegister DEF OnAddPermission, PermissionExpires
<1>9. ASSUME NEW a \in Sessions, NEW s \in Stores, JobRequests(a, s) PROVE FALSE
  BY <1>9 DEF JobRequests, FreshStart
<1>10. ASSUME NEW a \in Sessions, NEW s \in Stores, NEW v \in Versions,
              EthPut(a, s, v) \/ \E accepts \in BOOLEAN : CenterAnswers(a, s, v, accepts)
       PROVE FALSE
  BY <1>10 DEF EthPut, CenterAnswers, KeptInv, IdleInv
<1>11. CASE UNCHANGED vars
  BY <1>11, QuietRegister DEF vars
<1> QED
  BY <1>1, <1>2, <1>3, <1>4, <1>5, <1>6, <1>7, <1>8, <1>9, <1>10, <1>11 DEF Next

LEMMA InitRecord == ASSUME Init PROVE Record!Init
BY DEF Init, Record!Init, Record!Sessions, Record!None, Sessions, NoData

\* A session is appointed, and entered.
LEMMA AppointRecord ==
  ASSUME NEW a \in Sessions, Appoint(a)
  PROVE  Record!Appoint(a)
BY DEF Appoint, writeVars, Record!Appoint, Record!Goes, Record!Sessions, Sessions

LEMMA EnterRecord ==
  ASSUME KeptInv, NEW a \in Sessions, Enter(a)
  PROVE  Record!Enter(a)
<1>1. phase[a] = "appointed" /\ cache[Host[a]] = NoData
  BY DEF Enter, KeptInv, StageInv
<1> QED
  BY <1>1 DEF Enter, Remembered, writeVars, Record!Enter, Record!Goes

\* A session begins with data that were saved before it, no older than what was saved
\* when it was entered and no older than what an earlier session began with.
LEMMA BeginRecord ==
  ASSUME TypeOK, KeptInv, FreshStart, RegisterInv,
         NEW a \in Sessions, NEW v \in Versions, ReadResolves(a, v)
  PROVE  Record!Begin(a)
<1>1. phase[a] = "reading" /\ Agreed(a, v)
  BY DEF ReadResolves, ReadEnds
<1>2. /\ v # Absent /\ InitUserData(v) = v /\ Given(v) /\ v >= expected[a]
      /\ \A n \in Versions : Settled(n) => v >= n
  BY <1>1, ReadIsSettled, ReadIsGood
<1>3. /\ Record!Goes(a, "reading", "playing")
      /\ base' = [base EXCEPT ![a] = v] /\ UNCHANGED <<saving, latest, expected>>
  BY <1>1, <1>2 DEF ReadResolves, writeVars, Record!Goes
<1>4. v \in Record!Known(a)
  <2>1. CASE v = 0
    BY <2>1 DEF Record!Known
  <2>2. ASSUME NEW b \in Sessions, saving[b] = v PROVE v \in Record!Known(a)
    <3>1. saving[b] # NoData
      BY <2>2, VersionFacts
    <3>2. phase[b] \in {"saving", "over"}
      BY <3>1 DEF RegisterInv, OriginInv
    <3>3. b # a /\ ~(a < b)
      BY <1>1, <3>2 DEF KeptInv, StageInv
    <3>4. b < a
      BY <3>3, IntFacts
    <3> QED
      BY <2>2, <3>1, <3>4 DEF Record!Known, Record!Sessions, Record!None, Sessions, NoData
  <2> QED
    BY <1>2, <2>1, <2>2 DEF Given
<1>5. ASSUME NEW b \in Sessions, b < a PROVE v >= base[b]
  <2>1. CASE base[b] = NoData
    BY <1>2, <2>1, IntFacts DEF KeptInv, VersionInv
  <2>2. CASE base[b] # NoData
    <3>1. base[b] \in Versions /\ b < NSessions
      <4>1. a <= NSessions /\ a \in Int /\ b \in Int /\ NSessions \in Int
        BY StorageAssumption DEF Sessions
      <4> QED
        BY <1>5, <2>2, <4>1 DEF TypeOK, SessionsOK
    <3>2. Settled(base[b])
      BY <3>1 DEF RegisterInv, FloorInv, Begun
    <3> QED
      BY <1>2, <3>1, <3>2
  <2> QED
    BY <2>1, <2>2
<1>6. \A b \in Record!Sessions : b < a => v >= base[b]
  BY <1>5 DEF Record!Sessions, Sessions
<1> QED
  BY <1>2, <1>3, <1>4, <1>6 DEF Record!Begin

\* What a session saves is what it began with or what its game has made.
LEMMA SaveRecord ==
  ASSUME RegisterInv, NEW a \in Sessions, Save(a)
  PROVE  Record!Save(a)
<1>1. cache[Host[a]] \in {base[a], a}
  BY DEF Save, RegisterInv, OriginInv
<1> QED
  BY <1>1 DEF Save, Record!Save, Record!Goes

LEMMA FailRecord ==
  ASSUME NEW a \in Sessions, ReadRejects(a) \/ SaveTimesOut(a)
  PROVE  Record!Fail(a)
BY DEF ReadRejects, ReadEnds, SaveTimesOut, writeVars, Record!Fail, Record!Goes

LEMMA EndRecord ==
  ASSUME NEW a \in Sessions, SaveSettles(a)
  PROVE  Record!End(a)
BY DEF SaveSettles, Record!End, Record!Goes

\* Every step is a step of the register, or one it does not see.
LEMMA RecordStep ==
  ASSUME TypeOK, KeptInv, RegisterInv, FreshStart, [Next]_vars
  PROVE  [Record!Next]_(Record!vars)
<1> USE DEF Record!vars
<1>0. Record!Sessions = Sessions
  BY DEF Record!Sessions, Sessions
<1>1. ASSUME NEW a \in Sessions, Appoint(a) \/ Enter(a) PROVE Record!Next
  BY <1>0, <1>1, AppointRecord, EnterRecord DEF Record!Next
<1>2. ASSUME NEW a \in Sessions, NEW v \in Versions, ReadResolves(a, v) PROVE Record!Next
  BY <1>0, <1>2, BeginRecord DEF Record!Next
<1>3. ASSUME NEW a \in Sessions, Save(a) \/ SaveSettles(a) PROVE Record!Next
  BY <1>0, <1>3, SaveRecord, EndRecord DEF Record!Next
<1>4. ASSUME NEW a \in Sessions, ReadRejects(a) \/ SaveTimesOut(a) PROVE Record!Next
  BY <1>0, <1>4, FailRecord DEF Record!Next
<1>5. ASSUME NEW a \in Sessions, Play(a) PROVE UNCHANGED Record!vars
  BY <1>5 DEF Play, writeVars
<1>6. ASSUME NEW a \in Sessions, NEW s \in Stores,
             \/ OnAppointed(a, s) \/ EthAnswers(a, s) \/ EthFails(a, s)
             \/ StoreReads(a, s) \/ StoreReadsNothing(a, s) \/ ReadFails(a, s)
             \/ JobRequests(a, s)
      PROVE UNCHANGED Record!vars
  BY <1>6 DEF OnAppointed, EthAnswers, EthFails, StoreReads, StoreReadsNothing, ReadFails,
              JobRequests, writeVars
<1>7. ASSUME NEW a \in Sessions, NEW s \in Stores,
             \/ StoreRefuses(a, s) \/ ConnectionBreaks(a, s)
             \/ \E answered \in BOOLEAN : StoreWrites(a, s, answered)
      PROVE UNCHANGED Record!vars
  BY <1>7 DEF StoreRefuses, ConnectionBreaks, StoreWrites
<1>8. ASSUME NEW b \in Sessions \cup Grants, NEW s \in Stores,
             OnAddPermission(b, s) \/ PermissionExpires(b, s)
      PROVE UNCHANGED Record!vars
  BY <1>8 DEF OnAddPermission, PermissionExpires, writeVars
<1>9. ASSUME NEW a \in Sessions, NEW s \in Stores, NEW v \in Versions,
             EthPut(a, s, v) \/ \E accepts \in BOOLEAN : CenterAnswers(a, s, v, accepts)
      PROVE UNCHANGED Record!vars
  BY <1>9 DEF EthPut, CenterAnswers, writeVars
<1>10. CASE UNCHANGED vars
  BY <1>10 DEF vars, writeVars
<1> QED
  BY <1>1, <1>2, <1>3, <1>4, <1>5, <1>6, <1>7, <1>8, <1>9, <1>10 DEF Next

\* From a fresh start, and with saves in turn, storage is a register of the player's
\* data (ImplementsRecord), for any number of stores and sessions: what more than two
\* thirds of the stores brought to a session when nothing was under way, every later
\* read meets, whatever fails to answer and whatever is still written.
THEOREM KeepsRecord ==
  ASSUME FreshStart
  PROVE  Spec /\ []InTurn => ImplementsRecord
<1>1. Init => TypeOK /\ ReadInv /\ KeptInv /\ RegisterInv /\ Record!Init
  BY InitType, InitRead, InitKept, InitRegister, InitRecord
<1>2. TypeOK /\ ReadInv /\ [Next]_vars => TypeOK' /\ ReadInv'
  BY NextType, NextRead
<1>3. TypeOK /\ ReadInv /\ KeptInv /\ InTurn /\ [Next]_vars => KeptInv'
  BY KeptStep
<1>4. TypeOK /\ ReadInv /\ KeptInv /\ RegisterInv /\ InTurn /\ [Next]_vars => RegisterInv'
  BY RegisterStep
<1>5. TypeOK /\ KeptInv /\ RegisterInv /\ [Next]_vars => [Record!Next]_(Record!vars)
  BY RecordStep
<1> QED
  BY <1>1, <1>2, <1>3, <1>4, <1>5, PTL DEF Spec, ImplementsRecord, Record!Spec

\* Of two sessions the second may begin, read and save whatever is under way of the first.
THEOREM TwoSessionsKeepRecord ==
  ASSUME FreshStart, NSessions <= 2
  PROVE  Spec => ImplementsRecord
<1>1. InTurn
  <2>1. \A a, b \in Sessions : a < b => ~(b < NSessions)
    BY StorageAssumption DEF Sessions
  <2> QED
    BY <2>1 DEF InTurn
<1> QED
  BY <1>1, KeepsRecord, PTL
=============================================================================
