------------------------------ MODULE LedgerProofs ------------------------------
(***************************************************************************)
(* The session implements the ledger, for any number of concurrent         *)
(* requests: executing, versioning and recording a transaction is one step *)
(* to everybody else.                                                      *)
(*                                                                         *)
(* The state of the ledger is read off the places of the requests          *)
(* (LedgerHistory, LedgerVersion, LedgerRecords, LedgerUncounted).  The    *)
(* lemmas say how each of the four follows a step of one request; a step   *)
(* that moves more than one of them is the step in which the request takes *)
(* effect.                                                                 *)
(***************************************************************************)
EXTENDS SessionWrapperProofs

-----------------------------------------------------------------------------
(* The funded account of the request in the session is the last change.    *)

Funding(t) == [txn |-> NoTxn, status |-> "success", by |-> t]

MintInv ==
  \A t \in Tasks : pc[t] = "persist" /\ Kind(t) = "mint" =>
    session # <<>> /\ session[Len(session)] = Funding(t)

LEMMA NextMintInv ==
  ASSUME HistoryInv, MintInv, NEW t \in Tasks, Step(t)
  PROVE  MintInv'
<1> SUFFICES ASSUME NEW u \in Tasks, pc'[u] = "persist", Kind(u)' = "mint"
             PROVE  session' # <<>> /\ session'[Len(session')] = Funding(u)
  BY DEF MintInv, Funding
<1>1. CASE u # t
  <2>1. pc[u] = "persist" /\ Kind(u) = "mint"
    BY <1>1, OthersUnchanged DEF HistoryInv, Kind
  <2>2. pc[t] \notin {"apply", "fund"}
    BY <1>1, <2>1 DEF HistoryInv, LockInv, InSession
  <2>3. session' = session
    BY <2>2, SessionStep DEF HistoryInv
  <2> QED
    BY <2>1, <2>3 DEF MintInv
<1>2. CASE u = t
  <2>1. Goes(t) /\ (pc[t] # "idle" => request' = request)
    BY Moves DEF HistoryInv
  <2>2. pc[t] \in {"apply", "fund"} /\ Kind(t) = "mint"
    BY <1>2, <2>1 DEF Goes, Kind
  <2>3. pc[t] = "fund"
    BY <2>2 DEF HistoryInv, TypeInv, KindInv, TxnKinds
  <2>4. FundAccount(t)
    BY <1>2, <2>3, StepsAt DEF VmFails, ReleaseAnd, Goto, HistoryInv, TypeInv, TypeOK
  <2>5. session' = Append(session, Funding(t)) /\ Funding(t) \in Changes
    BY <2>4 DEF FundAccount, Funding, Changes, Kept
  <2> QED
    BY <1>2, <2>5, Growth DEF HistoryInv
<1> QED
  BY <1>1, <1>2

LedgerInv == HistoryInv /\ MintInv

LEMMA LedgerHeld == Spec => []LedgerInv
<1>1. Init => MintInv
  BY DEF Init, MintInv
<1>2. HistoryInv /\ MintInv /\ [Next]_vars => MintInv'
  <2>1. ASSUME MintInv, UNCHANGED vars PROVE MintInv'
    BY <2>1 DEF vars, MintInv, Kind
  <2> QED
    BY <2>1, NextMintInv DEF Next, Quiet
<1> QED
  BY <1>1, <1>2, HistoryHeld, PTL DEF Spec, LedgerInv

-----------------------------------------------------------------------------
(* The history.                                                            *)

\* A request whose change is in memory and not in the history yet.
Pending(t) ==
  /\ pc[t] \in {"persist", "bump", "readOps"} \/ (pc[t] = "increment" /\ Kind(t) = "traceCommit")
  /\ Kind(t) = "mint" \/ verdict[t] \in Kept

PendingOnes ==
  HistoryInv =>
    /\ Unversioned = {t \in Tasks : Pending(t)}
    /\ \A t, u \in Tasks : Pending(t) /\ InSession(u) => u = t

LEMMA PendingInSession == PendingOnes
<1> SUFFICES ASSUME HistoryInv
             PROVE  /\ Unversioned = {t \in Tasks : Pending(t)}
                    /\ \A t, u \in Tasks : Pending(t) /\ InSession(u) => u = t
  BY DEF PendingOnes
<1>1. \A t \in Tasks : InSession(t) <=> inner = t
  BY DEF HistoryInv, LockInv
<1>2. \A t \in Tasks : Pending(t) => InSession(t)
  BY DEF Pending, InSession
<1>3. \A t \in Tasks : pc[t] = "increment" /\ InSession(t) => Kind(t) = "traceCommit"
  BY DEF InSession
<1>4. Unversioned = {t \in Tasks : Pending(t)}
  BY <1>1, <1>2, <1>3 DEF Unversioned, Pending
<1> QED
  BY <1>1, <1>2, <1>4, TaskAssumption

\* A sequence of changes is its front and its last.
LEMMA FrontAndLast ==
  ASSUME NEW s \in Seq(Changes), s # <<>>
  PROVE  Front(s) \in Seq(Changes) /\ s = Append(Front(s), s[Len(s)])
<1> DEFINE n == Len(s)
           front == SubSeq(s, 1, n - 1)
<1>1. n \in Nat /\ n # 0
  BY EmptySeq
<1>2. \A i \in 1 .. n : s[i] \in Changes
  BY <1>1, ElementOfSeq
<1>3. \A i \in 1 .. n - 1 : s[i] \in Changes
  BY <1>1, <1>2
<1>4. /\ front \in Seq(Changes)
      /\ Len(front) = IF 1 <= n - 1 THEN n - 1 - 1 + 1 ELSE 0
      /\ \A i \in 1 .. n - 1 - 1 + 1 : front[i] = s[1 + i - 1]
  BY <1>1, <1>3, SubSeqProperties
<1> HIDE DEF front
<1>5. Len(front) = n - 1 /\ \A i \in 1 .. n - 1 : front[i] = s[i]
  <2> HIDE DEF n
  <2>1. \A i \in 1 .. n - 1 : i \in 1 .. n - 1 - 1 + 1 /\ 1 + i - 1 = i
    BY <1>1
  <2> QED
    BY <1>1, <1>4, <2>1
<1>6. s[n] \in Changes
  BY <1>1, <1>2
<1>7. /\ Append(front, s[n]) \in Seq(Changes)
      /\ Len(Append(front, s[n])) = n
      /\ \A i \in 1 .. n - 1 : Append(front, s[n])[i] = s[i]
      /\ Append(front, s[n])[n] = s[n]
  BY <1>1, <1>4, <1>5, <1>6, AppendProperties
<1>8. \A i \in 1 .. n : Append(front, s[n])[i] = s[i]
  BY <1>1, <1>7
<1>9. Append(front, s[n]) = s
  BY <1>7, <1>8, SeqEqual
<1> QED
  BY <1>4, <1>9 DEF Front, front

LEMMA FrontOfGrowth ==
  ASSUME TypeInv, NEW change \in Changes, session' = Append(session, change)
  PROVE  Front(session') = session
<1>1. session \in Seq(Changes)
  BY SessionFacts
<1> SUFFICES ASSUME NEW s \in Seq(Changes), s = Append(session, change) PROVE Front(s) = session
  BY <1>1, AppendProperties
<1>2. s # <<>> /\ Len(s) = Len(session) + 1 /\ s[Len(session) + 1] = change
  BY <1>1, AppendProperties
<1>3. Front(s) \in Seq(Changes) /\ s = Append(Front(s), change)
  BY <1>2, FrontAndLast
<1> QED
  BY <1>1, <1>3, AppendInjective

\* The change of a pending request is the last one.
LEMMA PendingChange ==
  ASSUME LedgerInv, NEW t \in Tasks, Pending(t)
  PROVE  session = Append(Front(session), IF Kind(t) = "mint" THEN Funding(t) ELSE Change(t))
<1>1. CASE Kind(t) = "mint"
  <2>1. pc[t] = "persist"
    BY <1>1 DEF Pending, LedgerInv, HistoryInv, TypeInv, KindInv
  <2> QED
    BY <1>1, <2>1, FrontAndLast, SessionFacts DEF LedgerInv, HistoryInv, MintInv
<1>2. CASE Kind(t) # "mint"
  <2>1. Kind(t) \in TxnKinds /\ verdict[t] \in Kept /\ pc[t] \in Past \ {"done"}
    BY <1>2 DEF Pending, LedgerInv, HistoryInv, TypeInv, KindInv, TxnKinds, Past
  <2>2. session # <<>> /\ session[Len(session)] = Change(t)
    BY <2>1 DEF LedgerInv, HistoryInv, AuthorInv
  <2> QED
    BY <1>2, <2>2, FrontAndLast, SessionFacts DEF LedgerInv, HistoryInv
<1> QED
  BY <1>1, <1>2

\* How a step of a request moves the history.
LEMMA HistoryMoves ==
  ASSUME LedgerInv, LedgerInv', NEW t \in Tasks, Step(t)
  PROVE  /\ session' = session /\ (Pending(t)' <=> Pending(t)) => LedgerHistory' = LedgerHistory
         /\ session' = session /\ Pending(t) /\ ~ Pending(t)' =>
              LedgerHistory' = Append(LedgerHistory,
                                 IF Kind(t) = "mint" THEN Funding(t) ELSE Change(t))
         /\ \A change \in Changes :
              session' = Append(session, change) /\ InSession(t) /\ ~ Pending(t) /\ Pending(t)' =>
                LedgerHistory' = LedgerHistory
<1>1. /\ Unversioned = {u \in Tasks : Pending(u)}
      /\ Unversioned' = {u \in Tasks : Pending(u)'}
      /\ \A u, v \in Tasks : Pending(u) /\ InSession(v) => v = u
  <2>1. PendingOnes /\ PendingOnes'
    BY PendingInSession, PTL
  <2> QED
    BY <2>1 DEF PendingOnes, LedgerInv
<1>2. \A u \in Tasks \ {t} : Pending(u)' <=> Pending(u)
  BY OthersUnchanged DEF Pending, Kind, LedgerInv, HistoryInv
<1>3. ASSUME session' = session, Pending(t)' <=> Pending(t) PROVE LedgerHistory' = LedgerHistory
  <2>1. Unversioned' = Unversioned
    BY <1>1, <1>2, <1>3
  <2> QED
    BY <1>3, <2>1 DEF LedgerHistory
<1>4. ASSUME session' = session, Pending(t), ~ Pending(t)'
      PROVE  LedgerHistory' = Append(LedgerHistory,
                                IF Kind(t) = "mint" THEN Funding(t) ELSE Change(t))
  <2>1. InSession(t)
    BY <1>4 DEF Pending, InSession
  <2>2. t \in Unversioned /\ Unversioned' = {}
    BY <1>1, <1>2, <1>4, <2>1
  <2>3. LedgerHistory = Front(session) /\ LedgerHistory' = session
    BY <1>4, <2>2 DEF LedgerHistory
  <2> QED
    BY <1>4, <2>3, PendingChange
<1>5. ASSUME NEW change \in Changes, session' = Append(session, change),
             InSession(t), ~ Pending(t), Pending(t)'
      PROVE  LedgerHistory' = LedgerHistory
  <2>1. Unversioned = {} /\ t \in Unversioned'
    BY <1>1, <1>5
  <2>2. LedgerHistory = session /\ LedgerHistory' = Front(session')
    BY <2>1 DEF LedgerHistory
  <2> QED
    BY <1>5, <2>2, FrontOfGrowth DEF LedgerInv, HistoryInv
<1> QED
  BY <1>3, <1>4, <1>5

-----------------------------------------------------------------------------
(* The version, and the funded accounts it does not count.                 *)

AtReadOps == {t \in Tasks : pc[t] = "readOps"}

Funded == {t \in Tasks : Kind(t) = "mint" /\ pc[t] = "increment"}

\* How a step of a request moves the two.
LEMMA VersionMoves ==
  ASSUME LedgerInv, LedgerInv', NEW t \in Tasks, Step(t)
  PROVE  /\ opsCount \in Nat /\ LedgerUncounted \in Nat
         /\ pc[t] # "readOps" /\ pc'[t] # "readOps" =>
              /\ opsCount' = opsCount => LedgerVersion' = LedgerVersion
              /\ opsCount' = opsCount + 1 => LedgerVersion' = LedgerVersion + 1
         /\ pc[t] = "bump" => LedgerVersion = opsCount /\ LedgerVersion' = opsCount'
         /\ pc[t] = "increment" /\ pc'[t] = "readOps" =>
              LedgerVersion = opsCount /\ LedgerVersion' = opsCount' - 1
         /\ pc[t] = "readOps" => LedgerVersion = opsCount - 1 /\ LedgerVersion' = opsCount'
         /\ (t \in Funded' <=> t \in Funded) => LedgerUncounted' = LedgerUncounted
         /\ t \notin Funded /\ t \in Funded' => LedgerUncounted' = LedgerUncounted + 1
         /\ t \in Funded /\ t \notin Funded' =>
              LedgerUncounted > 0 /\ LedgerUncounted' = LedgerUncounted - 1
<1>1. \A u \in Tasks \ {t} : pc'[u] = pc[u] /\ Kind(u)' = Kind(u)
  BY OthersUnchanged DEF Kind, LedgerInv, HistoryInv
<1>2. LedgerVersion = opsCount - Cardinality(AtReadOps) /\ LedgerUncounted = Cardinality(Funded)
  BY DEF LedgerVersion, LedgerUncounted, AtReadOps, Funded
<1>3. /\ LedgerVersion' = opsCount' - Cardinality(AtReadOps')
      /\ LedgerUncounted' = Cardinality(Funded')
  BY DEF LedgerVersion, LedgerUncounted, AtReadOps, Funded
<1>4. /\ opsCount \in Nat /\ opsCount' \in Nat
      /\ pc \in [Tasks -> Labels]
  BY DEF LedgerInv, HistoryInv, TypeInv, TypeOK
<1>5. /\ IsFiniteSet(AtReadOps) /\ IsFiniteSet(Funded) /\ IsFiniteSet(Funded')
      /\ Cardinality(AtReadOps) \in Nat /\ Cardinality(Funded) \in Nat
      /\ Cardinality(Funded') \in Nat
  <2>1. AtReadOps \in SUBSET Tasks /\ Funded \in SUBSET Tasks /\ Funded' \in SUBSET Tasks
    BY DEF AtReadOps, Funded
  <2> QED
    BY <2>1, TaskAssumption, FS_Subset, FS_CardinalityType
<1>6. pc[t] # "readOps" /\ pc'[t] # "readOps" => AtReadOps' = AtReadOps
  BY <1>1 DEF AtReadOps
<1>7. InSession(t) => \A u \in Tasks \ {t} : pc[u] # "readOps"
  BY DEF LedgerInv, HistoryInv, LockInv, InSession
<1>8. /\ pc[t] = "bump" => InSession(t) /\ pc'[t] = "record"
      /\ pc[t] = "increment" /\ pc'[t] = "readOps" => InSession(t)
      /\ pc[t] = "readOps" => InSession(t) /\ pc'[t] = "record"
  <2>1. Goes(t)
    BY Moves DEF LedgerInv, HistoryInv
  <2>2. pc[t] = "increment" /\ pc'[t] = "readOps" => Kind(t) = "traceCommit"
    BY <1>4, StepsAt DEF IncrementOps, Goto, LedgerInv, HistoryInv, TypeInv, KindInv
  <2> QED
    BY <2>1, <2>2 DEF Goes, InSession
<1>9. Cardinality({}) = 0 /\ Cardinality({t}) = 1
  BY FS_EmptySet, FS_Singleton
<1>10. pc[t] = "bump" => AtReadOps = {} /\ AtReadOps' = {}
  BY <1>1, <1>7, <1>8 DEF AtReadOps
<1>11. pc[t] = "increment" /\ pc'[t] = "readOps" => AtReadOps = {} /\ AtReadOps' = {t}
  BY <1>1, <1>7, <1>8 DEF AtReadOps
<1>12. pc[t] = "readOps" => AtReadOps = {t} /\ AtReadOps' = {}
  BY <1>1, <1>7, <1>8 DEF AtReadOps
<1>13. (t \in Funded' <=> t \in Funded) => Funded' = Funded
  BY <1>1 DEF Funded
<1>14. t \notin Funded /\ t \in Funded' => Funded' = Funded \cup {t}
  BY <1>1 DEF Funded
<1>15. t \in Funded /\ t \notin Funded' => Funded = Funded' \cup {t}
  BY <1>1 DEF Funded
<1>16. ASSUME t \notin Funded, t \in Funded' PROVE Cardinality(Funded') = Cardinality(Funded) + 1
  BY <1>5, <1>14, <1>16, FS_AddElement
<1>17. ASSUME t \in Funded, t \notin Funded' PROVE Cardinality(Funded) = Cardinality(Funded') + 1
  BY <1>5, <1>15, <1>17, FS_AddElement
<1>18. pc[t] # "readOps" /\ pc'[t] # "readOps" =>
         /\ opsCount' = opsCount => LedgerVersion' = LedgerVersion
         /\ opsCount' = opsCount + 1 => LedgerVersion' = LedgerVersion + 1
  BY <1>2, <1>3, <1>4, <1>5, <1>6
<1>19. /\ pc[t] = "bump" => LedgerVersion = opsCount /\ LedgerVersion' = opsCount'
       /\ pc[t] = "increment" /\ pc'[t] = "readOps" =>
            LedgerVersion = opsCount /\ LedgerVersion' = opsCount' - 1
       /\ pc[t] = "readOps" => LedgerVersion = opsCount - 1 /\ LedgerVersion' = opsCount'
  BY <1>2, <1>3, <1>4, <1>9, <1>10, <1>11, <1>12
<1> QED
  BY <1>2, <1>3, <1>4, <1>5, <1>13, <1>16, <1>17, <1>18, <1>19

-----------------------------------------------------------------------------
(* The records.                                                            *)

\* What TxStoreProofs proves of the list of its store, about the list of the
\* session's.
LEMMA StoredList ==
  ASSUME TypeInv, NEW t \in Tasks, StoreRecord(t)
  PROVE  RecordList' = ListAfter(request[t].txn, [status |-> verdict[t], version |-> version[t]])
<1> DEFINE record == [status |-> verdict[t], version |-> version[t]]
<1>1. request[t].txn \in Txns /\ record \in Records
  BY RequestTxn DEF StoreRecord, TypeInv, KindInv, Kind, TypeOK, Records
<1>2. Store!StoreInv
  BY DEF TypeInv, TypeOK, TxTypeOK, QueueMatchesMap, Store!StoreInv, Store!TxTypeOK,
     Store!QueueMatchesMap
<1>3. Store!Insert(request[t].txn, record)
  <2>1. Insert(request[t].txn, record)
    BY DEF StoreRecord
  <2> QED
    BY <2>1, Zenon
       DEF Insert, Written, Queued, KeysLeft, Fits, Evictions, Restrict, Cardinality,
         Store!Insert, Store!Written, Store!Queued, Store!KeysLeft, Store!Fits,
         Store!Evictions, Store!Restrict, Store!Cardinality
<1>4. Store!RecordList' = Store!ListAfter(request[t].txn, record)
  BY <1>1, <1>2, <1>3, Store!InsertChangesList, StoreAssumption
<1> QED
  BY <1>4 DEF RecordList, Get, ListAfter, Holds, Store!RecordList, Store!Get, Store!ListAfter,
     Store!Holds

LEMMA ListPut ==
  ASSUME TypeInv, NEW hash \in Txns, NEW record \in Records,
         LedgerRecords = RecordList, LedgerRecords' = ListAfter(hash, record)
  PROVE  ToLedger!Put(hash, record)
<1> DEFINE entry  == [hash |-> hash, record |-> record]
           longer == Append(RecordList, entry)
           places == {i \in DOMAIN RecordList : RecordList[i].hash = hash}
<1>1. Store!StoreInv
  BY DEF TypeInv, TypeOK, TxTypeOK, QueueMatchesMap, Store!StoreInv, Store!TxTypeOK,
     Store!QueueMatchesMap
<1>2. RecordList = Store!RecordList /\ ListAfter(hash, record) = Store!ListAfter(hash, record)
  BY DEF RecordList, Get, ListAfter, Holds, Store!RecordList, Store!Get, Store!ListAfter,
     Store!Holds
<1>3. \/ \E i \in places : ListAfter(hash, record) = [RecordList EXCEPT ![i] = entry]
      \/ /\ places = {}
         /\ ListAfter(hash, record) = IF Len(longer) > Cap THEN Tail(longer) ELSE longer
  BY <1>1, <1>2, Store!ListAfterPut, StoreAssumption
<1> QED
  BY <1>3 DEF ToLedger!Put, ToLedger!Store!Replace, ToLedger!Store!Add, ToLedger!Store!Positions

RecordsRead ==
  HistoryInv =>
    /\ \A t \in Tasks : pc[t] = "record" =>
         LedgerRecords =
           ListAfter(request[t].txn, [status |-> verdict[t], version |-> version[t]])
    /\ (\A t \in Tasks : pc[t] # "record") => LedgerRecords = RecordList

\* At most one request is about to store its record.
LEMMA RecordsReadOff == RecordsRead
<1> SUFFICES ASSUME HistoryInv, NEW t \in Tasks, pc[t] = "record"
             PROVE  LedgerRecords =
                      ListAfter(request[t].txn, [status |-> verdict[t], version |-> version[t]])
  BY DEF RecordsRead, LedgerRecords
<1>1. \A u \in Tasks : pc[u] = "record" => u = t
  BY DEF HistoryInv, LockInv, InSession
<1>2. (CHOOSE u \in Tasks : pc[u] = "record") = t
  BY <1>1
<1> QED
  BY <1>2 DEF LedgerRecords

\* How a step of a request moves the records.
LEMMA RecordsMove ==
  ASSUME LedgerInv, LedgerInv', NEW t \in Tasks, Step(t)
  PROVE  /\ pc'[t] # "record" => LedgerRecords' = LedgerRecords
         /\ pc'[t] = "record" =>
              ToLedger!Put(request[t].txn, [status |-> verdict[t], version |-> version'[t]])
<1>1. RecordsRead /\ RecordsRead' /\ HistoryInv /\ HistoryInv' /\ Goes(t) /\ TypeInv
  BY RecordsReadOff, Moves, PTL DEF LedgerInv, HistoryInv
<1>2. \A u \in Tasks \ {t} :
        /\ pc'[u] = pc[u] /\ request'[u] = request[u] /\ verdict'[u] = verdict[u]
        /\ version'[u] = version[u]
  BY <1>1, OthersUnchanged
<1>3. ASSUME UNCHANGED storeVars
      PROVE  /\ RecordList' = RecordList
             /\ \A hash, record : ListAfter(hash, record)' = ListAfter(hash, record)
  BY <1>3 DEF storeVars, RecordList, Get, ListAfter, Holds
<1>4. ASSUME pc[t] = "record" PROVE LedgerRecords' = LedgerRecords
  <2>1. StoreRecord(t)
    BY <1>4, StepsAt
  <2>2. \A u \in Tasks : pc'[u] # "record"
    <3>1. pc'[t] # "record"
      BY <1>1, <1>4 DEF Goes
    <3>2. \A u \in Tasks \ {t} : pc[u] # "record"
      BY <1>1, <1>4 DEF HistoryInv, LockInv, InSession
    <3> QED
      BY <1>2, <3>1, <3>2
  <2>3. LedgerRecords' = RecordList'
    BY <1>1, <2>2 DEF RecordsRead
  <2>4. LedgerRecords =
          ListAfter(request[t].txn, [status |-> verdict[t], version |-> version[t]])
    BY <1>1, <1>4 DEF RecordsRead
  <2> QED
    BY <1>1, <2>1, <2>3, <2>4, StoredList
<1>5. ASSUME pc[t] # "record", pc'[t] # "record" PROVE LedgerRecords' = LedgerRecords
  <2>1. /\ RecordList' = RecordList
        /\ \A hash, record : ListAfter(hash, record)' = ListAfter(hash, record)
    BY <1>1, <1>3, <1>5, Moves
  <2>2. CASE \E u \in Tasks : pc[u] = "record"
    <3>1. PICK u \in Tasks : pc[u] = "record"
      BY <2>2
    <3>2. u # t
      BY <1>5, <3>1
    <3>3. /\ pc'[u] = "record" /\ request'[u] = request[u] /\ verdict'[u] = verdict[u]
          /\ version'[u] = version[u]
      BY <1>2, <3>1, <3>2
    <3>4. LedgerRecords =
            ListAfter(request[u].txn, [status |-> verdict[u], version |-> version[u]])
      BY <1>1, <3>1 DEF RecordsRead
    <3>5. LedgerRecords' =
            ListAfter(request[u].txn, [status |-> verdict[u], version |-> version[u]])'
      BY <1>1, <3>3 DEF RecordsRead
    <3> QED
      BY <1>1, <1>5, <3>3, <3>4, <3>5, Moves
      DEF storeVars, RecordList, Get, ListAfter, Holds
  <2>3. CASE \A u \in Tasks : pc[u] # "record"
    <3>1. \A u \in Tasks : pc'[u] # "record"
      BY <1>2, <1>5, <2>3
    <3> QED
      BY <1>1, <2>1, <2>3, <3>1 DEF RecordsRead
  <2> QED
    BY <2>2, <2>3
<1>6. ASSUME pc'[t] = "record"
      PROVE  ToLedger!Put(request[t].txn, [status |-> verdict[t], version |-> version'[t]])
  <2> DEFINE record == [status |-> verdict[t], version |-> version'[t]]
  <2>1. pc[t] \in {"bump", "readOps"}
    BY <1>1, <1>6 DEF Goes
  <2>2. UNCHANGED <<storeVars, request, verdict>>
    BY <2>1, StepsAt DEF Bump, ReadOps
  <2>3. \A u \in Tasks : pc[u] # "record"
    BY <1>1, <2>1 DEF HistoryInv, LockInv, InSession
  <2>4. LedgerRecords = RecordList
    BY <1>1, <2>3 DEF RecordsRead
  <2>5. LedgerRecords' = ListAfter(request[t].txn, record)
    <3>1. LedgerRecords' =
            ListAfter(request[t].txn, [status |-> verdict[t], version |-> version[t]])'
      BY <1>1, <1>6 DEF RecordsRead
    <3> QED
      BY <2>2, <3>1 DEF storeVars, RecordList, Get, ListAfter, Holds
  <2>6. request[t].txn \in Txns /\ record \in Records
    <3>1. request[t].txn \in Txns
      BY <1>1, <2>1, RequestTxn DEF TypeInv, KindInv, Kind, TxnKinds
    <3>2. verdict[t] \in Verdicts /\ version'[t] \in Nat
      BY <1>1 DEF HistoryInv, TypeInv, TypeOK
    <3> QED
      BY <3>1, <3>2 DEF Records
  <2> QED
    BY <1>1, <2>4, <2>5, <2>6, ListPut
<1> QED
  BY <1>4, <1>5, <1>6

-----------------------------------------------------------------------------
(* Each step of a request is one of the ledger's, or none.                 *)

\* The steps that move none of the four.
LEMMA QuietStep ==
  ASSUME LedgerInv, LedgerInv', NEW t \in Tasks, Step(t),
         session' = session, Pending(t)' <=> Pending(t),
         pc[t] \notin {"bump", "increment", "readOps"},
         pc'[t] \notin {"increment", "record"} \/ (pc'[t] = "increment" /\ Kind(t) # "mint")
  PROVE  UNCHANGED (ToLedger!ledgerVars)
<1>1. Goes(t) /\ opsCount' = opsCount /\ (pc[t] # "idle" => request' = request)
  BY Moves DEF LedgerInv, HistoryInv
<1>2. pc'[t] # "readOps"
  BY <1>1 DEF Goes
<1>3. t \notin Funded /\ t \notin Funded'
  BY <1>1 DEF Funded, Goes, Kind
<1>4. LedgerVersion' = LedgerVersion
  BY <1>1, <1>2, VersionMoves
<1> QED
  BY <1>3, <1>4, HistoryMoves, VersionMoves, RecordsMove DEF ToLedger!ledgerVars

\* The step in which a transaction takes effect: its change joins the history if it
\* was not rejected, and it takes the next version and is recorded with it.
LEMMA EffectStep ==
  ASSUME LedgerInv, LedgerInv', NEW t \in Tasks, Bump(t) \/ ReadOps(t)
  PROVE  ToLedger!Next
<1>1. Step(t)
  BY DEF Step
<1>2. /\ pc[t] \in {"bump", "readOps"} /\ pc'[t] = "record"
      /\ UNCHANGED <<session, request, verdict>>
  BY DEF Bump, ReadOps, Goto, LedgerInv, HistoryInv, TypeInv, TypeOK
<1>3. Kind(t) \in TxnKinds /\ request[t].txn \in Txns /\ verdict[t] \in Verdicts
  BY <1>2, RequestTxn DEF TxnKinds, LedgerInv, HistoryInv, TypeInv, TypeOK, KindInv, Kind
<1>4. ~ Pending(t)' /\ (Pending(t) <=> verdict[t] \in Kept)
  BY <1>2, <1>3 DEF Pending, TxnKinds
<1>5. version'[t] = LedgerVersion + 1 /\ LedgerVersion' = LedgerVersion + 1
  <2>1. opsCount \in Nat
    BY <1>1, VersionMoves
  <2>2. CASE Bump(t)
    <3>1. LedgerVersion = opsCount /\ LedgerVersion' = opsCount'
      BY <1>1, <2>2, VersionMoves DEF Bump
    <3> QED
      BY <2>2, <3>1 DEF Bump, LedgerInv, HistoryInv, TypeInv, TypeOK
  <2>3. CASE ReadOps(t)
    <3>1. LedgerVersion = opsCount - 1 /\ LedgerVersion' = opsCount'
      BY <1>1, <2>3, VersionMoves DEF ReadOps
    <3>2. version'[t] = opsCount /\ opsCount' = opsCount
      BY <2>3 DEF ReadOps, LedgerInv, HistoryInv, TypeInv, TypeOK
    <3> QED
      BY <2>1, <3>1, <3>2
  <2> QED
    BY <2>2, <2>3
<1>6. LedgerUncounted' = LedgerUncounted
  <2>1. t \notin Funded /\ t \notin Funded'
    BY <1>2 DEF Funded
  <2> QED
    BY <1>1, <2>1, VersionMoves
<1>7. ToLedger!Put(request[t].txn, [status |-> verdict[t], version |-> LedgerVersion + 1])
  BY <1>1, <1>2, <1>5, RecordsMove
<1>8. CASE verdict[t] \in Kept
  <2>1. LedgerHistory' = Append(LedgerHistory, Change(t))
    BY <1>1, <1>2, <1>3, <1>4, <1>8, HistoryMoves DEF TxnKinds
  <2>2. ToLedger!Commit(request[t].txn, verdict[t], t)
    BY <1>5, <1>6, <1>7, <2>1 DEF ToLedger!Commit, ToLedger!Grow, Change
  <2> QED
    BY <1>3, <1>8, <2>2 DEF ToLedger!Next
<1>9. CASE verdict[t] \notin Kept
  <2>1. LedgerHistory' = LedgerHistory /\ verdict[t] = "discard"
    BY <1>1, <1>2, <1>3, <1>4, <1>9, HistoryMoves DEF Verdicts
  <2>2. ToLedger!Discard(request[t].txn)
    BY <1>5, <1>6, <1>7, <2>1 DEF ToLedger!Discard
  <2> QED
    BY <1>3, <2>2 DEF ToLedger!Next
<1> QED
  BY <1>8, <1>9

\* A change joins the memory of the session before it joins the history.
LEMMA ChangeStep ==
  ASSUME LedgerInv, LedgerInv', NEW t \in Tasks, ApplyWriteSet(t) \/ FundAccount(t)
  PROVE  UNCHANGED (ToLedger!ledgerVars)
<1>1. Step(t) /\ pc[t] \in {"apply", "fund"} /\ pc'[t] = "persist" /\ InSession(t)
  BY DEF Step, ApplyWriteSet, FundAccount, Goto, InSession, LedgerInv, HistoryInv, TypeInv, TypeOK
<1>2. UNCHANGED <<request, verdict, opsCount>> /\ ~ Pending(t)
  BY <1>1 DEF ApplyWriteSet, FundAccount, Pending
<1>3. CASE session' = session
  <2>1. ApplyWriteSet(t) \/ session' = Append(session, Funding(t))
    BY DEF FundAccount, Funding
  <2>2. session # Append(session, Funding(t))
    <3>1. session \in Seq(Changes) /\ Funding(t) \in Changes
      BY SessionFacts DEF LedgerInv, HistoryInv, Funding, Changes, Kept
    <3> QED
      BY <3>1, AppendProperties, LenProperties
  <2>3. pc[t] = "apply" /\ verdict[t] \notin Kept
    <3>1. ApplyWriteSet(t)
      BY <1>3, <2>1, <2>2
    <3>2. verdict[t] \in Kept => Change(t) \in Changes /\ session' = Append(session, Change(t))
      <4>1. request[t].txn \in Txns
        BY <3>1, SessionFacts DEF ApplyWriteSet, LedgerInv, HistoryInv
      <4> QED
        BY <3>1, <4>1 DEF ApplyWriteSet, Change, Changes
    <3>3. session \in Seq(Changes)
      BY SessionFacts DEF LedgerInv, HistoryInv
    <3> QED
      BY <1>3, <3>1, <3>2, <3>3, AppendProperties, LenProperties DEF ApplyWriteSet
  <2>4. Kind(t) # "mint"
    BY <2>3 DEF LedgerInv, HistoryInv, TypeInv, KindInv, TxnKinds
  <2>5. ~ Pending(t)'
    BY <1>2, <2>3, <2>4 DEF Pending, Kind
  <2> QED
    BY <1>1, <1>2, <1>3, <2>5, QuietStep
<1>4. CASE session' # session
  <2>1. PICK change \in Changes : session' = Append(session, change)
    BY <1>1, <1>4, SessionStep DEF LedgerInv, HistoryInv
  <2>2. Kind(t) = "mint" \/ verdict[t] \in Kept
    BY <1>1, <1>4 DEF ApplyWriteSet, FundAccount, LedgerInv, HistoryInv, TypeInv, KindInv
  <2>3. Pending(t)'
    BY <1>1, <1>2, <2>2 DEF Pending, Kind
  <2>4. LedgerHistory' = LedgerHistory
    BY <1>1, <1>2, <2>1, <2>3, HistoryMoves
  <2>5. t \notin Funded /\ t \notin Funded'
    BY <1>1 DEF Funded
  <2>6. LedgerVersion' = LedgerVersion
    BY <1>1, <1>2, VersionMoves
  <2> QED
    BY <1>1, <2>4, <2>5, <2>6, VersionMoves, RecordsMove DEF ToLedger!ledgerVars
<1> QED
  BY <1>3, <1>4

\* A save: with it a funded account joins the history; when it fails so does a
\* change, without version and record.
LEMMA SaveStep ==
  ASSUME LedgerInv, LedgerInv', NEW t \in Tasks, Persist(t) \/ PersistFails(t)
  PROVE  ToLedger!Next \/ UNCHANGED (ToLedger!ledgerVars)
<1>1. /\ Step(t) /\ pc[t] = "persist" /\ pc'[t] \in {"bump", "increment", "done"}
      /\ UNCHANGED <<session, request, verdict, opsCount>>
  BY DEF Step, Persist, PersistFails, ReleaseAnd, Goto, LedgerInv, HistoryInv, TypeInv, TypeOK
<1>2. Kind(t) \in TxnKinds \cup {"mint"} /\ (Kind(t) = "mint" <=> Kind(t) \notin TxnKinds)
      /\ Kind(t)' = Kind(t)
  BY <1>1 DEF LedgerInv, HistoryInv, TypeInv, KindInv, TxnKinds, Kind
<1>3. LedgerVersion' = LedgerVersion
  BY <1>1, VersionMoves
<1>4. LedgerRecords' = LedgerRecords
  BY <1>1, RecordsMove
<1>5. CASE Pending(t)' <=> Pending(t)
  <2>1. pc'[t] = "increment" => Kind(t) # "mint"
    BY <1>1, <1>2, <1>5 DEF Pending
  <2> QED
    BY <1>1, <1>5, <2>1, QuietStep
<1>6. CASE Pending(t) /\ ~ Pending(t)'
  <2>1. LedgerHistory' =
          Append(LedgerHistory, IF Kind(t) = "mint" THEN Funding(t) ELSE Change(t))
    BY <1>1, <1>6, HistoryMoves
  <2>2. CASE Persist(t)
    <3>1. Kind(t) = "mint" /\ pc'[t] = "increment"
      BY <1>1, <1>2, <1>6, <2>2
      DEF Persist, Goto, Pending, TxnKinds, LedgerInv, HistoryInv, TypeInv, TypeOK
    <3>2. LedgerUncounted' = LedgerUncounted + 1
      BY <1>1, <1>2, <3>1, VersionMoves DEF Funded
    <3>3. ToLedger!Fund(t)
      BY <1>3, <1>4, <2>1, <3>1, <3>2 DEF ToLedger!Fund, ToLedger!Grow, Funding
    <3> QED
      BY <3>3 DEF ToLedger!Next
  <2>3. CASE PersistFails(t)
    <3>1. LedgerUncounted' = LedgerUncounted
      <4>1. pc'[t] = "done"
        BY <2>3 DEF PersistFails, ReleaseAnd, Goto, LedgerInv, HistoryInv, TypeInv, TypeOK
      <4>2. t \notin Funded /\ t \notin Funded'
        BY <1>1, <4>1 DEF Funded
      <4> QED
        BY <1>1, <4>2, VersionMoves
    <3>2. CASE Kind(t) = "mint"
      <4>1. ToLedger!CommitUnrecorded(NoTxn, "success", t)
        BY <1>3, <1>4, <2>1, <3>1, <3>2 DEF ToLedger!CommitUnrecorded, ToLedger!Grow, Funding
      <4> QED
        BY <4>1 DEF ToLedger!Next, Kept
    <3>3. CASE Kind(t) # "mint"
      <4>1. request[t].txn \in Txns /\ verdict[t] \in Kept
        BY <1>1, <1>2, <1>6, <3>3, RequestTxn
        DEF Pending, LedgerInv, HistoryInv, TypeInv, KindInv, Kind
      <4>2. ToLedger!CommitUnrecorded(request[t].txn, verdict[t], t)
        BY <1>3, <1>4, <2>1, <3>1, <3>3 DEF ToLedger!CommitUnrecorded, ToLedger!Grow, Change
      <4> QED
        BY <4>1, <4>2 DEF ToLedger!Next
    <3> QED
      BY <3>2, <3>3
  <2> QED
    BY <2>2, <2>3
<1>7. ~ (~ Pending(t) /\ Pending(t)')
  BY <1>1, <1>2 DEF Pending
<1> QED
  BY <1>5, <1>6, <1>7

\* Counting a mint is a step of the ledger; the first half of taking a version is
\* none, for traceCommit takes effect with the second.
LEMMA CountStep ==
  ASSUME LedgerInv, LedgerInv', NEW t \in Tasks, IncrementOps(t)
  PROVE  ToLedger!Next \/ UNCHANGED (ToLedger!ledgerVars)
<1>1. /\ Step(t) /\ pc[t] = "increment" /\ opsCount' = opsCount + 1
      /\ pc'[t] = IF Kind(t) = "mint" THEN "done" ELSE "readOps"
      /\ UNCHANGED <<session, request, verdict>>
  BY DEF Step, IncrementOps, Goto, LedgerInv, HistoryInv, TypeInv, TypeOK
<1>2. Kind(t) \in {"traceCommit", "mint"} /\ Kind(t)' = Kind(t)
  BY <1>1 DEF LedgerInv, HistoryInv, TypeInv, KindInv, Kind
<1>3. LedgerHistory' = LedgerHistory
  <2>1. Pending(t)' <=> Pending(t)
    BY <1>1, <1>2 DEF Pending
  <2> QED
    BY <1>1, <2>1, HistoryMoves
<1>4. LedgerRecords' = LedgerRecords
  BY <1>1, RecordsMove
<1>5. CASE Kind(t) = "mint"
  <2>1. t \in Funded /\ t \notin Funded'
    BY <1>1, <1>5 DEF Funded
  <2>2. LedgerUncounted > 0 /\ LedgerUncounted' = LedgerUncounted - 1
    BY <1>1, <2>1, VersionMoves
  <2>3. LedgerVersion' = LedgerVersion + 1
    BY <1>1, <1>5, VersionMoves
  <2> QED
    BY <1>3, <1>4, <2>2, <2>3 DEF ToLedger!Next, ToLedger!CountFund
<1>6. CASE Kind(t) # "mint"
  <2>1. opsCount \in Nat /\ LedgerVersion = opsCount /\ LedgerVersion' = opsCount' - 1
    BY <1>1, <1>6, VersionMoves
  <2>2. LedgerUncounted' = LedgerUncounted
    <3>1. t \notin Funded /\ t \notin Funded'
      BY <1>1, <1>6 DEF Funded
    <3> QED
      BY <1>1, <3>1, VersionMoves
  <2> QED
    BY <1>1, <1>3, <1>4, <2>1, <2>2 DEF ToLedger!ledgerVars
<1> QED
  BY <1>5, <1>6

LEMMA StepImplements ==
  ASSUME LedgerInv, LedgerInv', NEW t \in Tasks, Step(t)
  PROVE  [ToLedger!Next]_(ToLedger!ledgerVars)
<1>1. CASE Bump(t) \/ ReadOps(t)
  BY <1>1, EffectStep
<1>2. CASE ApplyWriteSet(t) \/ FundAccount(t)
  BY <1>2, ChangeStep
<1>3. CASE Persist(t) \/ PersistFails(t)
  BY <1>3, SaveStep
<1>4. CASE IncrementOps(t)
  BY <1>4, CountStep
<1>5. CASE pc[t] \notin {"apply", "persist", "bump", "increment", "readOps"} /\ ~ FundAccount(t)
  <2>1. Goes(t) /\ (pc[t] \notin {"apply", "fund"} => session' = session)
    BY Moves DEF LedgerInv, HistoryInv
  <2>2. pc[t] = "fund" => session' = session /\ pc'[t] = "done"
    BY <1>5, StepsAt DEF VmFails, ReleaseAnd, Goto, LedgerInv, HistoryInv, TypeInv, TypeOK
  <2>3. ~ Pending(t) /\ ~ Pending(t)' /\ pc'[t] \notin {"increment", "record"}
    BY <1>5, <2>1, <2>2 DEF Pending, Goes
  <2> QED
    BY <1>5, <2>1, <2>2, <2>3, QuietStep
<1> QED
  BY <1>1, <1>2, <1>3, <1>4, <1>5, StepsAt

\* Without requests the ledger is as at its start.
LEMMA LedgerStarts == Init => ToLedger!Init
<1> SUFFICES ASSUME Init PROVE ToLedger!Init
  OBVIOUS
<1>1. \A t \in Tasks : pc[t] = "idle"
  BY DEF Init
<1>2. Unversioned = {} /\ {t \in Tasks : pc[t] = "readOps"} = {}
      /\ {t \in Tasks : Kind(t) = "mint" /\ pc[t] = "increment"} = {}
  BY <1>1 DEF Unversioned
<1>3. LedgerHistory \in {<<>>, <<Override>>}
  BY <1>2 DEF LedgerHistory, Init
<1>4. LedgerVersion = 0 /\ LedgerUncounted = 0
  <2>1. opsCount = 0
    BY DEF Init
  <2>2. Cardinality({}) = 0
    BY FS_EmptySet
  <2> QED
    BY <1>2, <2>1, <2>2 DEF LedgerVersion, LedgerUncounted
<1>5. LedgerRecords = <<>>
  <2>1. LedgerRecords = RecordList
    BY <1>1 DEF LedgerRecords
  <2> QED
    BY <2>1 DEF Init, WithCapacity, RecordList
<1> QED
  BY <1>3, <1>4, <1>5 DEF ToLedger!Init, ToLedger!Store!Init

LEMMA LedgerRests ==
  ASSUME UNCHANGED vars
  PROVE  UNCHANGED (ToLedger!ledgerVars)
<1>1. LedgerHistory' = LedgerHistory /\ LedgerVersion' = LedgerVersion
      /\ LedgerUncounted' = LedgerUncounted
  BY DEF vars, LedgerHistory, Unversioned, LedgerVersion, LedgerUncounted, Kind
<1>2. LedgerRecords' = LedgerRecords
  BY DEF vars, LedgerRecords, RecordList, ListAfter, Get, Holds
<1> QED
  BY <1>1, <1>2 DEF ToLedger!ledgerVars

\* The session implements the ledger: whatever the interleaving, it looks to its
\* clients as if each transaction were executed, versioned and recorded at once
\* (execute_and_record, execute_transaction_traced_commit), each mint funded in one
\* step and counted in another, and each change whose save failed made alone.
THEOREM SessionImplementsLedger == Spec => ImplementsLedger
<1>1. LedgerInv /\ LedgerInv' /\ [Next]_vars => [ToLedger!Next]_(ToLedger!ledgerVars)
  BY StepImplements, LedgerRests DEF Next, Quiet
<1> QED
  BY <1>1, LedgerStarts, LedgerHeld, PTL DEF Spec, ImplementsLedger, ToLedger!Spec

=============================================================================
