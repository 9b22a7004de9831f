------------------------- MODULE SessionWrapperProofs -------------------------
(***************************************************************************)
(* Safety of the shared session, for any number of concurrent requests,    *)
(* any transactions, and any capacity of the record store: the lock, the   *)
(* versions, the commits, and then who made each change and what the       *)
(* records and the ledger version say of it.                               *)
(*                                                                         *)
(* That second half rests on one fact of the code: a request keeps the     *)
(* session locked from its change to its record, so the change of the      *)
(* request that is in the session is the last one (AuthorInv).             *)
(***************************************************************************)
EXTENDS SessionWrapper, FiniteSetTheorems, SequenceTheorems, TLAPS

Store == INSTANCE TxStoreProofs WITH Hash <- Txns, Record <- Records

\* What TxStoreProofs proves of its store, about the store of the session: it
\* starts well formed, and an insert keeps it so.
LEMMA EmptyStore == WithCapacity => TxTypeOK /\ QueueMatchesMap
BY Store!EmptyStore, StoreAssumption
   DEF WithCapacity, TxTypeOK, QueueMatchesMap, Store!WithCapacity, Store!TxTypeOK,
       Store!QueueMatchesMap

LEMMA InsertKeepsStore ==
  ASSUME NEW hash \in Txns, NEW value \in Records, TxTypeOK, QueueMatchesMap,
         Insert(hash, value)
  PROVE  /\ TxTypeOK'
         /\ QueueMatchesMap'
         /\ DOMAIN txMap' \subseteq DOMAIN txMap \cup {hash}
         /\ \A h \in DOMAIN txMap' : txMap'[h] = IF h = hash THEN value ELSE txMap[h]
<1>1. Store!TxTypeOK /\ Store!QueueMatchesMap
  BY DEF TxTypeOK, QueueMatchesMap, Store!TxTypeOK, Store!QueueMatchesMap
<1>2. Store!Insert(hash, value)
  BY Zenon
     DEF Insert, Written, Queued, KeysLeft, Fits, Evictions, Restrict, Cardinality,
       Store!Insert, Store!Written, Store!Queued, Store!KeysLeft, Store!Fits,
       Store!Evictions, Store!Restrict, Store!Cardinality
<1>3. /\ Store!TxTypeOK' /\ Store!QueueMatchesMap'
      /\ DOMAIN txMap' \subseteq DOMAIN txMap \cup {hash}
      /\ \A h \in DOMAIN txMap' : txMap'[h] = IF h = hash THEN value ELSE txMap[h]
  BY <1>1, <1>2, Store!InsertKeepsStore, StoreAssumption
<1> QED
  BY <1>3 DEF TxTypeOK, QueueMatchesMap, Store!TxTypeOK, Store!QueueMatchesMap

\* ... and one that finds room in it loses no other record.
LEMMA InsertHolds ==
  ASSUME NEW hash \in Txns, NEW value \in Records, TxTypeOK, QueueMatchesMap,
         Insert(hash, value), Cardinality(DOMAIN txMap \cup {hash}) <= Cap
  PROVE  DOMAIN txMap' = DOMAIN txMap \cup {hash}
<1>1. Store!TxTypeOK /\ Store!QueueMatchesMap
  BY DEF TxTypeOK, QueueMatchesMap, Store!TxTypeOK, Store!QueueMatchesMap
<1>2. Store!Insert(hash, value)
  BY Zenon
     DEF Insert, Written, Queued, KeysLeft, Fits, Evictions, Restrict, Cardinality,
       Store!Insert, Store!Written, Store!Queued, Store!KeysLeft, Store!Fits,
       Store!Evictions, Store!Restrict, Store!Cardinality
<1>3. Store!Cardinality(DOMAIN txMap \cup {hash}) <= Cap
  BY Zenon DEF Cardinality, Store!Cardinality
<1> QED
  BY <1>1, <1>2, <1>3, Store!InsertWithRoom, StoreAssumption

-----------------------------------------------------------------------------
(* Requests: a task is only where the code of its kind of request goes.    *)

TxnKinds == {"submit", "traceCommit"}

KindInv ==
  \A t \in Tasks :
    /\ pc[t] # "idle" => request[t] \in Requests
    /\ pc[t] \in {"run", "apply", "record"} => Kind(t) \in TxnKinds
    /\ pc[t] = "bump" => Kind(t) = "submit"
    /\ pc[t] = "readOps" => Kind(t) = "traceCommit"
    /\ pc[t] = "fund" => Kind(t) = "mint"
    /\ pc[t] = "persist" => Kind(t) \in TxnKinds \cup {"mint"}
    /\ pc[t] = "increment" => Kind(t) \in {"traceCommit", "mint"}
    /\ pc[t] \in {"copy", "load"} => Kind(t) \in CloneKinds

TypeInv == TypeOK /\ QueueMatchesMap /\ KindInv

LEMMA RequestTxn ==
  ASSUME NEW r \in Requests, r.kind \in TxnKinds \cup CloneKinds
  PROVE  r.txn \in Txns
BY DEF Requests, TxnKinds, CloneKinds

LEMMA InitTypeInv == Init => TypeInv
<1> SUFFICES ASSUME Init PROVE TypeInv
  OBVIOUS
<1>1. TxTypeOK /\ QueueMatchesMap
  BY EmptyStore, StoreAssumption DEF Init
<1>2. session \in Seq(Changes) /\ delta \in Seq(Changes)
  <2>1. Override \in Changes
    BY DEF Override, Changes, Kept
  <2>2. <<>> \in Seq(Changes) /\ <<Override>> \in Seq(Changes)
    BY <2>1
  <2> QED
    BY <2>2 DEF Init
<1>3. verdict \in [Tasks -> Verdicts]
  BY DEF Init, Verdicts
<1>4. TypeOK
  BY <1>1, <1>2, <1>3 DEF Init, TypeOK, Labels, Replies
<1>5. KindInv
  BY DEF Init, KindInv
<1> QED
  BY <1>1, <1>4, <1>5 DEF TypeInv

LEMMA NextTypeInv == TypeInv /\ [Next]_vars => TypeInv'
<1> SUFFICES ASSUME TypeInv, [Next]_vars PROVE TypeInv'
  OBVIOUS
<1> USE DEF TypeInv
<1>1. ASSUME UNCHANGED storeVars PROVE TxTypeOK' /\ QueueMatchesMap'
  BY <1>1 DEF TypeOK, storeVars, TxTypeOK, QueueMatchesMap
<1>2. ASSUME NEW t \in Tasks, Begin(t) PROVE TypeInv'
  <2>1. PICK r \in Requests :
          /\ request' = [request EXCEPT ![t] = r]
          /\ IF r.kind \in CloneKinds THEN Goto(t, "mktemp") ELSE Goto(t, "acquire")
          /\ IF r.kind \in CloneKinds \cup {"view"}
             THEN floor' = [floor EXCEPT ![t] = Acked] ELSE floor' = floor
    BY <1>2 DEF Begin
  <2>2. TxTypeOK' /\ QueueMatchesMap'
    BY <1>1, <1>2 DEF Begin
  <2>3. floor' \in [Tasks -> SUBSET Tasks]
    <3>1. Acked \in SUBSET Tasks
      BY DEF Acked
    <3>2. floor' = [floor EXCEPT ![t] = Acked] \/ floor' = floor
      BY <2>1
    <3> QED
      BY <3>1, <3>2 DEF TypeOK
  <2>4. pc' \in [Tasks -> Labels]
    BY <2>1 DEF TypeOK, Goto, Labels
  <2>5. TypeOK'
    BY <1>2, <2>1, <2>2, <2>3, <2>4 DEF Begin, TypeOK
  <2>6. KindInv'
    BY <1>2, <2>1 DEF Begin, TypeOK, KindInv, Goto, Kind
  <2> QED
    BY <2>2, <2>5, <2>6
<1>3. ASSUME NEW t \in Tasks, Acquire(t) PROVE TypeInv'
  <2>1. TxTypeOK' /\ QueueMatchesMap'
    BY <1>1, <1>3 DEF Acquire
  <2>2. AfterAcquire(t) \in Labels
    BY <1>3 DEF Acquire, KindInv, AfterAcquire, Kind, CloneKinds, Requests, Labels
  <2>3. TypeOK'
    BY <1>3, <2>1, <2>2 DEF Acquire, TypeOK, Goto
  <2>4. KindInv'
    BY <1>3 DEF Acquire, TypeOK, KindInv, Goto, Kind, AfterAcquire, CloneKinds,
         Requests, TxnKinds
  <2> QED
    BY <2>1, <2>3, <2>4
<1>4. ASSUME NEW t \in Tasks, RunVm(t) PROVE TypeInv'
  <2>1. PICK v \in VmVerdicts(session, request[t].txn) :
          /\ verdict' = [verdict EXCEPT ![t] = v]
          /\ IF v = "discard" /\ Kind(t) = "traceCommit"
             THEN ReleaseAnd(t, "ok")
             ELSE Goto(t, "apply") /\ UNCHANGED <<inner, reply>>
    BY <1>4 DEF RunVm
  <2>2. TxTypeOK' /\ QueueMatchesMap'
    BY <1>1, <1>4 DEF RunVm
  <2>3. verdict' \in [Tasks -> Verdicts]
    BY <2>1 DEF TypeOK, VmVerdicts, Verdicts
  <2>4. /\ inner' \in Tasks \cup {NoTask}
        /\ pc' \in [Tasks -> Labels]
        /\ reply' \in [Tasks -> Replies]
    BY <2>1 DEF TypeOK, Goto, ReleaseAnd, Labels, Replies
  <2>5. TypeOK'
    BY <1>4, <2>2, <2>3, <2>4 DEF RunVm, TypeOK
  <2>6. KindInv'
    BY <1>4, <2>1 DEF RunVm, TypeOK, KindInv, Goto, ReleaseAnd, Kind
  <2> QED
    BY <2>2, <2>5, <2>6
<1>5. ASSUME NEW t \in Tasks, VmFails(t) PROVE TypeInv'
  <2>1. TxTypeOK' /\ QueueMatchesMap'
    BY <1>1, <1>5 DEF VmFails
  <2>2. TypeOK'
    BY <1>5, <2>1 DEF VmFails, TypeOK, ReleaseAnd, Goto, Labels, Replies
  <2>3. KindInv'
    BY <1>5 DEF VmFails, TypeOK, KindInv, ReleaseAnd, Goto, Kind
  <2> QED
    BY <2>1, <2>2, <2>3
<1>6. ASSUME NEW t \in Tasks, ApplyWriteSet(t) PROVE TypeInv'
  <2>1. TxTypeOK' /\ QueueMatchesMap'
    BY <1>1, <1>6 DEF ApplyWriteSet
  <2>2. session' \in Seq(Changes)
    <3>1. request[t].txn \in Txns
      BY <1>6, RequestTxn DEF ApplyWriteSet, KindInv, Kind
    <3>2. ASSUME verdict[t] \in Kept PROVE Change(t) \in Changes
      BY <3>1, <3>2 DEF Change, Changes
    <3> QED
      BY <1>6, <3>2, AppendProperties DEF ApplyWriteSet, TypeOK
  <2>3. TypeOK'
    BY <1>6, <2>1, <2>2 DEF ApplyWriteSet, TypeOK, Goto, Labels
  <2>4. KindInv'
    BY <1>6 DEF ApplyWriteSet, TypeOK, KindInv, Goto, Kind
  <2> QED
    BY <2>1, <2>3, <2>4
<1>7. ASSUME NEW t \in Tasks, FundAccount(t) PROVE TypeInv'
  <2>1. TxTypeOK' /\ QueueMatchesMap'
    BY <1>1, <1>7 DEF FundAccount
  <2>2. session' \in Seq(Changes)
    <3>1. [txn |-> NoTxn, status |-> "success", by |-> t] \in Changes
      BY DEF Changes, Kept
    <3> QED
      BY <1>7, <3>1, AppendProperties DEF FundAccount, TypeOK
  <2>3. TypeOK'
    BY <1>7, <2>1, <2>2 DEF FundAccount, TypeOK, Goto, Labels
  <2>4. KindInv'
    BY <1>7 DEF FundAccount, TypeOK, KindInv, Goto, Kind
  <2> QED
    BY <2>1, <2>3, <2>4
<1>8. ASSUME NEW t \in Tasks, Persist(t) PROVE TypeInv'
  <2>1. TxTypeOK' /\ QueueMatchesMap'
    BY <1>1, <1>8 DEF Persist
  <2>2. TypeOK'
    BY <1>8, <2>1 DEF Persist, TypeOK, Goto, Labels
  <2>3. KindInv'
    BY <1>8 DEF Persist, TypeOK, KindInv, Goto, Kind, TxnKinds
  <2> QED
    BY <2>1, <2>2, <2>3
<1>9. ASSUME NEW t \in Tasks, PersistFails(t) PROVE TypeInv'
  <2>1. TxTypeOK' /\ QueueMatchesMap'
    BY <1>1, <1>9 DEF PersistFails
  <2>2. TypeOK'
    BY <1>9, <2>1 DEF PersistFails, TypeOK, ReleaseAnd, Goto, Labels, Replies
  <2>3. KindInv'
    BY <1>9 DEF PersistFails, TypeOK, KindInv, ReleaseAnd, Goto, Kind
  <2> QED
    BY <2>1, <2>2, <2>3
<1>10. ASSUME NEW t \in Tasks, Bump(t) PROVE TypeInv'
  <2>1. TxTypeOK' /\ QueueMatchesMap'
    BY <1>1, <1>10 DEF Bump
  <2>2. TypeOK'
    BY <1>10, <2>1 DEF Bump, TypeOK, Goto, Labels
  <2>3. KindInv'
    BY <1>10 DEF Bump, TypeOK, KindInv, Goto, Kind, TxnKinds
  <2> QED
    BY <2>1, <2>2, <2>3
<1>11. ASSUME NEW t \in Tasks, IncrementOps(t) PROVE TypeInv'
  <2>1. TxTypeOK' /\ QueueMatchesMap'
    BY <1>1, <1>11 DEF IncrementOps
  <2>2. TypeOK'
    <3>1. pc' \in [Tasks -> Labels] /\ reply' \in [Tasks -> Replies]
      BY <1>11 DEF IncrementOps, TypeOK, Goto, Labels, Replies
    <3> QED
      BY <1>11, <2>1, <3>1 DEF IncrementOps, TypeOK
  <2>3. KindInv'
    BY <1>11 DEF IncrementOps, TypeOK, KindInv, Goto, Kind, TxnKinds
  <2> QED
    BY <2>1, <2>2, <2>3
<1>12. ASSUME NEW t \in Tasks, ReadOps(t) PROVE TypeInv'
  <2>1. TxTypeOK' /\ QueueMatchesMap'
    BY <1>1, <1>12 DEF ReadOps
  <2>2. TypeOK'
    BY <1>12, <2>1 DEF ReadOps, TypeOK, Goto, Labels
  <2>3. KindInv'
    BY <1>12 DEF ReadOps, TypeOK, KindInv, Goto, Kind, TxnKinds
  <2> QED
    BY <2>1, <2>2, <2>3
<1>13. ASSUME NEW t \in Tasks, StoreRecord(t) PROVE TypeInv'
  <2> DEFINE record == [status |-> verdict[t], version |-> version[t]]
  <2>1. request[t].txn \in Txns /\ record \in Records
    BY <1>13, RequestTxn DEF StoreRecord, KindInv, Kind, TypeOK, Records
  <2>2. TxTypeOK' /\ QueueMatchesMap'
    BY <1>13, <2>1, InsertKeepsStore, StoreAssumption DEF StoreRecord, TypeOK
  <2>3. TypeOK'
    BY <1>13, <2>2 DEF StoreRecord, TypeOK, ReleaseAnd, Goto, Labels, Replies
  <2>4. KindInv'
    BY <1>13 DEF StoreRecord, TypeOK, KindInv, ReleaseAnd, Goto, Kind
  <2> QED
    BY <2>2, <2>3, <2>4
<1>14. ASSUME NEW t \in Tasks, MakeTemp(t) PROVE TypeInv'
  <2>1. TxTypeOK' /\ QueueMatchesMap'
    BY <1>1, <1>14 DEF MakeTemp
  <2>2. PICK p \in ClockReadings(t) :
          /\ path' = [path EXCEPT ![t] = p]
          /\ tempDirs' = IF tempDirs[p] = NoDir THEN [tempDirs EXCEPT ![p] = Torn]
                                                ELSE tempDirs
    BY <1>14 DEF MakeTemp
  <2>3. ClockReadings(t) \subseteq Tasks
    BY DEF ClockReadings, Live, TypeOK
  <2>4. path' \in [Tasks -> Tasks]
    BY <2>2, <2>3 DEF TypeOK
  <2>5. tempDirs' \in [Tasks -> Seq(Changes) \cup {Torn, NoDir}]
    BY <2>2, <2>3 DEF TypeOK
  <2>6. TypeOK'
    BY <1>14, <2>1, <2>4, <2>5 DEF MakeTemp, TypeOK, Goto, Labels
  <2>7. KindInv'
    BY <1>14 DEF MakeTemp, TypeOK, KindInv, Goto, Kind
  <2> QED
    BY <2>1, <2>6, <2>7
<1>15. ASSUME NEW t \in Tasks, CopySession(t) PROVE TypeInv'
  <2>1. TxTypeOK' /\ QueueMatchesMap'
    BY <1>1, <1>15 DEF CopySession
  <2>2. DeltaOnDisk \in Seq(Changes) \cup {Torn, NoDir}
    BY DEF DeltaOnDisk, TypeOK
  <2>3. tempDirs' \in [Tasks -> Seq(Changes) \cup {Torn, NoDir}]
    BY <1>15, <2>2 DEF CopySession, TypeOK
  <2>4. /\ pc' \in [Tasks -> Labels]
        /\ reply' \in [Tasks -> Replies]
    BY <1>15 DEF CopySession, TypeOK, Goto, Labels, Replies
  <2>5. TypeOK'
    BY <1>15, <2>1, <2>3, <2>4 DEF CopySession, TypeOK
  <2>6. KindInv'
    <3>1. /\ pc[t] = "copy" /\ UNCHANGED request
          /\ \E label \in {"cleanup", "load"} : pc' = [pc EXCEPT ![t] = label]
      BY <1>15 DEF CopySession, Goto
    <3> QED
      BY <3>1 DEF TypeOK, KindInv, Kind
  <2> QED
    BY <2>1, <2>5, <2>6
<1>16. ASSUME NEW t \in Tasks, RunClone(t) PROVE TypeInv'
  <2> DEFINE clone == tempDirs[path[t]]
  <2>1. TxTypeOK' /\ QueueMatchesMap'
    BY <1>1, <1>16 DEF RunClone
  <2>2. PICK v \in VmVerdicts(clone, request[t].txn) :
          /\ verdict' = [verdict EXCEPT ![t] = v]
          /\ tempDirs' =
               IF Kind(t) = "simulate" /\ v \in Kept
               THEN [tempDirs EXCEPT ![path[t]] =
                       Append(clone, [Change(t) EXCEPT !.status = v])]
               ELSE tempDirs
    BY <1>16 DEF RunClone
  <2>3. clone \in Seq(Changes)
    BY <1>16 DEF RunClone, TypeOK
  <2>4. request[t].txn \in Txns
    BY <1>16, RequestTxn DEF RunClone, KindInv, Kind
  <2>5. ASSUME v \in Kept
        PROVE  Append(clone, [Change(t) EXCEPT !.status = v]) \in Seq(Changes)
    <3>1. [Change(t) EXCEPT !.status = v] = [txn |-> request[t].txn, status |-> v, by |-> t]
      BY DEF Change
    <3>2. [Change(t) EXCEPT !.status = v] \in Changes
      BY <2>4, <2>5, <3>1 DEF Changes
    <3> QED
      BY <2>3, <3>2, AppendProperties
  <2>6. tempDirs' \in [Tasks -> Seq(Changes) \cup {Torn, NoDir}]
    BY <2>2, <2>5 DEF TypeOK
  <2>7. verdict' \in [Tasks -> Verdicts]
    BY <2>2 DEF TypeOK, VmVerdicts, Verdicts
  <2>8. snap' \in [Tasks -> Seq(Changes) \cup {NoSnap}]
    BY <1>16, <2>3 DEF RunClone, TypeOK
  <2>9. TypeOK'
    BY <1>16, <2>1, <2>6, <2>7, <2>8 DEF RunClone, TypeOK, Goto, Labels
  <2>10. KindInv'
    BY <1>16 DEF RunClone, TypeOK, KindInv, Goto, Kind
  <2> QED
    BY <2>1, <2>9, <2>10
<1>17. ASSUME NEW t \in Tasks, CloneFails(t) \/ ClonePanics(t) PROVE TypeInv'
  <2>1. TxTypeOK' /\ QueueMatchesMap'
    BY <1>1, <1>17 DEF CloneFails, ClonePanics
  <2>2. TypeOK'
    <3>1. CASE CloneFails(t)
      BY <2>1, <3>1 DEF CloneFails, TypeOK, Goto, Labels, Replies
    <3>2. CASE ClonePanics(t)
      BY <2>1, <3>2 DEF ClonePanics, TypeOK, Goto, Labels, Replies
    <3> QED
      BY <1>17, <3>1, <3>2
  <2>3. KindInv'
    BY <1>17 DEF CloneFails, ClonePanics, TypeOK, KindInv, Goto, Kind
  <2> QED
    BY <2>1, <2>2, <2>3
<1>18. ASSUME NEW t \in Tasks, Cleanup(t) PROVE TypeInv'
  <2>1. TxTypeOK' /\ QueueMatchesMap'
    BY <1>1, <1>18 DEF Cleanup
  <2>2. TypeOK'
    BY <1>18, <2>1 DEF Cleanup, TypeOK, Goto, Labels, Replies
  <2>3. KindInv'
    BY <1>18 DEF Cleanup, TypeOK, KindInv, Goto, Kind
  <2> QED
    BY <2>1, <2>2, <2>3
<1>19. ASSUME NEW t \in Tasks, ReadSession(t) PROVE TypeInv'
  <2>1. TxTypeOK' /\ QueueMatchesMap'
    BY <1>1, <1>19 DEF ReadSession
  <2>2. TypeOK'
    BY <1>19, <2>1 DEF ReadSession, TypeOK, ReleaseAnd, Goto, Labels, Replies
  <2>3. KindInv'
    BY <1>19 DEF ReadSession, TypeOK, KindInv, ReleaseAnd, Goto, Kind
  <2> QED
    BY <2>1, <2>2, <2>3
<1>20. ASSUME NEW t \in Tasks, MakeTempFails(t) \/ CopyFails(t) \/ CleanupFails(t)
       PROVE  TypeInv'
  <2>1. TxTypeOK' /\ QueueMatchesMap'
    BY <1>1, <1>20 DEF MakeTempFails, CopyFails, CleanupFails
  <2>2. tempDirs' \in [Tasks -> Seq(Changes) \cup {Torn, NoDir}]
    <3>1. path[t] \in Tasks /\ tempDirs \in [Tasks -> Seq(Changes) \cup {Torn, NoDir}]
      BY DEF TypeOK
    <3> QED
      BY <1>20, <3>1 DEF MakeTempFails, CopyFails, CleanupFails
  <2>3. TypeOK'
    <3>1. CASE MakeTempFails(t)
      BY <2>1, <2>2, <3>1 DEF MakeTempFails, TypeOK, Goto, Labels, Replies
    <3>2. CASE CopyFails(t)
      BY <2>1, <2>2, <3>2 DEF CopyFails, TypeOK, Goto, Labels, Replies
    <3>3. CASE CleanupFails(t)
      BY <2>1, <2>2, <3>3 DEF CleanupFails, TypeOK, Goto, Labels, Replies
    <3> QED
      BY <1>20, <3>1, <3>2, <3>3
  <2>4. KindInv'
    <3>1. /\ \E label \in {"done", "cleanup"} : pc' = [pc EXCEPT ![t] = label]
          /\ pc[t] \in {"mktemp", "copy", "cleanup"} /\ UNCHANGED request
      BY <1>20 DEF MakeTempFails, CopyFails, CleanupFails, Goto
    <3> QED
      BY <3>1 DEF TypeOK, KindInv, Kind
  <2> QED
    BY <2>1, <2>3, <2>4
<1>21. CASE UNCHANGED vars
  <2>1. TxTypeOK' /\ QueueMatchesMap'
    BY <1>1, <1>21 DEF vars, storeVars
  <2> QED
    BY <1>21, <2>1 DEF vars, TypeOK, KindInv, Kind
<1> QED
  BY <1>2, <1>3, <1>4, <1>5, <1>6, <1>7, <1>8, <1>9, <1>10, <1>11, <1>12, <1>13, <1>14,
     <1>15, <1>16, <1>17, <1>18, <1>19, <1>20, <1>21 DEF Next, Step, Quiet

\* Everything the program keeps about the session, its store and its requests is
\* well formed at every moment, with every number of concurrent requests.
THEOREM TypeCorrect == Spec => []TypeOK
<1>1. Spec => []TypeInv
  BY InitTypeInv, NextTypeInv, PTL DEF Spec
<1> QED
  BY <1>1, PTL DEF TypeInv

-----------------------------------------------------------------------------
(* The session lock.                                                       *)

InSession(t) ==
  \/ pc[t] \in {"run", "apply", "fund", "persist", "bump", "readOps", "record", "copy",
                "read"}
  \/ pc[t] = "increment" /\ Kind(t) = "traceCommit"

\* A task is in one of the critical sections exactly when it holds the lock.
LockInv == \A t \in Tasks : InSession(t) <=> inner = t

\* The steps that leave the lock and the critical sections as they are.
LEMMA NextLockInv == TypeInv /\ LockInv /\ [Next]_vars => LockInv'
<1> SUFFICES ASSUME TypeInv, LockInv, [Next]_vars PROVE LockInv'
  OBVIOUS
<1> USE TaskAssumption DEF LockInv, InSession, Goto, ReleaseAnd, Kind
<1>1. pc \in [Tasks -> Labels] /\ KindInv
  BY DEF TypeInv, TypeOK
<1>2. request \in [Tasks -> Requests \cup {[kind |-> "none", txn |-> NoTxn]}]
  BY DEF TypeInv, TypeOK
<1>3. ASSUME NEW t \in Tasks, Begin(t) PROVE LockInv'
  BY <1>1, <1>2, <1>3 DEF Begin
<1>4. ASSUME NEW t \in Tasks, Acquire(t) PROVE LockInv'
  <2>1. AfterAcquire(t) \in {"run", "fund", "copy", "read"}
    BY <1>1, <1>4 DEF Acquire, KindInv, AfterAcquire, CloneKinds, Requests
  <2> QED
    BY <1>1, <1>4, <2>1 DEF Acquire
<1>5. ASSUME NEW t \in Tasks, RunVm(t) PROVE LockInv'
  BY <1>1, <1>5 DEF RunVm
<1>6. ASSUME NEW t \in Tasks, VmFails(t) \/ PersistFails(t) \/ StoreRecord(t) \/ ReadSession(t)
      PROVE  LockInv'
  <2>1. /\ pc[t] \in {"run", "fund", "persist", "record", "read"}
        /\ inner' = NoTask /\ pc' = [pc EXCEPT ![t] = "done"]
        /\ UNCHANGED request
    BY <1>6 DEF VmFails, PersistFails, StoreRecord, ReadSession
  <2> QED
    BY <1>1, <2>1
<1>7. ASSUME NEW t \in Tasks, ApplyWriteSet(t) \/ FundAccount(t) \/ Bump(t) \/ ReadOps(t)
      PROVE  LockInv'
  <2>1. /\ pc[t] \in {"apply", "fund", "bump", "readOps"}
        /\ \E label \in {"persist", "record"} : pc' = [pc EXCEPT ![t] = label]
        /\ UNCHANGED <<inner, request>>
    BY <1>7 DEF ApplyWriteSet, FundAccount, Bump, ReadOps
  <2> QED
    BY <1>1, <2>1
<1>8. ASSUME NEW t \in Tasks, Persist(t) PROVE LockInv'
  BY <1>1, <1>8 DEF Persist, KindInv, TxnKinds
<1>9. ASSUME NEW t \in Tasks, IncrementOps(t) PROVE LockInv'
  BY <1>1, <1>9 DEF IncrementOps, KindInv
<1>10. ASSUME NEW t \in Tasks, CopySession(t) \/ CopyFails(t) PROVE LockInv'
  <2>1. /\ pc[t] = "copy"
        /\ \E label \in {"cleanup", "load"} : pc' = [pc EXCEPT ![t] = label]
        /\ inner' = NoTask /\ UNCHANGED request
    BY <1>10 DEF CopySession, CopyFails
  <2> QED
    BY <1>1, <2>1
<1>11. ASSUME NEW t \in Tasks,
              \/ MakeTemp(t) \/ MakeTempFails(t) \/ RunClone(t) \/ CloneFails(t)
              \/ ClonePanics(t) \/ Cleanup(t) \/ CleanupFails(t)
       PROVE  LockInv'
  <2>1. /\ pc[t] \in {"mktemp", "load", "cleanup"}
        /\ \E label \in {"acquire", "cleanup", "done"} : pc' = [pc EXCEPT ![t] = label]
        /\ UNCHANGED <<inner, request>>
    BY <1>11 DEF MakeTemp, MakeTempFails, RunClone, CloneFails, ClonePanics, Cleanup, CleanupFails
  <2> QED
    BY <1>1, <2>1
<1>12. CASE UNCHANGED vars
  BY <1>12 DEF vars
<1> QED
  BY <1>3, <1>4, <1>5, <1>6, <1>7, <1>8, <1>9, <1>10, <1>11, <1>12 DEF Next, Step, Quiet

LEMMA LockHeld == Spec => [](TypeInv /\ LockInv)
<1>1. Init => LockInv
  BY TaskAssumption DEF Init, LockInv, InSession
<1> QED
  BY <1>1, InitTypeInv, NextTypeInv, NextLockInv, PTL DEF Spec

-----------------------------------------------------------------------------
(* Versions.                                                               *)

\* A task about to record has a version above those of all records: it took it
\* while it held the session, and whoever recorded before had given the session
\* back.  Mints, which bump without the session, only add to the distance.
VersionInv ==
  /\ \A h \in DOMAIN txMap : txMap[h].version <= opsCount
  /\ \A t \in Tasks : pc[t] = "readOps" =>
       \A h \in DOMAIN txMap : txMap[h].version < opsCount
  /\ \A t \in Tasks : pc[t] = "record" =>
       /\ version[t] <= opsCount
       /\ \A h \in DOMAIN txMap : txMap[h].version < version[t]
  /\ VersionsUnique

LEMMA RecordVersions ==
  ASSUME TypeOK
  PROVE  /\ opsCount \in Nat
         /\ \A t \in Tasks : version[t] \in Nat
         /\ \A h \in DOMAIN txMap : txMap[h].version \in Nat /\ h \in Txns
BY DEF TypeOK, TxTypeOK, Records

LEMMA StoredRecord ==
  ASSUME TypeInv, NEW t \in Tasks, StoreRecord(t)
  PROVE  /\ request[t].txn \in Txns
         /\ DOMAIN txMap' \subseteq DOMAIN txMap \cup {request[t].txn}
         /\ \A h \in DOMAIN txMap' : txMap'[h] =
              IF h = request[t].txn THEN [status |-> verdict[t], version |-> version[t]]
                                    ELSE txMap[h]
<1> DEFINE record == [status |-> verdict[t], version |-> version[t]]
<1>1. request[t].txn \in Txns /\ record \in Records
  BY RequestTxn DEF StoreRecord, KindInv, Kind, TypeInv, TypeOK, Records
<1> QED
  BY <1>1, InsertKeepsStore, StoreAssumption DEF StoreRecord, TypeInv, TypeOK

LEMMA NextVersionInv ==
  TypeInv /\ TypeInv' /\ LockInv /\ VersionInv /\ [Next]_vars => VersionInv'
<1> SUFFICES ASSUME TypeInv, TypeInv', LockInv, VersionInv, [Next]_vars PROVE VersionInv'
  OBVIOUS
<1>1. /\ opsCount \in Nat
      /\ \A t \in Tasks : version[t] \in Nat
      /\ \A h \in DOMAIN txMap : txMap[h].version \in Nat
      /\ pc \in [Tasks -> Labels] /\ version \in [Tasks -> Nat]
  BY RecordVersions DEF TypeInv, TypeOK
<1>2. \A t, u \in Tasks :
        pc[t] \in {"bump", "readOps", "record"} /\ pc[u] \in {"bump", "readOps", "record"}
          => t = u
  BY DEF LockInv, InSession
<1>3. ASSUME NEW t \in Tasks, Bump(t) PROVE VersionInv'
  <2>1. /\ opsCount' = opsCount + 1 /\ version' = [version EXCEPT ![t] = opsCount + 1]
        /\ pc[t] = "bump" /\ pc' = [pc EXCEPT ![t] = "record"] /\ UNCHANGED txMap
    BY <1>3 DEF Bump, Goto, storeVars
  <2>2. \A u \in Tasks : pc'[u] \in {"readOps", "record"} => u = t
    BY <1>1, <1>2, <2>1
  <2>3. version'[t] = opsCount + 1 /\ pc'[t] = "record"
    BY <1>1, <2>1
  <2> QED
    BY <1>1, <2>1, <2>2, <2>3 DEF VersionInv, VersionsUnique
<1>4. ASSUME NEW t \in Tasks, IncrementOps(t) PROVE VersionInv'
  <2>1. /\ opsCount' = opsCount + 1 /\ UNCHANGED <<version, txMap>>
        /\ \E label \in {"done", "readOps"} : pc' = [pc EXCEPT ![t] = label]
    BY <1>4 DEF IncrementOps, Goto, storeVars
  <2>2. \A u \in Tasks : pc'[u] = "record" => pc[u] = "record"
    BY <1>1, <2>1
  <2> QED
    BY <1>1, <2>1, <2>2 DEF VersionInv, VersionsUnique
<1>5. ASSUME NEW t \in Tasks, ReadOps(t) PROVE VersionInv'
  <2>1. /\ version' = [version EXCEPT ![t] = opsCount] /\ UNCHANGED <<opsCount, txMap>>
        /\ pc[t] = "readOps" /\ pc' = [pc EXCEPT ![t] = "record"]
    BY <1>5 DEF ReadOps, Goto, storeVars
  <2>2. \A u \in Tasks : pc'[u] \in {"readOps", "record"} => u = t
    BY <1>1, <1>2, <2>1
  <2>3. version'[t] = opsCount /\ pc'[t] = "record"
    BY <1>1, <2>1
  <2> QED
    BY <1>1, <2>1, <2>2, <2>3 DEF VersionInv, VersionsUnique
<1>6. ASSUME NEW t \in Tasks, StoreRecord(t) PROVE VersionInv'
  <2>1. /\ pc[t] = "record" /\ pc' = [pc EXCEPT ![t] = "done"]
        /\ UNCHANGED <<opsCount, version>>
    BY <1>6 DEF StoreRecord, ReleaseAnd, Goto
  <2>2. \A u \in Tasks : pc'[u] \notin {"readOps", "record"}
    BY <1>1, <1>2, <2>1
  <2>3. \A h \in DOMAIN txMap' :
          \/ h = request[t].txn /\ txMap'[h].version = version[t]
          \/ h # request[t].txn /\ h \in DOMAIN txMap /\ txMap'[h] = txMap[h]
    BY <1>6, StoredRecord
  <2>4. VersionsUnique'
    BY <1>1, <2>1, <2>3 DEF VersionInv, VersionsUnique
  <2> QED
    BY <1>1, <2>1, <2>2, <2>3, <2>4 DEF VersionInv
<1>7. ASSUME UNCHANGED <<opsCount, version, txMap>>,
             \A u \in Tasks : pc'[u] \in {"readOps", "record"} => pc'[u] = pc[u]
      PROVE  VersionInv'
  BY <1>7 DEF VersionInv, VersionsUnique
<1>8. ASSUME NEW t \in Tasks,
             \/ Begin(t) \/ Acquire(t) \/ RunVm(t) \/ VmFails(t) \/ ApplyWriteSet(t)
             \/ FundAccount(t) \/ Persist(t) \/ PersistFails(t) \/ MakeTemp(t)
             \/ MakeTempFails(t) \/ CopySession(t) \/ CopyFails(t) \/ RunClone(t)
             \/ CloneFails(t) \/ ClonePanics(t) \/ Cleanup(t) \/ CleanupFails(t)
             \/ ReadSession(t)
      PROVE  /\ UNCHANGED <<opsCount, version, txMap>>
             /\ \A u \in Tasks : pc'[u] \in {"readOps", "record"} => pc'[u] = pc[u]
  <2>1. UNCHANGED <<opsCount, version, txMap>>
    BY <1>8 DEF Begin, Acquire, RunVm, VmFails, ApplyWriteSet, FundAccount, Persist, PersistFails,
       MakeTemp, MakeTempFails, CopySession, CopyFails, RunClone, CloneFails, ClonePanics, Cleanup,
       CleanupFails, ReadSession, storeVars
  <2>2. \E label \in Labels \ {"readOps", "record"} : pc' = [pc EXCEPT ![t] = label]
    <3>1. CASE Acquire(t)
      <4>1. AfterAcquire(t) \in Labels \ {"readOps", "record"}
        BY <3>1 DEF TypeInv, Acquire, KindInv, AfterAcquire, Kind, CloneKinds, Requests,
             Labels
      <4> QED
        BY <3>1, <4>1 DEF Acquire, Goto
    <3>2. CASE Begin(t) \/ RunVm(t) \/ Persist(t) \/ CopySession(t) \/ CopyFails(t)
      BY <3>2 DEF Begin, RunVm, Persist, CopySession, CopyFails, Goto, ReleaseAnd, Labels
    <3>3. CASE \/ VmFails(t) \/ ApplyWriteSet(t) \/ FundAccount(t) \/ PersistFails(t)
               \/ MakeTemp(t) \/ MakeTempFails(t) \/ RunClone(t) \/ CloneFails(t)
               \/ ClonePanics(t) \/ Cleanup(t) \/ CleanupFails(t) \/ ReadSession(t)
      BY <3>3 DEF VmFails, ApplyWriteSet, FundAccount, PersistFails, MakeTemp, MakeTempFails,
         RunClone, CloneFails, ClonePanics, Cleanup, CleanupFails, ReadSession, Goto, ReleaseAnd,
         Labels
    <3> QED
      BY <1>8, <3>1, <3>2, <3>3
  <2> QED
    BY <1>1, <2>1, <2>2
<1>9. CASE UNCHANGED vars
  BY <1>7, <1>9 DEF vars
<1> QED
  BY <1>3, <1>4, <1>5, <1>6, <1>7, <1>8, <1>9 DEF Next, Step, Quiet

LEMMA VersionsHeld == Spec => [](TypeInv /\ LockInv /\ VersionInv)
<1>1. Init => VersionInv
  BY DEF Init, WithCapacity, VersionInv, VersionsUnique
<1>2. TypeInv /\ LockInv /\ VersionInv /\ [Next]_vars => (TypeInv /\ LockInv /\ VersionInv)'
  BY NextTypeInv, NextLockInv, NextVersionInv
<1>3. Init => TypeInv /\ LockInv
  BY InitTypeInv, TaskAssumption DEF Init, LockInv, InSession
<1> QED
  BY <1>1, <1>2, <1>3, PTL DEF Spec

\* No two transaction records ever carry the same ledger version, whatever mix of
\* submits, traced commits and mints runs concurrently (execute_and_record,
\* execute_transaction_traced_commit, mint).
THEOREM VersionsAreUnique == Spec => []VersionsUnique
BY VersionsHeld, PTL DEF VersionInv

\* The record of a hash is never replaced by an older one.
THEOREM RecordsAdvance == Spec => RecordsMoveForward
<1>1. TypeInv /\ LockInv /\ VersionInv /\ [Next]_vars =>
        [\A h \in DOMAIN txMap :
           h \in DOMAIN txMap' =>
             /\ txMap[h].version <= txMap'[h].version
             /\ txMap[h] # txMap'[h] => txMap[h].version < txMap'[h].version]_vars
  <2> SUFFICES ASSUME TypeInv, VersionInv, Next, NEW h \in DOMAIN txMap, h \in DOMAIN txMap'
               PROVE  /\ txMap[h].version <= txMap'[h].version
                      /\ txMap[h] # txMap'[h] => txMap[h].version < txMap'[h].version
    OBVIOUS
  <2>1. \A g \in DOMAIN txMap : txMap[g].version \in Nat
    BY RecordVersions DEF TypeInv
  <2>2. \A t \in Tasks : version[t] \in Nat
    BY RecordVersions DEF TypeInv
  <2>3. ASSUME NEW t \in Tasks, StoreRecord(t)
        PROVE  txMap[h].version < version[t] /\ (txMap'[h] = txMap[h] \/ txMap'[h].version = version[t])
    <3>1. txMap'[h] = IF h = request[t].txn
                      THEN [status |-> verdict[t], version |-> version[t]] ELSE txMap[h]
      BY <2>3, StoredRecord
    <3>2. txMap[h].version < version[t]
      BY <2>3 DEF StoreRecord, VersionInv
    <3> QED
      BY <3>1, <3>2
  <2>4. ASSUME NEW t \in Tasks, Step(t), ~ StoreRecord(t) PROVE UNCHANGED txMap
    BY <2>4 DEF Step, Begin, Acquire, RunVm, VmFails, ApplyWriteSet, FundAccount, Persist,
       PersistFails, Bump, IncrementOps, ReadOps, MakeTemp, MakeTempFails, CopySession, CopyFails,
       RunClone, CloneFails, ClonePanics, Cleanup, CleanupFails, ReadSession, storeVars
  <2>5. CASE Quiet
    BY <2>1, <2>5 DEF Quiet, vars
  <2> QED
    BY <2>1, <2>2, <2>3, <2>4, <2>5 DEF Next
<1> QED
  BY <1>1, VersionsHeld, PTL DEF Spec, RecordsMoveForward

-----------------------------------------------------------------------------
(* Commits.                                                                *)

Signs(change, sender) == change.txn # NoTxn /\ Sender[change.txn] = sender

\* One more change moves the next sequence number of its sender, and no other's.
LEMMA NextSeqAppend ==
  ASSUME NEW changes \in Seq(Changes), NEW change \in Changes, NEW sender
  PROVE  /\ NextSeq(changes, sender) \in Nat
         /\ NextSeq(Append(changes, change), sender)
              = NextSeq(changes, sender) + IF Signs(change, sender) THEN 1 ELSE 0
<1> DEFINE n == Len(changes)
           longer == Append(changes, change)
           old == ChangesOf(changes, sender)
           new == ChangesOf(longer, sender)
<1>1. n \in Nat /\ DOMAIN changes = 1 .. n
  BY LenProperties
<1>2. /\ longer \in Seq(Changes) /\ Len(longer) = n + 1
      /\ \A i \in 1 .. n : longer[i] = changes[i]
      /\ longer[n + 1] = change
  BY AppendProperties
<1>3. DOMAIN longer = 1 .. n + 1
  BY <1>2, LenProperties
<1> HIDE DEF longer
<1>4. old \subseteq 1 .. n
  BY <1>1 DEF ChangesOf
<1>5. IsFiniteSet(old) /\ Cardinality(old) \in Nat
  <2>1. \A m \in Nat : IsFiniteSet(1 .. m)
    BY FS_Interval
  <2> QED
    BY <1>1, <1>4, <2>1, FS_Subset, FS_CardinalityType
<1>6. new = old \cup IF Signs(change, sender) THEN {n + 1} ELSE {}
  <2>1. \A i \in 1 .. n + 1 : i \in 1 .. n \/ i = n + 1
    BY <1>1
  <2>2. n + 1 \in 1 .. n + 1 /\ \A i \in 1 .. n : i \in 1 .. n + 1
    BY <1>1
  <2> QED
    BY <1>1, <1>2, <1>3, <2>1, <2>2 DEF ChangesOf, Signs
<1>7. n + 1 \notin old
  BY <1>1, <1>4
<1>8. Cardinality(new) = Cardinality(old) + IF Signs(change, sender) THEN 1 ELSE 0
  <2>1. CASE Signs(change, sender)
    <3>1. new = old \cup {n + 1}
      BY <1>6, <2>1
    <3> QED
      BY <1>5, <1>7, <2>1, <3>1, FS_AddElement
  <2>2. CASE ~ Signs(change, sender)
    <3>1. new = old
      BY <1>6, <2>2
    <3> QED
      BY <1>5, <2>2, <3>1
  <2> QED
    BY <2>1, <2>2
<1> QED
  BY <1>5, <1>8 DEF NextSeq, longer

\* The sequence numbers already used are behind the one expected next, and the
\* transaction about to be applied has just that one.
CommitInv ==
  /\ \A i \in DOMAIN session : session[i].txn # NoTxn =>
       SequenceNumber[session[i].txn] < NextSeq(session, Sender[session[i].txn])
  /\ \A t \in Tasks : pc[t] = "apply" /\ verdict[t] \in Kept =>
       SequenceNumber[request[t].txn] = NextSeq(session, Sender[request[t].txn])
  /\ CommittedOnce

LEMMA SessionFacts ==
  ASSUME TypeInv
  PROVE  /\ session \in Seq(Changes) /\ Len(session) \in Nat
         /\ DOMAIN session = 1 .. Len(session)
         /\ \A i \in DOMAIN session : session[i].txn \in Txns \cup {NoTxn}
         /\ \A t \in Tasks : pc[t] \in {"run", "apply", "record"} =>
              request[t].txn \in Txns
<1>1. session \in Seq(Changes) /\ Len(session) \in Nat /\ DOMAIN session = 1 .. Len(session)
  BY LenProperties DEF TypeInv, TypeOK
<1>2. \A i \in DOMAIN session : session[i] \in Changes
  BY <1>1, ElementOfSeq
<1>3. ASSUME NEW t \in Tasks, pc[t] \in {"run", "apply", "record"}
      PROVE  request[t].txn \in Txns
  BY <1>3, RequestTxn DEF TypeInv, KindInv, Kind
<1> QED
  BY <1>1, <1>2, <1>3 DEF Changes

\* Adding a change that is no transaction keeps what is known of the others;
\* adding a transaction with the expected number does too.
LEMMA GrowthKeepsCommits ==
  ASSUME TypeInv, CommitInv, NEW change \in Changes, session' = Append(session, change),
         change.txn # NoTxn =>
           SequenceNumber[change.txn] = NextSeq(session, Sender[change.txn])
  PROVE  /\ \A i \in DOMAIN session' : session'[i].txn # NoTxn =>
              SequenceNumber[session'[i].txn] < NextSeq(session', Sender[session'[i].txn])
         /\ CommittedOnce'
<1> DEFINE n == Len(session)
<1>1. /\ session \in Seq(Changes) /\ n \in Nat /\ DOMAIN session = 1 .. n
      /\ \A i \in DOMAIN session : session[i].txn \in Txns \cup {NoTxn}
  BY SessionFacts
<1>2. /\ session' \in Seq(Changes) /\ Len(session') = n + 1
      /\ \A i \in 1 .. n : session'[i] = session[i]
      /\ session'[n + 1] = change
  BY <1>1, AppendProperties
<1>3. DOMAIN session' = 1 .. n + 1
  BY <1>2, LenProperties
<1>4. \A sender : /\ NextSeq(session, sender) \in Nat
                  /\ NextSeq(session', sender) = NextSeq(session, sender)
                                                  + IF Signs(change, sender) THEN 1 ELSE 0
  BY <1>1, NextSeqAppend
<1>5. \A i \in 1 .. n + 1 : i \in 1 .. n \/ i = n + 1
  BY <1>1
<1>6. \A x \in Txns : SequenceNumber[x] \in Nat
  BY TxnAssumption
<1>7. change.txn \in Txns \cup {NoTxn}
  BY DEF Changes
<1>8. ASSUME NEW i \in DOMAIN session', session'[i].txn # NoTxn
      PROVE  SequenceNumber[session'[i].txn] < NextSeq(session', Sender[session'[i].txn])
  <2>1. CASE i \in 1 .. n
    <3>1. SequenceNumber[session[i].txn] < NextSeq(session, Sender[session[i].txn])
      BY <1>1, <1>2, <1>8, <2>1 DEF CommitInv
    <3>2. NextSeq(session, Sender[session[i].txn]) <= NextSeq(session', Sender[session[i].txn])
      BY <1>4
    <3>3. SequenceNumber[session[i].txn] \in Nat
      BY <1>1, <1>2, <1>6, <1>8, <2>1
    <3> QED
      BY <1>2, <1>4, <2>1, <3>1, <3>2, <3>3
  <2>2. CASE i = n + 1
    <3>1. Signs(change, Sender[change.txn]) /\ change.txn # NoTxn
      BY <1>2, <1>8, <2>2 DEF Signs
    <3>2. NextSeq(session', Sender[change.txn]) = NextSeq(session, Sender[change.txn]) + 1
      BY <1>4, <3>1
    <3> QED
      BY <1>2, <1>4, <2>2, <3>1, <3>2
  <2> QED
    BY <1>3, <1>5, <2>1, <2>2
<1>9. ASSUME NEW i \in 1 .. n, change.txn # NoTxn PROVE session[i].txn # change.txn
  <2> SUFFICES ASSUME session[i].txn = change.txn PROVE FALSE
    OBVIOUS
  <2>1. SequenceNumber[change.txn] < NextSeq(session, Sender[change.txn])
    BY <1>1, <1>9 DEF CommitInv
  <2> QED
    BY <1>4, <1>6, <1>7, <1>9, <2>1
<1>10. CommittedOnce'
  <2> SUFFICES ASSUME NEW i \in DOMAIN session', NEW j \in DOMAIN session',
                      session'[i].txn = session'[j].txn, session'[i].txn # NoTxn
               PROVE  i = j
    BY DEF CommittedOnce
  <2>1. CASE i \in 1 .. n /\ j \in 1 .. n
    BY <1>1, <1>2, <2>1 DEF CommitInv, CommittedOnce
  <2>2. CASE i \in 1 .. n /\ j = n + 1
    BY <1>2, <1>9, <2>2
  <2>3. CASE i = n + 1 /\ j \in 1 .. n
    BY <1>2, <1>9, <2>3
  <2> QED
    BY <1>3, <1>5, <2>1, <2>2, <2>3
<1> QED
  BY <1>8, <1>10

LEMMA NextCommitInv == TypeInv /\ LockInv /\ CommitInv /\ [Next]_vars => CommitInv'
<1> SUFFICES ASSUME TypeInv, LockInv, CommitInv, [Next]_vars PROVE CommitInv'
  OBVIOUS
<1>1. pc \in [Tasks -> Labels] /\ verdict \in [Tasks -> Verdicts]
  BY DEF TypeInv, TypeOK
<1>2. \A t, u \in Tasks :
        pc[t] \in {"run", "apply", "fund"} /\ pc[u] \in {"run", "apply", "fund"} => t = u
  BY DEF LockInv, InSession
<1>3. ASSUME NEW t \in Tasks, RunVm(t) PROVE CommitInv'
  <2>1. PICK v \in VmVerdicts(session, request[t].txn) :
          verdict' = [verdict EXCEPT ![t] = v]
    BY <1>3 DEF RunVm
  <2>2. v \in Kept => SequenceNumber[request[t].txn] = NextSeq(session, Sender[request[t].txn])
    BY DEF VmVerdicts, Kept
  <2>3. /\ UNCHANGED <<session, request>> /\ pc[t] = "run"
        /\ \E label \in {"done", "apply"} : pc' = [pc EXCEPT ![t] = label]
    BY <1>3 DEF RunVm, ReleaseAnd, Goto
  <2>4. \A u \in Tasks : pc'[u] = "apply" => u = t
    BY <1>1, <1>2, <2>3
  <2>5. verdict'[t] = v
    BY <1>1, <2>1
  <2> QED
    BY <2>2, <2>3, <2>4, <2>5 DEF CommitInv, CommittedOnce
<1>4. ASSUME NEW t \in Tasks, ApplyWriteSet(t) PROVE CommitInv'
  <2>1. /\ pc[t] = "apply" /\ pc' = [pc EXCEPT ![t] = "persist"]
        /\ UNCHANGED <<verdict, request>>
    BY <1>4 DEF ApplyWriteSet, Goto
  <2>2. \A u \in Tasks : pc'[u] # "apply"
    BY <1>1, <1>2, <2>1
  <2>3. CASE verdict[t] \in Kept
    <3>1. Change(t) \in Changes /\ Change(t).txn = request[t].txn
      BY <2>1, <2>3, SessionFacts DEF Change, Changes
    <3>2. SequenceNumber[request[t].txn] = NextSeq(session, Sender[request[t].txn])
      BY <2>1, <2>3 DEF CommitInv
    <3>3. session' = Append(session, Change(t))
      BY <1>4, <2>3 DEF ApplyWriteSet
    <3> QED
      BY <2>2, <3>1, <3>2, <3>3, GrowthKeepsCommits DEF CommitInv
  <2>4. CASE verdict[t] \notin Kept
    <3>1. session' = session
      BY <1>4, <2>4 DEF ApplyWriteSet
    <3> QED
      BY <2>2, <3>1 DEF CommitInv, CommittedOnce
  <2> QED
    BY <2>3, <2>4
<1>5. ASSUME NEW t \in Tasks, FundAccount(t) PROVE CommitInv'
  <2> DEFINE change == [txn |-> NoTxn, status |-> "success", by |-> t]
  <2>1. /\ pc[t] = "fund" /\ pc' = [pc EXCEPT ![t] = "persist"]
        /\ session' = Append(session, change)
    BY <1>5 DEF FundAccount, Goto
  <2>2. \A u \in Tasks : pc'[u] # "apply"
    BY <1>1, <1>2, <2>1
  <2>3. change \in Changes /\ change.txn = NoTxn
    BY DEF Changes, Kept
  <2> QED
    BY <2>1, <2>2, <2>3, GrowthKeepsCommits DEF CommitInv
<1>6. ASSUME UNCHANGED <<session, verdict>>,
             \A u \in Tasks : pc'[u] = "apply" => pc[u] = "apply" /\ request'[u] = request[u]
      PROVE  CommitInv'
  BY <1>6 DEF CommitInv, CommittedOnce
<1>7. ASSUME NEW t \in Tasks, RunClone(t) PROVE CommitInv'
  <2>1. /\ pc[t] = "load" /\ pc' = [pc EXCEPT ![t] = "cleanup"]
        /\ UNCHANGED <<session, request>>
        /\ \E v : verdict' = [verdict EXCEPT ![t] = v]
    BY <1>7 DEF RunClone, Goto
  <2>2. \A u \in Tasks : pc'[u] = "apply" => pc[u] = "apply" /\ verdict'[u] = verdict[u]
    BY <1>1, <2>1
  <2> QED
    BY <2>1, <2>2 DEF CommitInv, CommittedOnce
<1>8. ASSUME NEW t \in Tasks,
             \/ Begin(t) \/ Acquire(t) \/ VmFails(t) \/ Persist(t) \/ PersistFails(t)
             \/ Bump(t) \/ IncrementOps(t) \/ ReadOps(t) \/ StoreRecord(t) \/ MakeTemp(t)
             \/ MakeTempFails(t) \/ CopySession(t) \/ CopyFails(t) \/ CloneFails(t)
             \/ ClonePanics(t) \/ Cleanup(t) \/ CleanupFails(t) \/ ReadSession(t)
      PROVE  /\ UNCHANGED <<session, verdict>>
             /\ \A u \in Tasks :
                  pc'[u] = "apply" => pc[u] = "apply" /\ request'[u] = request[u]
  <2>1. UNCHANGED <<session, verdict>>
    BY <1>8 DEF Begin, Acquire, VmFails, Persist, PersistFails, Bump, IncrementOps, ReadOps,
       StoreRecord, MakeTemp, MakeTempFails, CopySession, CopyFails, CloneFails, ClonePanics,
       Cleanup, CleanupFails, ReadSession
  <2>2. CASE Begin(t)
    <3>1. /\ \E r \in Requests : request' = [request EXCEPT ![t] = r]
          /\ \E label \in {"mktemp", "acquire"} : pc' = [pc EXCEPT ![t] = label]
      BY <2>2 DEF Begin, Goto
    <3>2. request \in [Tasks -> Requests \cup {[kind |-> "none", txn |-> NoTxn]}]
      BY DEF TypeInv, TypeOK
    <3> QED
      BY <1>1, <2>1, <3>1, <3>2
  <2>3. CASE ~ Begin(t)
    <3>1. UNCHANGED request
      BY <1>8, <2>3 DEF Acquire, VmFails, Persist, PersistFails, Bump, IncrementOps, ReadOps,
         StoreRecord, MakeTemp, MakeTempFails, CopySession, CopyFails, CloneFails, ClonePanics,
         Cleanup, CleanupFails, ReadSession
    <3>2. \E label \in Labels \ {"apply"} : pc' = [pc EXCEPT ![t] = label]
      <4>1. CASE Acquire(t)
        <5>1. AfterAcquire(t) \in Labels \ {"apply"}
          BY <4>1 DEF TypeInv, Acquire, KindInv, AfterAcquire, Kind, CloneKinds, Requests,
               Labels
        <5> QED
          BY <4>1, <5>1 DEF Acquire, Goto
      <4>2. CASE Persist(t) \/ IncrementOps(t) \/ CopySession(t) \/ CopyFails(t)
        BY <4>2 DEF Persist, IncrementOps, CopySession, CopyFails, Goto, Labels
      <4>3. CASE \/ VmFails(t) \/ PersistFails(t) \/ Bump(t) \/ ReadOps(t) \/ StoreRecord(t)
                 \/ MakeTemp(t) \/ MakeTempFails(t) \/ CloneFails(t) \/ ClonePanics(t)
                 \/ Cleanup(t) \/ CleanupFails(t) \/ ReadSession(t)
        BY <4>3 DEF VmFails, PersistFails, Bump, ReadOps, StoreRecord, MakeTemp, MakeTempFails,
           CloneFails, ClonePanics, Cleanup, CleanupFails, ReadSession, Goto, ReleaseAnd, Labels
      <4> QED
        BY <1>8, <2>3, <4>1, <4>2, <4>3
    <3> QED
      BY <1>1, <2>1, <3>1, <3>2
  <2> QED
    BY <2>2, <2>3
<1>9. CASE UNCHANGED vars
  BY <1>6, <1>9 DEF vars
<1> QED
  BY <1>3, <1>4, <1>5, <1>6, <1>7, <1>8, <1>9 DEF Next, Step, Quiet

LEMMA CommitsHeld == Spec => [](TypeInv /\ LockInv /\ CommitInv)
<1>1. Init => CommitInv
  <2> SUFFICES ASSUME Init PROVE CommitInv
    OBVIOUS
  <2>1. \A i \in DOMAIN session : session[i].txn = NoTxn
    BY DEF Init, Override
  <2> QED
    BY <2>1 DEF Init, CommitInv, CommittedOnce
<1>2. TypeInv /\ LockInv /\ CommitInv /\ [Next]_vars => (TypeInv /\ LockInv /\ CommitInv)'
  BY NextTypeInv, NextLockInv, NextCommitInv
<1>3. Init => TypeInv /\ LockInv
  BY InitTypeInv, TaskAssumption DEF Init, LockInv, InSession
<1> QED
  BY <1>1, <1>2, <1>3, PTL DEF Spec

\* A transaction changes the session at most once, in whatever order and through
\* whichever endpoints it is sent again: the sequence number the VM accepted is
\* still the expected one when the write set is applied.
THEOREM CommitsAreUnique == Spec => []CommittedOnce
BY CommitsHeld, PTL DEF CommitInv

-----------------------------------------------------------------------------
(* Steps.                                                                  *)

\* A step of a task changes nothing that belongs to another.
LEMMA OthersUnchanged ==
  ASSUME TypeInv, NEW t \in Tasks, Step(t), NEW u \in Tasks, u # t
  PROVE  /\ pc'[u] = pc[u] /\ request'[u] = request[u] /\ verdict'[u] = verdict[u]
         /\ version'[u] = version[u] /\ reply'[u] = reply[u] /\ path'[u] = path[u]
         /\ snap'[u] = snap[u] /\ floor'[u] = floor[u]
<1> USE DEF Step, Begin, Acquire, RunVm, VmFails, ApplyWriteSet, FundAccount, Persist,
   PersistFails, Bump, IncrementOps, ReadOps, StoreRecord, MakeTemp, MakeTempFails, CopySession,
   CopyFails, RunClone, CloneFails, ClonePanics, Cleanup, CleanupFails, ReadSession, Goto,
   ReleaseAnd
<1>1. \E x : pc' = [pc EXCEPT ![t] = x]
  OBVIOUS
<1>2. request' = request \/ \E x : request' = [request EXCEPT ![t] = x]
  OBVIOUS
<1>3. verdict' = verdict \/ \E x : verdict' = [verdict EXCEPT ![t] = x]
  OBVIOUS
<1>4. version' = version \/ \E x : version' = [version EXCEPT ![t] = x]
  OBVIOUS
<1>5. reply' = reply \/ \E x : reply' = [reply EXCEPT ![t] = x]
  OBVIOUS
<1>6. path' = path \/ \E x : path' = [path EXCEPT ![t] = x]
  OBVIOUS
<1>7. snap' = snap \/ \E x : snap' = [snap EXCEPT ![t] = x]
  OBVIOUS
<1>8. floor' = floor \/ \E x : floor' = [floor EXCEPT ![t] = x]
  OBVIOUS
<1> QED
  BY <1>1, <1>2, <1>3, <1>4, <1>5, <1>6, <1>7, <1>8 DEF TypeInv, TypeOK

\* The steps of a task that is at a place.
LEMMA StepsAt ==
  ASSUME NEW t \in Tasks, Step(t)
  PROVE  /\ pc[t] = "idle" => Begin(t)
         /\ pc[t] = "acquire" => Acquire(t)
         /\ pc[t] = "run" => RunVm(t) \/ VmFails(t)
         /\ pc[t] = "apply" => ApplyWriteSet(t)
         /\ pc[t] = "fund" => FundAccount(t) \/ VmFails(t)
         /\ pc[t] = "persist" => Persist(t) \/ PersistFails(t)
         /\ pc[t] = "bump" => Bump(t)
         /\ pc[t] = "increment" => IncrementOps(t)
         /\ pc[t] = "readOps" => ReadOps(t)
         /\ pc[t] = "record" => StoreRecord(t)
         /\ pc[t] = "mktemp" => MakeTemp(t) \/ MakeTempFails(t)
         /\ pc[t] = "copy" => CopySession(t) \/ CopyFails(t)
         /\ pc[t] = "load" => RunClone(t) \/ CloneFails(t) \/ ClonePanics(t)
         /\ pc[t] = "cleanup" => Cleanup(t) \/ CleanupFails(t)
         /\ pc[t] = "read" => ReadSession(t) \/ VmFails(t)
BY DEF Step, Begin, Acquire, RunVm, VmFails, ApplyWriteSet, FundAccount, Persist, PersistFails,
   Bump, IncrementOps, ReadOps, StoreRecord, MakeTemp, MakeTempFails, CopySession, CopyFails,
   RunClone, CloneFails, ClonePanics, Cleanup, CleanupFails, ReadSession

\* Where a task may go from where it is, and which of its own variables a step
\* may change there.
Goes(t) ==
  \/ pc[t] = "idle" /\ pc'[t] \in {"mktemp", "acquire"}
  \/ pc[t] = "acquire" /\ pc'[t] \in {"run", "fund", "copy", "read"}
  \/ pc[t] = "run" /\ pc'[t] \in {"apply", "done"}
  \/ pc[t] \in {"apply", "fund"} /\ pc'[t] \in {"persist", "done"}
  \/ pc[t] = "persist" /\ pc'[t] \in {"bump", "increment", "done"}
  \/ pc[t] = "increment" /\ pc'[t] \in {"readOps", "done"}
  \/ pc[t] \in {"bump", "readOps"} /\ pc'[t] = "record"
  \/ pc[t] = "mktemp" /\ pc'[t] \in {"acquire", "done"}
  \/ pc[t] = "copy" /\ pc'[t] \in {"load", "cleanup"}
  \/ pc[t] = "load" /\ pc'[t] \in {"cleanup", "done"}
  \/ pc[t] \in {"record", "cleanup", "read"} /\ pc'[t] = "done"

LEMMA Moves ==
  ASSUME TypeInv, NEW t \in Tasks, Step(t)
  PROVE  /\ Goes(t)
         /\ pc[t] # "idle" => request' = request
         /\ pc[t] \notin {"run", "load"} => verdict' = verdict
         /\ pc[t] \notin {"apply", "fund"} => session' = session
         /\ pc[t] # "record" => UNCHANGED storeVars
         /\ pc[t] \notin {"bump", "increment"} => opsCount' = opsCount
<1>1. pc \in [Tasks -> Labels]
  BY DEF TypeInv, TypeOK
<1>2. CASE Begin(t) \/ RunVm(t) \/ VmFails(t)
  BY <1>1, <1>2 DEF Begin, RunVm, VmFails, Goto, ReleaseAnd, Goes
<1>3. CASE Acquire(t)
  <2>1. AfterAcquire(t) \in {"run", "fund", "copy", "read"}
    BY <1>3 DEF TypeInv, Acquire, KindInv, AfterAcquire, CloneKinds, Requests, Kind
  <2> QED
    BY <1>1, <1>3, <2>1 DEF Acquire, Goto, Goes
<1>4. CASE ApplyWriteSet(t) \/ FundAccount(t) \/ Persist(t) \/ PersistFails(t)
  BY <1>1, <1>4 DEF ApplyWriteSet, FundAccount, Persist, PersistFails, Goto, ReleaseAnd, Goes
<1>5. CASE Bump(t) \/ IncrementOps(t) \/ ReadOps(t) \/ StoreRecord(t) \/ ReadSession(t)
  BY <1>1, <1>5 DEF Bump, IncrementOps, ReadOps, StoreRecord, ReadSession, Goto, ReleaseAnd, Goes
<1>6. CASE \/ MakeTemp(t) \/ MakeTempFails(t) \/ CopySession(t) \/ CopyFails(t) \/ RunClone(t)
           \/ CloneFails(t) \/ ClonePanics(t) \/ Cleanup(t) \/ CleanupFails(t)
  BY <1>1, <1>6 DEF MakeTemp, MakeTempFails, CopySession, CopyFails, RunClone, CloneFails,
     ClonePanics, Cleanup, CleanupFails, Goto, Goes
<1> QED
  BY <1>2, <1>3, <1>4, <1>5, <1>6 DEF Step

-----------------------------------------------------------------------------
(* The course of a request.                                                *)

\* What a request has gone through by the place it is at.  Only a request that is
\* done has its answer, and a traced transaction that is rejected never gets to
\* its change.
FlowInv ==
  \A t \in Tasks :
    /\ pc[t] = "read" => Kind(t) = "view"
    /\ pc[t] \in {"mktemp", "cleanup"} => Kind(t) \in CloneKinds
    /\ reply[t] # "none" => pc[t] = "done" \/ (pc[t] = "cleanup" /\ reply[t] = "error")
    /\ pc[t] \in {"apply", "persist", "increment", "readOps", "record"} /\ Kind(t) = "traceCommit"
         => verdict[t] \in Kept

LEMMA NextFlowInv ==
  ASSUME TypeInv, FlowInv, NEW t \in Tasks, Step(t)
  PROVE  FlowInv'
<1>1. /\ pc \in [Tasks -> Labels] /\ request \in [Tasks -> Requests \cup {[kind |-> "none", txn |-> NoTxn]}]
      /\ verdict \in [Tasks -> Verdicts] /\ reply \in [Tasks -> Replies]
  BY DEF TypeInv, TypeOK
<1>2. \A u \in Tasks \ {t} :
        /\ pc'[u] = pc[u] /\ request'[u] = request[u] /\ verdict'[u] = verdict[u]
        /\ reply'[u] = reply[u]
  BY OthersUnchanged
<1>3. Goes(t) /\ (pc[t] # "idle" => request' = request)
      /\ (pc[t] \notin {"run", "load"} => verdict' = verdict)
  BY Moves
<1>4. pc'[t] = "read" => Kind(t)' = "view"
  <2> SUFFICES ASSUME pc'[t] = "read" PROVE Kind(t)' = "view"
    OBVIOUS
  <2>1. pc[t] = "acquire" /\ request' = request
    BY <1>3 DEF Goes
  <2>2. Acquire(t)
    BY <2>1, StepsAt
  <2> QED
    BY <1>1, <2>1, <2>2 DEF Acquire, Goto, AfterAcquire, TypeInv, KindInv, Requests, Kind, CloneKinds
<1>5. pc'[t] \in {"mktemp", "cleanup"} => Kind(t)' \in CloneKinds
  <2>1. CASE pc[t] = "idle"
    <3>1. Begin(t)
      BY <2>1, StepsAt
    <3> QED
      BY <1>1, <3>1 DEF Begin, Goto, Kind
  <2>2. CASE pc[t] # "idle"
    BY <1>3, <2>2 DEF Goes, TypeInv, KindInv, Kind
  <2> QED
    BY <2>1, <2>2
<1>6. reply'[t] # "none" => pc'[t] = "done" \/ (pc'[t] = "cleanup" /\ reply'[t] = "error")
  BY <1>1 DEF FlowInv, Step, Begin, Acquire, RunVm, VmFails, ApplyWriteSet, FundAccount, Persist,
     PersistFails, Bump, IncrementOps, ReadOps, StoreRecord, MakeTemp, MakeTempFails, CopySession,
     CopyFails, RunClone, CloneFails, ClonePanics, Cleanup, CleanupFails, ReadSession, Goto,
     ReleaseAnd
<1>7. pc'[t] \in {"apply", "persist", "increment", "readOps", "record"} /\ Kind(t)' = "traceCommit"
        => verdict'[t] \in Kept
  <2>1. CASE pc[t] = "run"
    <3>1. RunVm(t) \/ VmFails(t)
      BY <2>1, StepsAt
    <3> QED
      BY <1>1, <3>1 DEF RunVm, VmFails, ReleaseAnd, Goto, VmVerdicts, Verdicts, Kept, Kind
  <2>2. CASE pc[t] # "run"
    BY <1>3, <2>2 DEF Goes, FlowInv, TypeInv, KindInv, Kind
  <2> QED
    BY <2>1, <2>2
<1> QED
  BY <1>2, <1>4, <1>5, <1>6, <1>7 DEF FlowInv, Kind

-----------------------------------------------------------------------------
(* Authors.                                                                *)

Past == {"persist", "bump", "increment", "readOps", "record", "done"}

\* Each change was made by one request, which is past it and whose request and
\* verdict it shows; the change of the request that is in the session is the last
\* one, and a request that was not rejected has its change there.
AuthorInv ==
  /\ \A i \in DOMAIN session : session[i].by = NoTask => session[i].txn = NoTxn
  /\ \A i \in DOMAIN session, u \in Tasks : session[i].by = u =>
       /\ pc[u] \in Past
       /\ inner = u => i = Len(session)
       /\ session[i].txn # NoTxn => Kind(u) \in TxnKinds /\ session[i] = Change(u)
       /\ session[i].txn = NoTxn => Kind(u) = "mint"
  /\ \A i, j \in DOMAIN session : session[i].by = session[j].by => i = j
  /\ \A t \in Tasks : pc[t] \in Past \ {"done"} /\ Kind(t) \in TxnKinds /\ verdict[t] \in Kept =>
       session # <<>> /\ session[Len(session)] = Change(t)

\* The session with one more change.
LEMMA Growth ==
  ASSUME TypeInv, NEW change \in Changes, session' = Append(session, change)
  PROVE  /\ Len(session') = Len(session) + 1 /\ session' # <<>>
         /\ DOMAIN session' = DOMAIN session \cup {Len(session')}
         /\ Len(session') \notin DOMAIN session
         /\ \A i \in DOMAIN session : session'[i] = session[i] /\ i < Len(session')
         /\ session'[Len(session')] = change
<1> DEFINE n == Len(session)
<1>1. session \in Seq(Changes) /\ n \in Nat /\ DOMAIN session = 1 .. n
  BY SessionFacts
<1>2. /\ session' \in Seq(Changes) /\ Len(session') = n + 1
      /\ \A i \in 1 .. n : session'[i] = session[i]
      /\ session'[n + 1] = change
  BY <1>1, AppendProperties
<1>3. DOMAIN session' = 1 .. n + 1
  BY <1>2, LenProperties
<1>4. 1 .. n + 1 = (1 .. n) \cup {n + 1} /\ n + 1 \notin 1 .. n /\ \A i \in 1 .. n : i < n + 1
  BY <1>1
<1>5. session' # <<>>
  BY <1>1, <1>2
<1> QED
  BY <1>1, <1>2, <1>3, <1>4, <1>5

\* A change is made by a request in the session, which has made none before.
LEMMA GrowthKeepsAuthors ==
  ASSUME TypeInv, LockInv, AuthorInv, NEW t \in Tasks, pc[t] \in {"apply", "fund"},
         NEW change \in Changes, session' = Append(session, change), change.by = t,
         pc' = [pc EXCEPT ![t] = "persist"], UNCHANGED <<inner, request, verdict>>,
         \/ change = Change(t) /\ change.txn # NoTxn /\ Kind(t) \in TxnKinds
         \/ change.txn = NoTxn /\ Kind(t) = "mint"
  PROVE  AuthorInv'
<1>1. /\ Len(session') = Len(session) + 1 /\ session' # <<>>
      /\ DOMAIN session' = DOMAIN session \cup {Len(session')}
      /\ Len(session') \notin DOMAIN session
      /\ \A i \in DOMAIN session : session'[i] = session[i]
      /\ session'[Len(session')] = change
  BY Growth
<1>2. pc \in [Tasks -> Labels] /\ pc'[t] = "persist" /\ \A u \in Tasks \ {t} : pc'[u] = pc[u]
  BY DEF TypeInv, TypeOK
<1>3. inner = t /\ \A u \in Tasks \ {t} : ~ InSession(u)
  BY DEF LockInv, InSession
<1>4. \A i \in DOMAIN session : session[i].by # t
  BY DEF AuthorInv, Past
<1>5. \A u \in Tasks : Kind(u)' = Kind(u) /\ Change(u)' = Change(u)
  BY DEF Kind, Change
<1>6. ASSUME NEW i \in DOMAIN session', session'[i].by = NoTask PROVE session'[i].txn = NoTxn
  BY <1>1, <1>6, TaskAssumption DEF AuthorInv
<1>7. ASSUME NEW i \in DOMAIN session', NEW u \in Tasks, session'[i].by = u
      PROVE  /\ pc'[u] \in Past
             /\ inner' = u => i = Len(session')
             /\ session'[i].txn # NoTxn => Kind(u)' \in TxnKinds /\ session'[i] = Change(u)'
             /\ session'[i].txn = NoTxn => Kind(u)' = "mint"
  <2>1. CASE i \in DOMAIN session
    <3>1. session[i].by = u /\ u # t
      BY <1>1, <1>4, <1>7, <2>1
    <3>2. /\ pc[u] \in Past
          /\ session[i].txn # NoTxn => Kind(u) \in TxnKinds /\ session[i] = Change(u)
          /\ session[i].txn = NoTxn => Kind(u) = "mint"
      BY <2>1, <3>1 DEF AuthorInv
    <3> QED
      BY <1>1, <1>2, <1>3, <1>5, <2>1, <3>1, <3>2
  <2>2. CASE i = Len(session')
    BY <1>1, <1>2, <1>5, <1>7, <2>2 DEF Past
  <2> QED
    BY <1>1, <2>1, <2>2
<1>8. ASSUME NEW i \in DOMAIN session', NEW j \in DOMAIN session', session'[i].by = session'[j].by
      PROVE  i = j
  BY <1>1, <1>4, <1>8 DEF AuthorInv
<1>9. ASSUME NEW u \in Tasks, pc'[u] \in Past \ {"done"}, Kind(u)' \in TxnKinds, verdict'[u] \in Kept
      PROVE  session' # <<>> /\ session'[Len(session')] = Change(u)'
  <2>1. CASE u = t
    BY <1>1, <1>5, <1>9, <2>1 DEF TxnKinds
  <2>2. CASE u # t
    <3>1. InSession(u)
      BY <1>2, <1>5, <1>9, <2>2 DEF TypeInv, KindInv, InSession, Past, TxnKinds
    <3> QED
      BY <1>3, <2>2, <3>1
  <2> QED
    BY <2>1, <2>2
<1> QED
  BY <1>6, <1>7, <1>8, <1>9 DEF AuthorInv

\* A step that makes no change leaves the authors what they were.
LEMMA SameChangesKeepAuthors ==
  ASSUME TypeInv, LockInv, AuthorInv, NEW t \in Tasks, Step(t), session' = session,
         ~ (pc[t] = "apply" /\ verdict[t] \in Kept), pc[t] = "fund" => pc'[t] = "done"
  PROVE  AuthorInv'
<1>1. Goes(t) /\ (pc[t] # "idle" => request' = request)
      /\ (pc[t] \notin {"run", "load"} => verdict' = verdict)
  BY Moves
<1>2. \A u \in Tasks \ {t} :
        pc'[u] = pc[u] /\ request'[u] = request[u] /\ verdict'[u] = verdict[u]
  BY OthersUnchanged
<1>3. \A u \in Tasks : pc[u] \in Past => /\ pc'[u] \in Past
                                         /\ Kind(u)' = Kind(u) /\ Change(u)' = Change(u)
  BY <1>1, <1>2 DEF Goes, Past, Kind, Change
<1>4. \A u \in Tasks : inner' = u => inner = u \/ pc[u] = "acquire"
  BY TaskAssumption DEF Step, Begin, Acquire, RunVm, VmFails, ApplyWriteSet, FundAccount, Persist,
     PersistFails, Bump, IncrementOps, ReadOps, StoreRecord, MakeTemp, MakeTempFails, CopySession,
     CopyFails, RunClone, CloneFails, ClonePanics, Cleanup, CleanupFails, ReadSession, Goto,
     ReleaseAnd
<1>5. ASSUME NEW i \in DOMAIN session, NEW u \in Tasks, session[i].by = u
      PROVE  /\ pc'[u] \in Past
             /\ inner' = u => i = Len(session)
             /\ session[i].txn # NoTxn => Kind(u)' \in TxnKinds /\ session[i] = Change(u)'
             /\ session[i].txn = NoTxn => Kind(u)' = "mint"
  <2>1. /\ pc[u] \in Past
        /\ inner = u => i = Len(session)
        /\ session[i].txn # NoTxn => Kind(u) \in TxnKinds /\ session[i] = Change(u)
        /\ session[i].txn = NoTxn => Kind(u) = "mint"
    BY <1>5 DEF AuthorInv
  <2>2. pc[u] # "acquire"
    BY <2>1 DEF Past
  <2> QED
    BY <1>3, <1>4, <2>1, <2>2
<1>6. ASSUME NEW u \in Tasks, pc'[u] \in Past \ {"done"}, Kind(u)' \in TxnKinds, verdict'[u] \in Kept
      PROVE  pc[u] \in Past \ {"done"}
  <2>1. CASE u = t
    BY <1>1, <1>6, <2>1 DEF Goes, Past
  <2>2. CASE u # t
    BY <1>2, <1>6, <2>2
  <2> QED
    BY <2>1, <2>2
<1>7. ASSUME NEW u \in Tasks, pc'[u] \in Past \ {"done"}, Kind(u)' \in TxnKinds, verdict'[u] \in Kept
      PROVE  session # <<>> /\ session[Len(session)] = Change(u)'
  <2>1. pc[u] \in Past \ {"done"} /\ Kind(u) \in TxnKinds /\ Change(u)' = Change(u)
    BY <1>3, <1>6, <1>7
  <2>2. verdict[u] \in Kept
    BY <1>1, <1>2, <1>7, <2>1 DEF Past
  <2> QED
    BY <2>1, <2>2 DEF AuthorInv
<1> QED
  BY <1>5, <1>7 DEF AuthorInv

LEMMA NextAuthorInv ==
  ASSUME TypeInv, LockInv, AuthorInv, NEW t \in Tasks, Step(t)
  PROVE  AuthorInv'
<1>1. CASE pc[t] = "apply" /\ verdict[t] \in Kept
  <2>1. /\ session' = Append(session, Change(t)) /\ pc' = [pc EXCEPT ![t] = "persist"]
        /\ UNCHANGED <<inner, request, verdict>>
    BY <1>1, StepsAt DEF ApplyWriteSet, Goto
  <2>2. request[t].txn \in Txns /\ Kind(t) \in TxnKinds
    BY <1>1, SessionFacts DEF TypeInv, KindInv
  <2>3. Change(t) \in Changes /\ Change(t).by = t /\ Change(t).txn # NoTxn
    BY <1>1, <2>2, TxnAssumption DEF Change, Changes
  <2> QED
    BY <1>1, <2>1, <2>2, <2>3, GrowthKeepsAuthors
<1>2. CASE FundAccount(t)
  <2> DEFINE change == [txn |-> NoTxn, status |-> "success", by |-> t]
  <2>1. /\ session' = Append(session, change) /\ pc' = [pc EXCEPT ![t] = "persist"]
        /\ UNCHANGED <<inner, request, verdict>> /\ pc[t] = "fund"
    BY <1>2 DEF FundAccount, Goto
  <2>2. Kind(t) = "mint"
    BY <2>1 DEF TypeInv, KindInv
  <2>3. change \in Changes /\ change.by = t /\ change.txn = NoTxn
    BY DEF Changes, Kept
  <2> QED
    BY <2>1, <2>2, <2>3, GrowthKeepsAuthors
<1>3. CASE ~ (pc[t] = "apply" /\ verdict[t] \in Kept) /\ ~ FundAccount(t)
  <2>1. pc[t] = "fund" => VmFails(t)
    BY <1>3, StepsAt
  <2>2. session' = session
    BY <1>3, <2>1, StepsAt, Moves DEF ApplyWriteSet, VmFails
  <2>3. pc[t] = "fund" => pc'[t] = "done"
    BY <2>1 DEF VmFails, ReleaseAnd, Goto, TypeInv, TypeOK
  <2> QED
    BY <1>3, <2>2, <2>3, SameChangesKeepAuthors
<1> QED
  BY <1>1, <1>2, <1>3

\* What the records below rest on.
HistoryInv == TypeInv /\ LockInv /\ VersionInv /\ CommitInv /\ FlowInv /\ AuthorInv

LEMMA InitHistory ==
  ASSUME Init
  PROVE  HistoryInv
<1>1. TypeInv /\ LockInv
  BY InitTypeInv, TaskAssumption DEF Init, LockInv, InSession
<1>2. VersionInv
  BY DEF Init, WithCapacity, VersionInv, VersionsUnique
<1>3. \A i \in DOMAIN session : session[i].txn = NoTxn /\ session[i].by = NoTask /\ i = 1
  BY DEF Init, Override
<1>4. CommitInv
  BY <1>3 DEF Init, CommitInv, CommittedOnce
<1>5. FlowInv
  BY DEF Init, FlowInv
<1>6. AuthorInv
  BY <1>3, TaskAssumption DEF Init, AuthorInv, Past
<1> QED
  BY <1>1, <1>2, <1>4, <1>5, <1>6 DEF HistoryInv

LEMMA NextHistory ==
  ASSUME HistoryInv, [Next]_vars
  PROVE  HistoryInv'
<1>1. TypeInv' /\ LockInv' /\ VersionInv' /\ CommitInv'
  BY NextTypeInv, NextLockInv, NextVersionInv, NextCommitInv DEF HistoryInv
<1>2. CASE UNCHANGED vars
  BY <1>1, <1>2 DEF HistoryInv, vars, FlowInv, AuthorInv, Kind, Change
<1>3. ASSUME NEW t \in Tasks, Step(t) PROVE FlowInv' /\ AuthorInv'
  BY <1>3, NextFlowInv, NextAuthorInv DEF HistoryInv
<1> QED
  BY <1>1, <1>2, <1>3 DEF HistoryInv, Next, Quiet

LEMMA HistoryHeld == Spec => []HistoryInv
BY InitHistory, NextHistory, PTL DEF Spec

-----------------------------------------------------------------------------
(* Records.                                                                *)

\* A record that reports a commit has its change in the session, whose request is
\* done.
RecordInv ==
  /\ RecordsReportOutcomes
  /\ VersionsFollowCommits
  /\ \A h \in DOMAIN txMap : txMap[h].status \in Kept =>
       \A i \in Positions(h) : session[i].by \in Tasks /\ pc[session[i].by] = "done"

\* What StoreRecord stores of a change.
LEMMA RecordedChange ==
  ASSUME HistoryInv, NEW t \in Tasks, StoreRecord(t), verdict[t] \in Kept
  PROVE  /\ Len(session) \in DOMAIN session
         /\ Positions(request[t].txn) = {Len(session)}
         /\ session[Len(session)] = Change(t)
<1>1. pc[t] = "record" /\ Kind(t) \in TxnKinds
  BY DEF HistoryInv, TypeInv, KindInv, StoreRecord
<1>2. session # <<>> /\ session[Len(session)] = Change(t)
  BY <1>1 DEF HistoryInv, AuthorInv, Past
<1>3. /\ session \in Seq(Changes) /\ Len(session) \in Nat /\ DOMAIN session = 1 .. Len(session)
      /\ request[t].txn \in Txns
  BY <1>1, SessionFacts DEF HistoryInv
<1>4. Len(session) # 0
  BY <1>2, <1>3, EmptySeq
<1>5. Len(session) \in DOMAIN session
  BY <1>3, <1>4
<1>6. \A i \in Positions(request[t].txn) : i = Len(session)
  BY <1>2, <1>3, <1>5, TxnAssumption DEF HistoryInv, CommitInv, CommittedOnce, Positions, Change
<1>7. Len(session) \in Positions(request[t].txn)
  BY <1>2, <1>5 DEF Positions, Change
<1> QED
  BY <1>2, <1>5, <1>6, <1>7

\* The session only grows, by a change of the request that takes the step.
LEMMA SessionStep ==
  ASSUME TypeInv, NEW t \in Tasks, Step(t)
  PROVE  \/ session' = session
         \/ /\ pc[t] \in {"apply", "fund"}
            /\ \E change \in Changes : change.by = t /\ session' = Append(session, change)
<1>1. CASE pc[t] = "apply"
  <2>1. request[t].txn \in Txns
    BY <1>1, SessionFacts
  <2>2. verdict[t] \in Kept => Change(t) \in Changes /\ Change(t).by = t
    BY <2>1 DEF Change, Changes
  <2> QED
    BY <1>1, <2>2, StepsAt DEF ApplyWriteSet
<1>2. CASE pc[t] = "fund"
  <2> DEFINE change == [txn |-> NoTxn, status |-> "success", by |-> t]
  <2>1. change \in Changes /\ change.by = t
    BY DEF Changes, Kept
  <2> QED
    BY <1>2, <2>1, StepsAt DEF FundAccount, VmFails
<1>3. CASE pc[t] \notin {"apply", "fund"}
  BY <1>3, Moves
<1> QED
  BY <1>1, <1>2, <1>3

\* The positions of a recorded transaction are what they were before a step.
LEMMA PositionsStay ==
  ASSUME HistoryInv, HistoryInv', RecordInv, NEW t \in Tasks, Step(t),
         NEW h \in DOMAIN txMap, txMap[h].status \in Kept
  PROVE  /\ Positions(h)' = Positions(h)
         /\ \A i \in Positions(h) : i \in DOMAIN session /\ session'[i] = session[i]
<1>1. h \in Txns /\ h # NoTxn
  BY TxnAssumption, RecordVersions DEF HistoryInv, TypeInv
<1>2. PICK k \in DOMAIN session : session[k].txn = h
  BY DEF RecordInv, RecordsReportOutcomes, Positions
<1>3. CASE session' = session
  BY <1>3 DEF Positions
<1>4. ASSUME NEW change \in Changes, session' = Append(session, change)
      PROVE  /\ Positions(h)' = Positions(h)
             /\ \A i \in Positions(h) : i \in DOMAIN session /\ session'[i] = session[i]
  <2>1. /\ DOMAIN session' = DOMAIN session \cup {Len(session')}
        /\ Len(session') \notin DOMAIN session
        /\ \A i \in DOMAIN session : session'[i] = session[i]
        /\ session'[Len(session')] = change
    BY <1>4, Growth DEF HistoryInv
  <2>2. change.txn # h
    <3> SUFFICES ASSUME change.txn = h PROVE FALSE
      OBVIOUS
    <3>1. k = Len(session')
      BY <1>1, <1>2, <2>1 DEF HistoryInv, CommitInv, CommittedOnce
    <3> QED
      BY <1>2, <2>1, <3>1
  <2> QED
    BY <2>1, <2>2 DEF Positions
<1>5. session' = session \/ \E change \in Changes : session' = Append(session, change)
  BY SessionStep DEF HistoryInv
<1> QED
  BY <1>3, <1>4, <1>5

\* A request that is done stays what it is.
LEMMA DoneStays ==
  ASSUME HistoryInv, NEW t \in Tasks, Step(t), NEW u \in Tasks, pc[u] = "done" \/ reply[u] = "ok"
  PROVE  /\ u # t /\ pc'[u] = pc[u] /\ request'[u] = request[u] /\ verdict'[u] = verdict[u]
         /\ reply'[u] = reply[u]
<1>1. pc[u] = "done"
  BY DEF HistoryInv, FlowInv
<1>2. u # t
  BY <1>1, Moves DEF Goes, HistoryInv
<1> QED
  BY <1>2, OthersUnchanged DEF HistoryInv

LEMMA StoreKeepsRecordInv ==
  ASSUME HistoryInv, RecordInv, NEW t \in Tasks, StoreRecord(t)
  PROVE  RecordInv'
<1> DEFINE x == request[t].txn
<1>1. /\ x \in Txns
      /\ DOMAIN txMap' \subseteq DOMAIN txMap \cup {x}
      /\ \A h \in DOMAIN txMap' : txMap'[h] =
           IF h = x THEN [status |-> verdict[t], version |-> version[t]] ELSE txMap[h]
  BY StoredRecord DEF HistoryInv
<1>2. /\ UNCHANGED <<session, request, verdict>> /\ pc[t] = "record"
      /\ pc' = [pc EXCEPT ![t] = "done"] /\ reply' = [reply EXCEPT ![t] = "ok"]
  BY DEF StoreRecord, ReleaseAnd, Goto
<1>3. pc \in [Tasks -> Labels] /\ reply \in [Tasks -> Replies] /\ verdict[t] \in Verdicts
  BY DEF HistoryInv, TypeInv, TypeOK
<1>4. Step(t)
  BY DEF Step
<1>5. \A h : Positions(h)' = Positions(h)
  BY <1>2 DEF Positions
<1>6. verdict[t] \in Kept => /\ Len(session) \in DOMAIN session
                             /\ Positions(x) = {Len(session)}
                             /\ session[Len(session)] = Change(t)
  BY RecordedChange
<1>7. RecordsReportOutcomes'
  <2> SUFFICES ASSUME NEW h \in DOMAIN txMap'
               PROVE  IF txMap'[h].status \in Kept
                      THEN \E i \in Positions(h)' : session'[i].status = txMap'[h].status
                      ELSE \E u \in Tasks : /\ Kind(u)' = "submit" /\ request'[u].txn = h
                                           /\ verdict'[u] = "discard" /\ reply'[u] = "ok"
    BY DEF RecordsReportOutcomes
  <2>1. CASE h = x /\ verdict[t] \in Kept
    BY <1>1, <1>2, <1>5, <1>6, <2>1 DEF Change
  <2>2. CASE h = x /\ verdict[t] \notin Kept
    <3>1. verdict[t] = "discard" /\ Kind(t) = "submit"
      BY <1>2, <1>3, <2>2 DEF Verdicts, HistoryInv, FlowInv, TypeInv, KindInv, TxnKinds
    <3> QED
      BY <1>1, <1>2, <1>3, <2>2, <3>1 DEF Kind
  <2>3. CASE h # x
    <3>1. h \in DOMAIN txMap /\ txMap'[h] = txMap[h]
      BY <1>1, <2>3
    <3>2. CASE txMap[h].status \in Kept
      BY <1>2, <1>5, <3>1, <3>2 DEF RecordInv, RecordsReportOutcomes
    <3>3. CASE txMap[h].status \notin Kept
      <4>1. PICK u \in Tasks : /\ Kind(u) = "submit" /\ request[u].txn = h
                               /\ verdict[u] = "discard" /\ reply[u] = "ok"
        BY <3>1, <3>3 DEF RecordInv, RecordsReportOutcomes
      <4>2. reply'[u] = "ok"
        BY <1>4, <4>1, DoneStays
      <4> QED
        BY <1>2, <3>1, <3>3, <4>1, <4>2 DEF Kind
    <3> QED
      BY <3>2, <3>3
  <2> QED
    BY <2>1, <2>2, <2>3
<1>8. VersionsFollowCommits'
  <2> SUFFICES ASSUME NEW g \in DOMAIN txMap', NEW h \in DOMAIN txMap',
                      txMap'[g].status \in Kept, txMap'[h].status \in Kept,
                      NEW i \in Positions(g), NEW j \in Positions(h), i < j
               PROVE  txMap'[g].version < txMap'[h].version
    BY <1>5 DEF VersionsFollowCommits
  <2>1. Len(session) \in Nat /\ DOMAIN session = 1 .. Len(session)
    BY SessionFacts DEF HistoryInv
  <2>2. i \in 1 .. Len(session) /\ j \in 1 .. Len(session)
    BY <2>1 DEF Positions
  <2>3. g # x
    BY <1>1, <1>6, <2>1, <2>2
  <2>4. CASE h = x
    BY <1>1, <1>2, <2>3, <2>4 DEF HistoryInv, VersionInv
  <2>5. CASE h # x
    BY <1>1, <2>3, <2>5 DEF RecordInv, VersionsFollowCommits
  <2> QED
    BY <2>4, <2>5
<1>9. ASSUME NEW h \in DOMAIN txMap', txMap'[h].status \in Kept, NEW i \in Positions(h)
      PROVE  session[i].by \in Tasks /\ pc'[session[i].by] = "done"
  <2>1. CASE h = x
    BY <1>1, <1>2, <1>3, <1>6, <1>9, <2>1 DEF Change
  <2>2. CASE h # x
    <3>1. session[i].by \in Tasks /\ pc[session[i].by] = "done"
      BY <1>1, <1>9, <2>2 DEF RecordInv
    <3> QED
      BY <1>4, <3>1, DoneStays
  <2> QED
    BY <2>1, <2>2
<1> QED
  BY <1>2, <1>5, <1>7, <1>8, <1>9 DEF RecordInv

LEMMA NextRecordInv ==
  ASSUME HistoryInv, HistoryInv', RecordInv, [Next]_vars
  PROVE  RecordInv'
<1>1. ASSUME NEW t \in Tasks, Step(t), pc[t] # "record" PROVE RecordInv'
  <2>1. txMap' = txMap
    BY <1>1, Moves DEF HistoryInv, storeVars
  <2>2. \A h \in DOMAIN txMap : txMap[h].status \in Kept =>
          /\ Positions(h)' = Positions(h)
          /\ \A i \in Positions(h) : i \in DOMAIN session /\ session'[i] = session[i]
    BY <1>1, PositionsStay
  <2>3. \A u \in Tasks : pc[u] = "done" \/ reply[u] = "ok" =>
          /\ pc'[u] = pc[u] /\ request'[u] = request[u] /\ verdict'[u] = verdict[u]
          /\ reply'[u] = reply[u]
    BY <1>1, DoneStays
  <2>4. RecordsReportOutcomes'
    BY <2>1, <2>2, <2>3 DEF RecordInv, RecordsReportOutcomes, Kind
  <2>5. VersionsFollowCommits'
    BY <2>1, <2>2 DEF RecordInv, VersionsFollowCommits
  <2>6. \A h \in DOMAIN txMap' : txMap'[h].status \in Kept =>
          \A i \in Positions(h)' : session'[i].by \in Tasks /\ pc'[session'[i].by] = "done"
    BY <2>1, <2>2, <2>3 DEF RecordInv
  <2> QED
    BY <2>4, <2>5, <2>6 DEF RecordInv
<1>2. ASSUME NEW t \in Tasks, Step(t), pc[t] = "record" PROVE RecordInv'
  BY <1>2, StepsAt, StoreKeepsRecordInv
<1>3. CASE UNCHANGED vars
  BY <1>3 DEF vars, RecordInv, RecordsReportOutcomes, VersionsFollowCommits, Positions, Kind
<1> QED
  BY <1>1, <1>2, <1>3 DEF Next, Quiet

LEMMA RecordsHeld == Spec => [](HistoryInv /\ RecordInv)
<1>1. Init => RecordInv
  BY DEF Init, WithCapacity, RecordInv, RecordsReportOutcomes, VersionsFollowCommits
<1> QED
  BY <1>1, InitHistory, NextHistory, NextRecordInv, PTL DEF Spec

\* A record reports what happened: the outcome with which its transaction changed
\* the session, or the rejection that some answered submit of it met.  No record
\* is left by a save that failed or a trace that was discarded.
THEOREM RecordsAreOutcomes == Spec => []RecordsReportOutcomes
BY RecordsHeld, PTL DEF RecordInv

\* The versions of committed records are in the order of the commits, whatever
\* mix of submits, traced commits and mints runs concurrently: no record is
\* reordered between its change and its version.
THEOREM VersionsInCommitOrder == Spec => []VersionsFollowCommits
BY RecordsHeld, PTL DEF RecordInv

-----------------------------------------------------------------------------
(* The ledger version.                                                     *)

\* The requests the ledger version counts.
Counted ==
  {t \in Tasks : pc[t] \in {"readOps", "record"} \/ (pc[t] = "done" /\ Reached(t))}

CountInv == opsCount = Cardinality(Counted)

LEMMA CountedFinite == IsFiniteSet(Counted)
<1>1. Counted \in SUBSET Tasks
  BY DEF Counted
<1> QED
  BY <1>1, TaskAssumption, FS_Subset

\* A request is counted by the step that increments the version, and by no other.
LEMMA CountedStep ==
  ASSUME HistoryInv, NEW t \in Tasks, Step(t)
  PROVE  /\ Counted' = Counted \cup (IF pc[t] \in {"bump", "increment"} THEN {t} ELSE {})
         /\ pc[t] \in {"bump", "increment"} => t \notin Counted
<1> USE DEF HistoryInv
<1>1. /\ pc \in [Tasks -> Labels] /\ verdict \in [Tasks -> Verdicts] /\ reply \in [Tasks -> Replies]
  BY DEF TypeInv, TypeOK
<1>2. \A u \in Tasks \ {t} :
        /\ pc'[u] = pc[u] /\ request'[u] = request[u] /\ verdict'[u] = verdict[u]
        /\ reply'[u] = reply[u]
  BY OthersUnchanged
<1>3. \A u \in Tasks \ {t} : u \in Counted' <=> u \in Counted
  BY <1>2 DEF Counted, Reached, Kind
<1>4. Goes(t) /\ (pc[t] # "idle" => request' = request)
      /\ (pc[t] \notin {"run", "load"} => verdict' = verdict)
  BY Moves
<1>5. CASE pc[t] = "bump"
  BY <1>1, <1>3, <1>4, <1>5 DEF Counted, Goes
<1>6. CASE pc[t] = "increment"
  <2>1. IncrementOps(t) /\ request' = request
    BY <1>4, <1>6, StepsAt
  <2>2. pc'[t] = "readOps" \/ (pc'[t] = "done" /\ reply'[t] = "ok" /\ Kind(t) = "mint")
    BY <1>1, <2>1 DEF IncrementOps, Goto
  <2>3. t \in Counted'
    BY <2>1, <2>2 DEF Counted, Reached, Kind
  <2>4. t \notin Counted
    BY <1>6 DEF Counted
  <2> QED
    BY <1>3, <1>6, <2>3, <2>4 DEF Counted
<1>7. CASE pc[t] \in {"readOps", "record"}
  <2>1. t \in Counted
    BY <1>7 DEF Counted
  <2>2. CASE pc[t] = "readOps"
    BY <1>3, <1>4, <2>1, <2>2 DEF Counted, Goes
  <2>3. CASE pc[t] = "record"
    <3>1. StoreRecord(t) /\ request' = request /\ verdict' = verdict
      BY <1>4, <2>3, StepsAt
    <3>2. pc'[t] = "done" /\ reply'[t] = "ok"
      BY <1>1, <3>1 DEF StoreRecord, ReleaseAnd, Goto
    <3>3. Kind(t) \in TxnKinds /\ (Kind(t) = "traceCommit" => verdict[t] \in Kept)
      BY <2>3 DEF TypeInv, KindInv, FlowInv
    <3>4. t \in Counted'
      BY <3>1, <3>2, <3>3 DEF Counted, Reached, Kind, TxnKinds
    <3> QED
      BY <1>3, <2>1, <2>3, <3>4 DEF Counted
  <2> QED
    BY <1>7, <2>2, <2>3
<1>8. CASE pc[t] \notin {"bump", "increment", "readOps", "record"}
  <2>1. t \notin Counted
    BY <1>4, <1>8 DEF Counted, Goes
  <2>2. CASE pc'[t] # "done"
    <3>1. t \notin Counted'
      BY <1>4, <1>8, <2>2 DEF Counted, Goes
    <3> QED
      BY <1>3, <1>8, <2>1, <3>1 DEF Counted
  <2>3. CASE pc'[t] = "done"
    <3>1. pc[t] # "idle" /\ request' = request
      BY <1>4, <2>3 DEF Goes
    <3>2. \/ reply'[t] # "ok"
          \/ Kind(t) = "traceCommit" /\ verdict'[t] = "discard"
          \/ Kind(t) \notin {"submit", "mint", "traceCommit"}
      <4>1. CASE RunVm(t)
        BY <1>1, <2>3, <4>1 DEF RunVm, ReleaseAnd, Goto
      <4>2. CASE \/ VmFails(t) \/ PersistFails(t) \/ ClonePanics(t) \/ MakeTempFails(t)
                 \/ CopyFails(t) \/ CleanupFails(t)
        BY <1>1, <4>2 DEF VmFails, PersistFails, ClonePanics, MakeTempFails, CopyFails,
           CleanupFails, ReleaseAnd, Goto
      <4>3. CASE Cleanup(t) \/ ReadSession(t)
        BY <4>3 DEF Cleanup, ReadSession, FlowInv, CloneKinds
      <4> QED
        BY <1>1, <1>4, <1>8, <2>3, <4>1, <4>2, <4>3, StepsAt
        DEF Goes, ApplyWriteSet, FundAccount, Persist, MakeTemp, CloneFails, RunClone, Goto
    <3>3. t \notin Counted'
      BY <2>3, <3>1, <3>2 DEF Counted, Reached, Kind, Kept
    <3> QED
      BY <1>3, <1>8, <2>1, <3>3 DEF Counted
  <2> QED
    BY <2>2, <2>3
<1> QED
  BY <1>5, <1>6, <1>7, <1>8

LEMMA NextCountInv ==
  ASSUME HistoryInv, CountInv, [Next]_vars
  PROVE  CountInv'
<1>1. IsFiniteSet(Counted) /\ Cardinality(Counted) \in Nat
  BY CountedFinite, FS_CardinalityType
<1>2. ASSUME NEW t \in Tasks, Step(t), pc[t] \in {"bump", "increment"} PROVE CountInv'
  <2>1. opsCount' = opsCount + 1
    BY <1>2, StepsAt DEF Bump, IncrementOps
  <2>2. Counted' = Counted \cup {t} /\ t \notin Counted
    BY <1>2, CountedStep
  <2> QED
    BY <1>1, <2>1, <2>2, FS_AddElement DEF CountInv
<1>3. ASSUME NEW t \in Tasks, Step(t), pc[t] \notin {"bump", "increment"} PROVE CountInv'
  <2>1. opsCount' = opsCount
    BY <1>3, Moves DEF HistoryInv
  <2>2. Counted' = Counted
    BY <1>3, CountedStep
  <2> QED
    BY <2>1, <2>2 DEF CountInv
<1>4. CASE UNCHANGED vars
  BY <1>4 DEF vars, CountInv, Counted, Reached, Kind
<1> QED
  BY <1>2, <1>3, <1>4 DEF Next, Quiet

LEMMA CountHeld == Spec => [](HistoryInv /\ RecordInv /\ CountInv)
<1>1. Init => CountInv
  <2> SUFFICES ASSUME Init PROVE CountInv
    OBVIOUS
  <2>1. Counted = {} /\ opsCount = 0
    BY DEF Init, Counted
  <2> QED
    BY <2>1, FS_EmptySet DEF CountInv
<1> QED
  BY <1>1, RecordsHeld, NextCountInv, PTL DEF Spec

\* Once every request is answered, the ledger version is the number of requests
\* answered as having reached it: no increment is lost, and none is made twice.
THEOREM EveryOpAccounted == Spec => []OpsAccounted
<1>1. CountInv => OpsAccounted
  <2> SUFFICES ASSUME CountInv, AllDone PROVE opsCount = Cardinality({t \in Tasks : Reached(t)})
    BY DEF OpsAccounted
  <2>1. Counted = {t \in Tasks : Reached(t)}
    BY DEF AllDone, Counted
  <2> QED
    BY <2>1 DEF CountInv
<1> QED
  BY <1>1, CountHeld, PTL

-----------------------------------------------------------------------------
(* What a version counts.                                                  *)

\* The transactions among the first n changes whose authors are in a set.
Before(n, S) == {j \in 1 .. n : session[j].txn # NoTxn /\ session[j].by \in S}

\* There are at most as many as authors, for nobody makes two changes.
LEMMA BeforeBound ==
  ASSUME HistoryInv, NEW n \in 0 .. Len(session), NEW S, IsFiniteSet(S)
  PROVE  IsFiniteSet(Before(n, S)) /\ Cardinality(Before(n, S)) <= Cardinality(S)
<1>1. \A j \in 1 .. n : j \in DOMAIN session
  BY SessionFacts DEF HistoryInv
<1> DEFINE f == [j \in Before(n, S) |-> session[j].by]
<1>2. f \in [Before(n, S) -> S]
  BY DEF Before
<1>3. \A i, j \in Before(n, S) : f[i] = f[j] => i = j
  BY <1>1 DEF Before, HistoryInv, AuthorInv
<1>4. f \in Injection(Before(n, S), S)
  BY <1>2, <1>3 DEF Injection, IsInjective
<1> QED
  BY <1>4, FS_Injection

\* An acknowledged transaction is counted, and so is one that has its version.
LEMMA AckedCounted ==
  ASSUME HistoryInv, NEW j \in DOMAIN session, session[j].txn # NoTxn, session[j].by \in Acked
  PROVE  session[j].by \in Counted
<1> DEFINE u == session[j].by
<1>1. u \in Tasks /\ reply[u] = "ok" /\ pc[u] = "done"
  BY DEF Acked, HistoryInv, FlowInv
<1>2. Kind(u) \in TxnKinds /\ session[j] = Change(u)
  BY <1>1 DEF HistoryInv, AuthorInv
<1>3. verdict[u] \in Kept
  <2>1. session[j] \in Changes
    BY SessionFacts, ElementOfSeq DEF HistoryInv
  <2> QED
    BY <1>2, <2>1 DEF Change, Changes
<1> QED
  BY <1>1, <1>2, <1>3 DEF Counted, Reached, TxnKinds

\* The version of a request that is about to record its commit counts the
\* acknowledged transactions made so far, and its own.
CoverInv ==
  /\ VersionCountsTransactionsBefore
  /\ \A t \in Tasks : pc[t] = "record" /\ verdict[t] \in Kept =>
       Cardinality(Before(Len(session), Acked \cup {t})) <= version[t]

LEMMA VersionTaken ==
  ASSUME HistoryInv, CountInv, NEW t \in Tasks
  PROVE  Cardinality(Before(Len(session), Acked \cup {t}))
           <= opsCount + IF t \in Counted THEN 0 ELSE 1
<1> DEFINE n == Len(session)
           S == Counted \cup {t}
<1>1. n \in Nat /\ DOMAIN session = 1 .. n
  BY SessionFacts DEF HistoryInv
<1>2. IsFiniteSet(S) /\ Cardinality(S) = opsCount + IF t \in Counted THEN 0 ELSE 1
  BY CountedFinite, FS_AddElement, FS_CardinalityType DEF CountInv
<1>3. Before(n, Acked \cup {t}) \in SUBSET Before(n, S)
  BY <1>1, AckedCounted DEF Before
<1>4. IsFiniteSet(Before(n, S)) /\ Cardinality(Before(n, S)) <= Cardinality(S)
  BY <1>1, <1>2, BeforeBound
<1>5. IsFiniteSet(Before(n, Acked \cup {t}))
      /\ Cardinality(Before(n, Acked \cup {t})) <= Cardinality(Before(n, S))
  BY <1>3, <1>4, FS_Subset
<1>6. /\ Cardinality(Before(n, S)) \in Nat /\ Cardinality(S) \in Nat
      /\ Cardinality(Before(n, Acked \cup {t})) \in Nat
  BY <1>2, <1>4, <1>5, FS_CardinalityType
<1> QED
  BY <1>2, <1>4, <1>5, <1>6

\* Up to the change of a record, or to that of the request in the session, no
\* answer is outstanding but that request's own.
LEMMA AuthorsDone ==
  ASSUME HistoryInv, NEW j \in DOMAIN session, session[j].txn # NoTxn
  PROVE  /\ session[j].by \in Tasks
         /\ pc[session[j].by] = "done" \/ (inner = session[j].by /\ j = Len(session))
<1> DEFINE u == session[j].by
<1>1. u \in Tasks
  <2>1. session[j] \in Changes
    BY SessionFacts, ElementOfSeq DEF HistoryInv
  <2> QED
    BY <2>1 DEF HistoryInv, AuthorInv, Changes
<1>2. /\ pc[u] \in Past /\ Kind(u) \in TxnKinds
      /\ inner = u => j = Len(session)
  BY <1>1 DEF HistoryInv, AuthorInv
<1>3. pc[u] # "done" => inner = u
  BY <1>1, <1>2 DEF HistoryInv, LockInv, InSession, Past, TypeInv, KindInv, TxnKinds
<1> QED
  BY <1>1, <1>2, <1>3

LEMMA AckedStays ==
  ASSUME HistoryInv, NEW t \in Tasks, Step(t), NEW u \in Tasks, pc[u] = "done"
  PROVE  u \in Acked' <=> u \in Acked
<1>1. u # t /\ reply'[u] = reply[u]
  BY DoneStays
<1>2. ASSUME NEW change \in Changes, change.by = t, session' = Append(session, change)
      PROVE  u \in Acked' <=> u \in Acked
  <2>1. /\ DOMAIN session' = DOMAIN session \cup {Len(session')}
        /\ \A i \in DOMAIN session : session'[i] = session[i]
        /\ session'[Len(session')] = change
    BY <1>2, Growth DEF HistoryInv
  <2> QED
    BY <1>1, <1>2, <2>1 DEF Acked
<1>3. CASE session' = session
  BY <1>1, <1>3 DEF Acked
<1> QED
  BY <1>2, <1>3, SessionStep DEF HistoryInv

\* What the version of a record counts does not change any more.
LEMMA CoverStays ==
  ASSUME HistoryInv, HistoryInv', RecordInv, NEW t \in Tasks, Step(t),
         NEW h \in DOMAIN txMap, txMap[h].status \in Kept, NEW i \in Positions(h)
  PROVE  i \in Positions(h)' => Before(i, Acked)' = Before(i, Acked)
<1>1. DOMAIN session = 1 .. Len(session) /\ Len(session) \in Nat
  BY SessionFacts DEF HistoryInv
<1>2. i \in DOMAIN session /\ pc[session[i].by] = "done"
  BY DEF RecordInv, Positions
<1>3. \A j \in 1 .. i : j \in DOMAIN session
  BY <1>1, <1>2
<1>4. \A j \in 1 .. i : session'[j] = session[j]
  <2>1. CASE session' = session
    BY <2>1
  <2>2. ASSUME NEW change \in Changes, session' = Append(session, change)
        PROVE  \A j \in 1 .. i : session'[j] = session[j]
    BY <1>3, <2>2, Growth DEF HistoryInv
  <2> QED
    BY <2>1, <2>2, SessionStep DEF HistoryInv
<1>5. ASSUME NEW j \in 1 .. i, session[j].txn # NoTxn
      PROVE  session[j].by \in Tasks /\ pc[session[j].by] = "done"
  <2>1. /\ session[j].by \in Tasks
        /\ pc[session[j].by] = "done" \/ (inner = session[j].by /\ j = Len(session))
    BY <1>3, <1>5, AuthorsDone
  <2>2. j = Len(session) => j = i
    BY <1>1, <1>2
  <2> QED
    BY <1>2, <2>1, <2>2
<1>6. \A j \in 1 .. i : session[j].txn # NoTxn =>
        (session[j].by \in Acked' <=> session[j].by \in Acked)
  BY <1>5, AckedStays
<1> QED
  BY <1>4, <1>6 DEF Before

LEMMA NextCoverInv ==
  ASSUME HistoryInv, HistoryInv', RecordInv, CountInv, CoverInv, NEW t \in Tasks, Step(t)
  PROVE  CoverInv'
<1> DEFINE n == Len(session)
<1>1. /\ n \in Nat /\ DOMAIN session = 1 .. n
      /\ pc \in [Tasks -> Labels] /\ version \in [Tasks -> Nat] /\ opsCount \in Nat
  BY SessionFacts DEF HistoryInv, TypeInv, TypeOK
<1>2. ASSUME NEW h \in DOMAIN txMap, txMap[h].status \in Kept, NEW i \in Positions(h)'
      PROVE  Cardinality({j \in 1 .. i : session'[j].txn # NoTxn /\ session'[j].by \in Acked'})
               <= txMap[h].version
  <2>1. i \in Positions(h)
    BY <1>2, PositionsStay
  <2>2. Before(i, Acked)' = Before(i, Acked)
    BY <1>2, <2>1, CoverStays
  <2>3. Cardinality(Before(i, Acked)) <= txMap[h].version
    BY <1>2, <2>1 DEF CoverInv, VersionCountsTransactionsBefore, Before
  <2> QED
    BY <2>2, <2>3 DEF Before
<1>3. CASE pc[t] = "record"
  <2> DEFINE x == request[t].txn
  <2>1. StoreRecord(t)
    BY <1>3, StepsAt
  <2>2. /\ UNCHANGED <<session, request, verdict, version>>
        /\ pc' = [pc EXCEPT ![t] = "done"] /\ reply' = [reply EXCEPT ![t] = "ok"]
    BY <2>1 DEF StoreRecord, ReleaseAnd, Goto
  <2>3. /\ DOMAIN txMap' \subseteq DOMAIN txMap \cup {x}
        /\ \A h \in DOMAIN txMap' : txMap'[h] =
             IF h = x THEN [status |-> verdict[t], version |-> version[t]] ELSE txMap[h]
    BY <2>1, StoredRecord DEF HistoryInv
  <2>4. \A u \in Tasks : pc'[u] # "record"
    BY <1>1, <1>3, <2>2 DEF HistoryInv, LockInv, InSession
  <2>5. ASSUME verdict[t] \in Kept, NEW i \in Positions(x)
        PROVE  Cardinality({j \in 1 .. i : session'[j].txn # NoTxn /\ session'[j].by \in Acked'})
                 <= version[t]
    <3> DEFINE S == Before(n, Acked \cup {t})
               T == {j \in 1 .. i : session'[j].txn # NoTxn /\ session'[j].by \in Acked'}
    <3>1. i = n
      BY <2>1, <2>2, <2>5, RecordedChange DEF Positions
    <3>2. Acked' \subseteq Acked \cup {t}
      BY <2>2 DEF Acked, HistoryInv, TypeInv, TypeOK
    <3>3. T \in SUBSET S
      BY <2>2, <3>1, <3>2 DEF Before
    <3>4. Cardinality(S) <= version[t]
      BY <1>3, <2>5 DEF CoverInv
    <3>5. IsFiniteSet(S)
      <4>1. S \in SUBSET (1 .. n)
        BY DEF Before
      <4>2. IsFiniteSet(1 .. n)
        BY <1>1, FS_Interval
      <4> QED
        BY <4>1, <4>2, FS_Subset
    <3>6. /\ IsFiniteSet(T) /\ Cardinality(T) <= Cardinality(S)
          /\ Cardinality(T) \in Nat /\ Cardinality(S) \in Nat
      BY <3>3, <3>5, FS_Subset, FS_CardinalityType
    <3> QED
      BY <1>1, <3>4, <3>6
  <2>6. VersionCountsTransactionsBefore'
    <3> SUFFICES ASSUME NEW h \in DOMAIN txMap', txMap'[h].status \in Kept, NEW i \in Positions(h)'
                 PROVE  Cardinality({j \in 1 .. i : session'[j].txn # NoTxn
                                                    /\ session'[j].by \in Acked'})
                          <= txMap'[h].version
      BY DEF VersionCountsTransactionsBefore
    <3>1. CASE h = x
      <4>1. txMap'[h].version = version[t] /\ verdict[t] \in Kept
        BY <2>3, <3>1
      <4>2. i \in Positions(x)
        BY <2>2, <3>1 DEF Positions
      <4> QED
        BY <2>5, <4>1, <4>2
    <3>2. CASE h # x
      <4>1. h \in DOMAIN txMap /\ txMap'[h] = txMap[h]
        BY <2>3, <3>2
      <4> QED
        BY <1>2, <4>1
    <3> QED
      BY <3>1, <3>2
  <2> QED
    BY <2>4, <2>6 DEF CoverInv
<1>4. CASE pc[t] # "record"
  <2>1. txMap' = txMap
    BY <1>4, Moves DEF HistoryInv, storeVars
  <2>2. VersionCountsTransactionsBefore'
    BY <1>2, <2>1 DEF VersionCountsTransactionsBefore
  <2>3. ASSUME NEW u \in Tasks, pc'[u] = "record", verdict'[u] \in Kept
        PROVE  Cardinality(Before(Len(session), Acked \cup {u}))' <= version'[u]
    <3>1. CASE u = t
      <4>1. Bump(t) \/ ReadOps(t)
        BY <1>4, <2>3, <3>1, StepsAt, Moves DEF Goes, HistoryInv
      <4>2. UNCHANGED <<session, reply>>
        BY <4>1 DEF Bump, ReadOps
      <4>3. version'[t] = opsCount + IF t \in Counted THEN 0 ELSE 1
        BY <1>1, <4>1 DEF Bump, ReadOps, Counted
      <4>4. Before(n, Acked \cup {t})' = Before(n, Acked \cup {t})
        BY <4>2 DEF Before, Acked
      <4> QED
        BY <3>1, <4>3, <4>4, VersionTaken
    <3>2. CASE u # t
      <4>1. pc[u] = "record" /\ verdict[u] \in Kept /\ version'[u] = version[u]
        BY <2>3, <3>2, OthersUnchanged DEF HistoryInv
      <4>2. inner = u
        BY <4>1 DEF HistoryInv, LockInv, InSession
      <4>3. session' = session
        BY <3>2, <4>2, SessionStep DEF HistoryInv, LockInv, InSession
      <4>4. \A j \in 1 .. n : session[j].txn # NoTxn =>
              \/ session[j].by = u
              \/ session[j].by \in Tasks /\ pc[session[j].by] = "done"
        BY <1>1, <4>2, AuthorsDone
      <4>5. Before(n, Acked \cup {u})' = Before(n, Acked \cup {u})
        BY <4>3, <4>4, AckedStays DEF Before
      <4> QED
        BY <4>1, <4>5 DEF CoverInv
    <3> QED
      BY <3>1, <3>2
  <2> QED
    BY <2>2, <2>3 DEF CoverInv
<1> QED
  BY <1>3, <1>4

LEMMA InitCover == Init => CoverInv
BY DEF Init, WithCapacity, CoverInv, VersionCountsTransactionsBefore

LEMMA NextCover ==
  ASSUME HistoryInv, HistoryInv', RecordInv, CountInv, CoverInv, [Next]_vars
  PROVE  CoverInv'
<1>1. CASE UNCHANGED vars
  BY <1>1 DEF vars, CoverInv, VersionCountsTransactionsBefore, Before, Acked, Positions
<1> QED
  BY <1>1, NextCoverInv DEF Next, Quiet

\* The version of a committed record counts at least every acknowledged
\* transaction that changed the session up to it: no transaction's version is
\* taken before that of one whose change it follows.
THEOREM VersionsCountBefore == Spec => []VersionCountsTransactionsBefore
<1>1. CoverInv => VersionCountsTransactionsBefore
  BY DEF CoverInv
<1> QED
  BY <1>1, CountHeld, InitCover, NextCover, PTL DEF Spec

=============================================================================
