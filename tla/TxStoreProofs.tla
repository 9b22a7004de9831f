---------------------------- MODULE TxStoreProofs ----------------------------
(***************************************************************************)
(* The record store keeps its map and its queue in step, for every set of  *)
(* hashes, of records and every capacity.                                  *)
(***************************************************************************)
EXTENDS TxStore, FiniteSetTheorems, SequenceTheorems, TLAPS

Distinct(queue) == \A i, j \in DOMAIN queue : queue[i] = queue[j] => i = j

\* After n pops, as many keys are left as the queue has hashes left.
LEMMA KeysLeftCount ==
  ASSUME NEW S, NEW queue \in Seq(S), Distinct(queue), NEW n \in 0 .. Len(queue)
  PROVE  LET keys == {queue[i] : i \in DOMAIN queue}
         IN  /\ KeysLeft(keys, queue, n) = {queue[i] : i \in n + 1 .. Len(queue)}
             /\ IsFiniteSet(KeysLeft(keys, queue, n))
             /\ Cardinality(KeysLeft(keys, queue, n)) = Len(queue) - n
<1> DEFINE keys == {queue[i] : i \in DOMAIN queue}
           left == {queue[i] : i \in n + 1 .. Len(queue)}
           f == [i \in n + 1 .. Len(queue) |-> queue[i]]
<1>1. Len(queue) \in Nat /\ DOMAIN queue = 1 .. Len(queue)
  BY LenProperties
<1>2. KeysLeft(keys, queue, n) = left
  <2>1. ASSUME NEW h \in left PROVE h \in KeysLeft(keys, queue, n)
    <3>1. PICK i \in n + 1 .. Len(queue) : h = queue[i]
      BY <2>1
    <3>2. i \in DOMAIN queue /\ \A j \in 1 .. n : j \in DOMAIN queue /\ j # i
      BY <1>1
    <3>3. \A j \in 1 .. n : queue[j] # h
      BY <3>1, <3>2 DEF Distinct
    <3> QED
      BY <3>1, <3>2, <3>3 DEF KeysLeft
  <2>2. ASSUME NEW h \in KeysLeft(keys, queue, n) PROVE h \in left
    <3>1. PICK i \in DOMAIN queue : h = queue[i]
      BY <2>2 DEF KeysLeft
    <3>2. i \notin 1 .. n
      BY <2>2, <3>1 DEF KeysLeft
    <3> QED
      BY <1>1, <3>1, <3>2
  <2> QED
    BY <2>1, <2>2
<1>3. f \in Bijection(n + 1 .. Len(queue), left)
  <2>1. f \in [n + 1 .. Len(queue) -> left]
    OBVIOUS
  <2>2. IsInjective(f)
    BY <1>1 DEF IsInjective, Distinct
  <2>3. \A h \in left : \E i \in n + 1 .. Len(queue) : f[i] = h
    OBVIOUS
  <2> QED
    BY <2>1, <2>2, <2>3 DEF Bijection, Injection, Surjection
<1>4. /\ IsFiniteSet(n + 1 .. Len(queue))
      /\ Cardinality(n + 1 .. Len(queue)) = Len(queue) - n
  <2>1. \A a, b \in Int : /\ IsFiniteSet(a .. b)
                          /\ Cardinality(a .. b) = IF a > b THEN 0 ELSE b - a + 1
    BY FS_Interval
  <2>2. \A m, k \in Nat : k <= m => Cardinality(k + 1 .. m) = m - k
    <3> TAKE m, k \in Nat
    <3>1. k + 1 \in Int /\ m \in Int
      OBVIOUS
    <3>2. Cardinality(k + 1 .. m) = IF k + 1 > m THEN 0 ELSE m - (k + 1) + 1
      BY <2>1, <3>1, Zenon
    <3> QED
      BY <3>2
  <2>3. \A m, k \in Nat : IsFiniteSet(k + 1 .. m)
    BY <2>1
  <2> QED
    BY <1>1, <2>2, <2>3
<1>5. IsFiniteSet(left) /\ Cardinality(left) = Len(queue) - n
  <2>1. ExistsBijection(n + 1 .. Len(queue), left)
    BY <1>3 DEF ExistsBijection
  <2> QED
    BY <1>4, <2>1, FS_Bijection
<1> QED
  BY <1>2, <1>5

\* The loop pops nothing while the map fits and the oldest hash when it is one
\* over; it never meets an empty queue.
LEMMA EvictionsValue ==
  ASSUME NEW S, NEW queue \in Seq(S), Distinct(queue), Len(queue) <= Cap + 1
  PROVE  Evictions({queue[i] : i \in DOMAIN queue}, queue)
           = IF Len(queue) <= Cap THEN 0 ELSE 1
<1> DEFINE keys == {queue[i] : i \in DOMAIN queue}
           stops(n) == /\ Fits(keys, queue, n) \/ n = Len(queue)
                       /\ \A k \in 0 .. n - 1 : ~ Fits(keys, queue, k)
<1>1. Len(queue) \in Nat /\ Cap \in Nat
  BY LenProperties, CapAssumption
<1>2. \A n \in 0 .. Len(queue) : Fits(keys, queue, n) <=> Len(queue) - n <= Cap
  BY KeysLeftCount DEF Fits
<1>3. \A n \in 0 .. Len(queue) :
        stops(n) <=> n = IF Len(queue) <= Cap THEN 0 ELSE 1
  <2>1. CASE Len(queue) <= Cap
    <3>1. Fits(keys, queue, 0)
      BY <1>1, <1>2, <2>1
    <3> QED
      BY <1>1, <2>1, <3>1
  <2>2. CASE Len(queue) = Cap + 1
    <3>1. ~ Fits(keys, queue, 0) /\ Fits(keys, queue, 1)
      BY <1>1, <1>2, <2>2
    <3>2. \A n \in 0 .. Len(queue) : n = 0 \/ n = 1 \/ 1 \in 0 .. n - 1
      BY <1>1
    <3>3. \A k \in 0 .. 1 - 1 : k = 0
      OBVIOUS
    <3>4. stops(1) /\ ~ stops(0)
      BY <1>1, <2>2, <3>1, <3>3
    <3>5. \A n \in 0 .. Len(queue) : stops(n) => n = 1
      BY <3>1, <3>2, <3>4
    <3>6. ~ (Len(queue) <= Cap)
      BY <1>1, <2>2
    <3> HIDE DEF stops
    <3> QED
      BY <3>4, <3>5, <3>6
  <2>3. Len(queue) <= Cap \/ Len(queue) = Cap + 1
    BY <1>1
  <2> QED
    BY <2>1, <2>2, <2>3
<1>4. Evictions(keys, queue) = CHOOSE n \in 0 .. Len(queue) : stops(n)
  BY DEF Evictions
<1>5. (IF Len(queue) <= Cap THEN 0 ELSE 1) \in 0 .. Len(queue)
  BY <1>1
<1> HIDE DEF stops
<1> QED
  BY <1>3, <1>4, <1>5

-----------------------------------------------------------------------------

\* The queue before the eviction loop: its hashes are the written map's.
LEMMA QueuedMatchesWritten ==
  ASSUME NEW hash \in Hash, NEW value \in Record, TxTypeOK, QueueMatchesMap
  PROVE  /\ Queued(hash) \in Seq(Hash)
         /\ Distinct(Queued(hash))
         /\ Len(Queued(hash)) <= Cap + 1
         /\ {Queued(hash)[i] : i \in DOMAIN Queued(hash)} = DOMAIN txMap \cup {hash}
<1>1. /\ txOrder \in Seq(Hash) /\ Len(txOrder) \in Nat
      /\ DOMAIN txOrder = 1 .. Len(txOrder) /\ Cap \in Nat
  BY LenProperties, CapAssumption DEF TxTypeOK
<1>2. CASE hash \in DOMAIN txMap
  BY <1>1, <1>2 DEF Queued, QueueMatchesMap, Distinct
<1>3. CASE hash \notin DOMAIN txMap
  <2> DEFINE queue == Append(txOrder, hash)
  <2>1. /\ queue \in Seq(Hash) /\ Len(queue) = Len(txOrder) + 1
        /\ \A i \in 1 .. Len(txOrder) : queue[i] = txOrder[i]
        /\ queue[Len(txOrder) + 1] = hash
        /\ DOMAIN queue = 1 .. Len(txOrder) + 1
    BY <1>1, AppendProperties, LenProperties
  <2>2. Queued(hash) = queue
    BY <1>3 DEF Queued
  <2> HIDE DEF queue
  <2>3. \A i \in DOMAIN queue : i \in DOMAIN txOrder \/ i = Len(txOrder) + 1
    BY <1>1, <2>1
  <2>4. \A i \in DOMAIN txOrder : txOrder[i] # hash
    BY <1>3 DEF QueueMatchesMap
  <2>5. Distinct(queue)
    BY <1>1, <2>1, <2>3, <2>4 DEF QueueMatchesMap, Distinct
  <2>6. {queue[i] : i \in DOMAIN queue} = DOMAIN txMap \cup {hash}
    <3>1. \A h \in DOMAIN txMap \cup {hash} : \E i \in DOMAIN queue : queue[i] = h
      <4>1. Len(txOrder) + 1 \in DOMAIN queue
        BY <1>1, <2>1
      <4>2. \A i \in DOMAIN txOrder : i \in DOMAIN queue /\ queue[i] = txOrder[i]
        BY <1>1, <2>1
      <4> QED
        BY <2>1, <4>1, <4>2 DEF QueueMatchesMap
    <3>2. \A i \in DOMAIN queue : queue[i] \in DOMAIN txMap \cup {hash}
      BY <1>1, <2>1, <2>3 DEF QueueMatchesMap
    <3> QED
      BY <3>1, <3>2
  <2> QED
    BY <1>1, <2>1, <2>2, <2>5, <2>6 DEF QueueMatchesMap
<1> QED
  BY <1>2, <1>3

\* The queue without its first n hashes.
LEMMA WithoutFirst ==
  ASSUME NEW S, NEW queue \in Seq(S), NEW n \in 0 .. Len(queue)
  PROVE  LET rest == SubSeq(queue, n + 1, Len(queue))
         IN  /\ rest \in Seq(S)
             /\ Len(rest) = Len(queue) - n
             /\ DOMAIN rest = 1 .. Len(queue) - n
             /\ \A i \in 1 .. Len(queue) - n : rest[i] = queue[n + i]
<1> DEFINE rest == SubSeq(queue, n + 1, Len(queue))
<1>1. Len(queue) \in Nat /\ n \in Nat /\ n <= Len(queue)
  BY LenProperties
<1>2. \A i \in n + 1 .. Len(queue) : queue[i] \in S
  BY <1>1, ElementOfSeq
<1>3. PICK m \in Int : m = n + 1
  BY <1>1
<1>4. /\ SubSeq(queue, m, Len(queue)) \in Seq(S)
      /\ Len(SubSeq(queue, m, Len(queue)))
           = IF m <= Len(queue) THEN Len(queue) - m + 1 ELSE 0
      /\ \A i \in 1 .. Len(queue) - m + 1 :
           SubSeq(queue, m, Len(queue))[i] = queue[m + i - 1]
  <2>1. \A i \in m .. Len(queue) : queue[i] \in S
    BY <1>2, <1>3
  <2> QED
    BY <1>1, <2>1, SubSeqProperties
<1>5. rest \in Seq(S) /\ Len(rest) = Len(queue) - n
  BY <1>1, <1>3, <1>4
<1>6. DOMAIN rest = 1 .. Len(queue) - n
  BY <1>5, LenProperties
<1>7. ASSUME NEW i \in 1 .. Len(queue) - n PROVE rest[i] = queue[n + i]
  <2>1. i \in 1 .. Len(queue) - m + 1 /\ m + i - 1 = n + i
    BY <1>1, <1>3
  <2> QED
    BY <1>3, <1>4, <2>1
<1> QED
  BY <1>5, <1>6, <1>7

\* What one insert does: the queue keeps its order, grows by a fresh hash, loses
\* its head when there is no room; the map holds what the queue lists.
LEMMA InsertShape ==
  ASSUME NEW hash \in Hash, NEW value \in Record, TxTypeOK, QueueMatchesMap,
         Insert(hash, value)
  PROVE  /\ txOrder' = IF Len(Queued(hash)) <= Cap THEN Queued(hash)
                                                  ELSE Tail(Queued(hash))
         /\ txMap' = [h \in {txOrder'[i] : i \in DOMAIN txOrder'} |->
                        IF h = hash THEN value ELSE txMap[h]]
         /\ txOrder' \in Seq(Hash)
         /\ {txOrder'[i] : i \in DOMAIN txOrder'} \subseteq DOMAIN txMap \cup {hash}
<1> DEFINE queue == Queued(hash)
           keys == DOMAIN txMap \cup {hash}
           n == Evictions(keys, queue)
<1>1. /\ queue \in Seq(Hash) /\ Distinct(queue) /\ Len(queue) <= Cap + 1
      /\ {queue[i] : i \in DOMAIN queue} = keys
  BY QueuedMatchesWritten
<1>2. /\ Len(queue) \in Nat /\ DOMAIN queue = 1 .. Len(queue) /\ Cap \in Nat
      /\ \A i \in 1 .. Len(queue) : queue[i] \in Hash
  BY <1>1, LenProperties, ElementOfSeq, CapAssumption
<1>3. DOMAIN Written(hash, value) = keys
  BY DEF Written
<1>4. /\ txMap' = Restrict(Written(hash, value), KeysLeft(keys, queue, n))
      /\ txOrder' = SubSeq(queue, n + 1, Len(queue))
  BY <1>3 DEF Insert
<1>5. n = IF Len(queue) <= Cap THEN 0 ELSE 1
  BY <1>1, EvictionsValue
<1> HIDE DEF queue, n
<1>6. KeysLeft(keys, queue, n) = {queue[i] : i \in n + 1 .. Len(queue)}
  <2>1. n \in 0 .. Len(queue)
    BY <1>2, <1>5
  <2>2. KeysLeft({queue[i] : i \in DOMAIN queue}, queue, n)
          = {queue[i] : i \in n + 1 .. Len(queue)}
    BY <1>1, <2>1, KeysLeftCount, SMT
  <2> QED
    BY <1>1, <2>2, Zenon
<1>7. n \in Nat /\ n <= Len(queue)
  BY <1>2, <1>5
<1>8. /\ txOrder' \in Seq(Hash) /\ Len(txOrder') = Len(queue) - n
      /\ \A i \in 1 .. Len(queue) - n : txOrder'[i] = queue[n + i]
      /\ DOMAIN txOrder' = 1 .. Len(queue) - n
  <2>1. n \in 0 .. Len(queue)
    BY <1>2, <1>7
  <2> QED
    BY <1>1, <1>4, <2>1, WithoutFirst
<1>9. {txOrder'[i] : i \in DOMAIN txOrder'} = {queue[i] : i \in n + 1 .. Len(queue)}
  <2>1. \A i \in n + 1 .. Len(queue) :
          i - n \in DOMAIN txOrder' /\ txOrder'[i - n] = queue[i]
    <3> TAKE i \in n + 1 .. Len(queue)
    <3>1. i - n \in 1 .. Len(queue) - n /\ n + (i - n) = i
      BY <1>2, <1>7
    <3>2. txOrder'[i - n] = queue[n + (i - n)]
      BY <1>8, <3>1
    <3> QED
      BY <1>8, <3>1, <3>2
  <2>2. \A i \in DOMAIN txOrder' :
          n + i \in n + 1 .. Len(queue) /\ txOrder'[i] = queue[n + i]
    BY <1>2, <1>7, <1>8
  <2> QED
    BY <2>1, <2>2
<1>10. txMap' = [h \in {txOrder'[i] : i \in DOMAIN txOrder'} |->
                   IF h = hash THEN value ELSE txMap[h]]
  <2>1. KeysLeft(keys, queue, n) \subseteq keys
    BY DEF KeysLeft
  <2> QED
    BY <1>4, <1>6, <1>9, <2>1 DEF Restrict, Written
<1>11. txOrder' = IF Len(queue) <= Cap THEN queue ELSE Tail(queue)
  <2>1. CASE Len(queue) <= Cap
    BY <1>1, <1>2, <1>4, <1>5, <2>1, SubSeqFull
  <2>2. CASE ~ (Len(queue) <= Cap)
    <3>1. queue # <<>>
      BY <1>1, <1>2, <2>2, EmptySeq
    <3> QED
      BY <1>1, <1>4, <1>5, <2>2, <3>1, TailIsSubSeq
  <2> QED
    BY <2>1, <2>2
<1>12. {txOrder'[i] : i \in DOMAIN txOrder'} \subseteq keys
  BY <1>6, <1>9 DEF KeysLeft
<1> QED
  BY <1>8, <1>10, <1>11, <1>12 DEF queue

-----------------------------------------------------------------------------

\* An insert, from whichever component it comes, keeps the store well formed.
LEMMA InsertKeepsStore ==
  ASSUME NEW hash \in Hash, NEW value \in Record, TxTypeOK, QueueMatchesMap,
         Insert(hash, value)
  PROVE  /\ TxTypeOK'
         /\ QueueMatchesMap'
         /\ DOMAIN txMap' \subseteq DOMAIN txMap \cup {hash}
         /\ \A h \in DOMAIN txMap' : txMap'[h] = IF h = hash THEN value ELSE txMap[h]
<1> DEFINE queue == Queued(hash)
           listed == {txOrder'[i] : i \in DOMAIN txOrder'}
<1>1. /\ queue \in Seq(Hash) /\ Distinct(queue) /\ Len(queue) <= Cap + 1
      /\ Len(queue) \in Nat /\ DOMAIN queue = 1 .. Len(queue) /\ Cap \in Nat
  BY QueuedMatchesWritten, LenProperties, CapAssumption
<1>2. /\ txOrder' = IF Len(queue) <= Cap THEN queue ELSE Tail(queue)
      /\ txMap' = [h \in listed |-> IF h = hash THEN value ELSE txMap[h]]
      /\ txOrder' \in Seq(Hash)
      /\ listed \subseteq DOMAIN txMap \cup {hash}
  BY InsertShape
<1> HIDE DEF queue
<1>3. Distinct(txOrder') /\ Len(txOrder') <= Cap
  <2>1. CASE Len(queue) <= Cap
    BY <1>1, <1>2, <2>1
  <2>2. CASE ~ (Len(queue) <= Cap)
    <3>1. /\ queue # <<>> /\ txOrder' = Tail(queue)
      BY <1>1, <1>2, <2>2, EmptySeq
    <3>2. /\ Len(txOrder') = Len(queue) - 1
          /\ \A i \in 1 .. Len(txOrder') : txOrder'[i] = queue[i + 1]
          /\ DOMAIN txOrder' = 1 .. Len(txOrder')
      BY <1>1, <1>2, <3>1, HeadTailProperties, LenProperties, Zenon
    <3>3. \A i \in DOMAIN txOrder' : i \in Int /\ i + 1 \in DOMAIN queue
      BY <1>1, <3>2
    <3>4. Distinct(txOrder')
      BY <1>1, <3>2, <3>3 DEF Distinct
    <3> QED
      BY <1>1, <2>2, <3>2, <3>4
  <2> QED
    BY <2>1, <2>2
<1>4. QueueMatchesMap'
  BY <1>2, <1>3 DEF QueueMatchesMap, Distinct
<1>5. TxTypeOK'
  <2>1. PICK held \in SUBSET Hash : txMap \in [held -> Record]
    BY DEF TxTypeOK
  <2>2. listed \in SUBSET Hash
    BY <1>2, <2>1
  <2>3. txMap' \in [listed -> Record]
    BY <1>2, <2>1
  <2> QED
    BY <1>2, <2>2, <2>3 DEF TxTypeOK
<1> QED
  BY <1>2, <1>4, <1>5

\* Where there is room for its hash, an insert evicts nothing.
LEMMA InsertWithRoom ==
  ASSUME NEW hash \in Hash, NEW value \in Record, TxTypeOK, QueueMatchesMap,
         Insert(hash, value), Cardinality(DOMAIN txMap \cup {hash}) <= Cap
  PROVE  DOMAIN txMap' = DOMAIN txMap \cup {hash}
<1> DEFINE queue == Queued(hash)
           keys == DOMAIN txMap \cup {hash}
<1>1. /\ queue \in Seq(Hash) /\ Distinct(queue) /\ Len(queue) \in Nat
      /\ {queue[i] : i \in DOMAIN queue} = keys
  BY QueuedMatchesWritten, LenProperties
<1>2. Len(queue) <= Cap
  <2> HIDE DEF queue, keys
  <2>1. 0 \in 0 .. Len(queue) /\ Len(queue) - 0 = Len(queue)
    BY <1>1
  <2>2. Cardinality(KeysLeft(keys, queue, 0)) = Len(queue)
    BY <1>1, <2>1, KeysLeftCount
  <2>3. KeysLeft(keys, queue, 0) = keys
    BY DEF KeysLeft
  <2> QED
    BY <2>2, <2>3 DEF keys
<1>3. /\ txOrder' = queue
      /\ txMap' = [h \in {txOrder'[i] : i \in DOMAIN txOrder'} |->
                     IF h = hash THEN value ELSE txMap[h]]
  BY <1>2, InsertShape
<1> HIDE DEF queue
<1> QED
  BY <1>1, <1>3

LEMMA EmptyStore == WithCapacity => TxTypeOK /\ QueueMatchesMap
<1> SUFFICES ASSUME WithCapacity PROVE TxTypeOK /\ QueueMatchesMap
  OBVIOUS
<1>1. txOrder \in Seq(Hash) /\ Len(txOrder) = 0 /\ DOMAIN txOrder = {}
  BY EmptySeq DEF WithCapacity
<1>2. txMap \in [{} -> Record]
  BY DEF WithCapacity
<1>3. DOMAIN txMap = {}
  BY <1>2
<1>4. TxTypeOK
  <2>1. {} \in SUBSET Hash
    OBVIOUS
  <2> QED
    BY <1>1, <1>2, <2>1 DEF TxTypeOK
<1>5. QueueMatchesMap
  BY <1>1, <1>3, CapAssumption DEF QueueMatchesMap
<1> QED
  BY <1>4, <1>5

StoreInv == TxTypeOK /\ QueueMatchesMap

\* At every moment of every use of the store (src/src/session_wrapper.rs, struct
\* TxStore), its fields have their types, and its queue lists exactly the hashes
\* of its map, each once, no more than its capacity.
THEOREM StoreWellFormed == TxSpec => [](TxTypeOK /\ QueueMatchesMap)
<1>1. WithCapacity => StoreInv
  BY EmptyStore DEF StoreInv
<1>2. StoreInv /\ [TxNext]_txVars => StoreInv'
  <2> SUFFICES ASSUME StoreInv, [TxNext]_txVars PROVE StoreInv'
    OBVIOUS
  <2>1. ASSUME NEW hash \in Hash, NEW value \in Record, Insert(hash, value)
        PROVE  StoreInv'
    BY <2>1, InsertKeepsStore DEF StoreInv
  <2>2. CASE UNCHANGED txVars
    BY <2>2 DEF StoreInv, TxTypeOK, QueueMatchesMap, txVars
  <2> QED
    BY <2>1, <2>2 DEF TxNext
<1> QED
  BY <1>1, <1>2, PTL DEF TxSpec, StoreInv

-----------------------------------------------------------------------------
(* The store implements RecordWindow.                                      *)

LEMMA ListOfStore ==
  ASSUME NEW queue \in Seq(Hash), NEW map, \A i \in DOMAIN queue : map[queue[i]] \in Record
  PROVE  LET list == [i \in DOMAIN queue |-> [hash |-> queue[i], record |-> map[queue[i]]]]
         IN  /\ list \in Seq([hash : Hash, record : Record])
             /\ Len(list) = Len(queue)
             /\ DOMAIN list = 1 .. Len(queue)
<1> DEFINE e(i) == [hash |-> queue[i], record |-> map[queue[i]]]
           list == [i \in DOMAIN queue |-> e(i)]
<1>1. Len(queue) \in Nat /\ DOMAIN queue = 1 .. Len(queue)
  BY LenProperties
<1>2. \A i \in 1 .. Len(queue) : e(i) \in [hash : Hash, record : Record]
  BY <1>1, ElementOfSeq
<1>3. list = [i \in 1 .. Len(queue) |-> e(i)]
  BY <1>1
<1>4. list \in Seq([hash : Hash, record : Record])
  <2> HIDE DEF e
  <2> QED
    BY <1>1, <1>2, <1>3, IsASeq
<1>5. DOMAIN list = 1 .. Len(queue)
  BY <1>3
<1>6. Len(list) = Len(queue)
  <2> HIDE DEF list
  <2>1. DOMAIN list = 1 .. Len(list) /\ Len(list) \in Nat
    BY <1>4, LenProperties
  <2> QED
    BY <1>1, <1>5, <2>1
<1> QED
  BY <1>4, <1>5, <1>6

\* The list after an insert is the list with the record in the place of its hash,
\* or with it at the end and the first gone when there are too many.
LEMMA ListAfterPut ==
  ASSUME NEW hash \in Hash, NEW value \in Record, StoreInv
  PROVE  LET entry  == [hash |-> hash, record |-> value]
             longer == Append(RecordList, entry)
             places == {i \in DOMAIN RecordList : RecordList[i].hash = hash}
         IN  \/ \E i \in places : ListAfter(hash, value) = [RecordList EXCEPT ![i] = entry]
             \/ /\ places = {}
                /\ ListAfter(hash, value) = IF Len(longer) > Cap THEN Tail(longer) ELSE longer
<1> DEFINE entry == [hash |-> hash, record |-> value]
           places == {i \in DOMAIN RecordList : RecordList[i].hash = hash}
<1>1. /\ DOMAIN RecordList = DOMAIN txOrder
      /\ \A i \in DOMAIN txOrder : RecordList[i].hash = txOrder[i]
  BY DEF RecordList
<1>2. CASE hash \in DOMAIN txMap
  <2>1. PICK i \in DOMAIN txOrder : txOrder[i] = hash
    BY <1>2 DEF StoreInv, QueueMatchesMap
  <2>2. \A j \in DOMAIN txOrder : txOrder[j] = hash <=> j = i
    BY <2>1 DEF StoreInv, QueueMatchesMap
  <2>3. ListAfter(hash, value) = [j \in DOMAIN txOrder |-> IF txOrder[j] = hash THEN entry
                                                                            ELSE RecordList[j]]
    BY <1>2 DEF ListAfter, Holds
  <2>4. RecordList = [j \in DOMAIN txOrder |-> RecordList[j]]
    BY DEF RecordList
  <2>5. ListAfter(hash, value) = [RecordList EXCEPT ![i] = entry]
    <3> HIDE DEF entry
    <3> QED
      BY <2>1, <2>2, <2>3, <2>4
  <2> QED
    BY <1>1, <2>1, <2>5
<1>3. CASE hash \notin DOMAIN txMap
  <2>1. \A i \in DOMAIN txOrder : txOrder[i] # hash
    BY <1>3 DEF StoreInv, QueueMatchesMap
  <2> QED
    BY <1>1, <1>3, <2>1 DEF ListAfter, Holds
<1> QED
  BY <1>2, <1>3

\* An insert changes the list as RecordWindow has it.
LEMMA InsertChangesList ==
  ASSUME NEW hash \in Hash, NEW value \in Record, StoreInv, Insert(hash, value)
  PROVE  /\ RecordList' = ListAfter(hash, value)
         /\ Window!Replace(hash, value) \/ Window!Add(hash, value)
<1> DEFINE entry == [hash |-> hash, record |-> value]
           longer == Append(RecordList, entry)
           E == [hash : Hash, record : Record]
<1>1. /\ txOrder \in Seq(Hash) /\ Len(txOrder) \in Nat
      /\ DOMAIN txOrder = 1 .. Len(txOrder)
      /\ \A i \in DOMAIN txOrder : txMap[txOrder[i]] \in Record
  BY LenProperties DEF StoreInv, TxTypeOK, QueueMatchesMap
<1>2. /\ RecordList \in Seq(E) /\ Len(RecordList) = Len(txOrder)
      /\ DOMAIN RecordList = 1 .. Len(txOrder)
      /\ \A i \in 1 .. Len(txOrder) :
           RecordList[i] = [hash |-> txOrder[i], record |-> txMap[txOrder[i]]]
  BY <1>1, ListOfStore DEF RecordList, Get
<1>3. /\ txOrder' \in Seq(Hash) /\ Len(txOrder') \in Nat
      /\ DOMAIN txOrder' = 1 .. Len(txOrder')
      /\ \A i \in DOMAIN txOrder' :
           /\ txMap'[txOrder'[i]] = IF txOrder'[i] = hash THEN value ELSE txMap[txOrder'[i]]
           /\ txMap'[txOrder'[i]] \in Record
  <2>1. /\ TxTypeOK' /\ QueueMatchesMap'
        /\ \A h \in DOMAIN txMap' : txMap'[h] = IF h = hash THEN value ELSE txMap[h]
    BY InsertKeepsStore DEF StoreInv
  <2>2. /\ txOrder' \in Seq(Hash) /\ Len(txOrder') \in Nat
        /\ DOMAIN txOrder' = 1 .. Len(txOrder')
    BY <2>1, LenProperties DEF TxTypeOK
  <2>3. \A i \in DOMAIN txOrder' : txOrder'[i] \in DOMAIN txMap'
    BY <2>1 DEF QueueMatchesMap
  <2>4. \A h \in DOMAIN txMap' : txMap'[h] \in Record
    BY <2>1 DEF TxTypeOK
  <2> QED
    BY <2>1, <2>2, <2>3, <2>4
<1>4. RecordList' = [i \in DOMAIN txOrder' |->
                       IF txOrder'[i] = hash THEN entry
                       ELSE [hash |-> txOrder'[i], record |-> txMap[txOrder'[i]]]]
  BY <1>3 DEF RecordList, Get
<1>5. entry \in E
  OBVIOUS
<1>6. Window!Positions(hash) = {i \in DOMAIN txOrder : txOrder[i] = hash}
  BY <1>1, <1>2 DEF Window!Positions
<1> HIDE DEF entry
<1>7. CASE hash \in DOMAIN txMap
  <2>1. txOrder' = txOrder
    BY <1>7, InsertShape DEF Queued, StoreInv, QueueMatchesMap
  <2>2. RecordList' = ListAfter(hash, value)
    BY <1>1, <1>2, <1>4, <1>7, <2>1 DEF ListAfter, Holds, entry
  <2>3. PICK i \in DOMAIN txOrder : txOrder[i] = hash
    BY <1>7 DEF StoreInv, QueueMatchesMap
  <2>4. \A j \in DOMAIN txOrder : txOrder[j] = hash <=> j = i
    BY <2>3 DEF StoreInv, QueueMatchesMap
  <2>5. RecordList' = [RecordList EXCEPT ![i] = entry]
    BY <1>1, <1>2, <1>4, <2>1, <2>4
  <2> QED
    BY <1>6, <2>2, <2>3, <2>5 DEF Window!Replace, entry
<1>8. CASE hash \notin DOMAIN txMap
  <2> DEFINE queue == Append(txOrder, hash)
             n == Len(txOrder)
  <2>1. txOrder' = IF n + 1 <= Cap THEN queue ELSE Tail(queue)
    <3>1. Queued(hash) = queue /\ Len(queue) = n + 1
      BY <1>1, <1>8, AppendProperties DEF Queued
    <3> QED
      BY <3>1, InsertShape DEF StoreInv
  <2>2. \A i \in DOMAIN txOrder : txOrder[i] # hash
    BY <1>8 DEF StoreInv, QueueMatchesMap
  <2>3. Window!Positions(hash) = {}
    BY <1>6, <2>2
  <2>4. /\ longer \in Seq(E) /\ longer # <<>> /\ Len(longer) = n + 1
        /\ \A i \in 1 .. n : longer[i] = RecordList[i]
        /\ longer[n + 1] = entry
    BY <1>1, <1>2, <1>5, AppendProperties
  <2>5. /\ queue \in Seq(Hash) /\ queue # <<>> /\ Len(queue) = n + 1
        /\ DOMAIN queue = 1 .. n + 1
        /\ \A i \in 1 .. n : queue[i] = txOrder[i]
        /\ queue[n + 1] = hash
    BY <1>1, AppendProperties, LenProperties
  <2>6. \A i \in 1 .. n + 1 :
          longer[i] = IF queue[i] = hash THEN entry
                      ELSE [hash |-> queue[i], record |-> txMap[queue[i]]]
    <3>1. \A i \in 1 .. n + 1 : i \in 1 .. n \/ i = n + 1
      BY <1>1
    <3> QED
      BY <1>1, <1>2, <2>2, <2>4, <2>5, <3>1
  <2>7. RecordList' = IF n + 1 > Cap THEN Tail(longer) ELSE longer
    <3>1. CASE n + 1 <= Cap
      <4>1. RecordList' \in Seq(E) /\ Len(RecordList') = n + 1
        BY <1>3, <2>1, <2>5, <3>1, ListOfStore DEF RecordList, Get
      <4>2. \A i \in 1 .. n + 1 : RecordList'[i] = longer[i]
        BY <1>4, <2>1, <2>5, <2>6, <3>1
      <4>3. RecordList' = longer
        BY <2>4, <4>1, <4>2, SeqEqual
      <4> QED
        BY <1>1, <3>1, <4>3, CapAssumption
    <3>2. CASE ~ (n + 1 <= Cap)
      <4>1. /\ txOrder' = Tail(queue) /\ Len(txOrder') = n
            /\ DOMAIN txOrder' = 1 .. n
            /\ \A i \in 1 .. n : txOrder'[i] = queue[i + 1]
        BY <1>1, <1>3, <2>1, <2>5, <3>2, HeadTailProperties
      <4>2. /\ Tail(longer) \in Seq(E) /\ Len(Tail(longer)) = n
            /\ \A i \in 1 .. n : Tail(longer)[i] = longer[i + 1]
        BY <1>1, <2>4, HeadTailProperties
      <4>3. RecordList' \in Seq(E) /\ Len(RecordList') = n
        BY <1>3, <4>1, ListOfStore DEF RecordList, Get
      <4>4. \A i \in 1 .. n : RecordList'[i] = longer[i + 1]
        <5>1. \A i \in 1 .. n : i + 1 \in 1 .. n + 1
          BY <1>1
        <5> QED
          BY <1>4, <2>6, <4>1, <5>1
      <4>5. RecordList' = Tail(longer)
        BY <4>2, <4>3, <4>4, SeqEqual
      <4> QED
        BY <1>1, <3>2, <4>5, CapAssumption
    <3> QED
      BY <3>1, <3>2
  <2>8. ListAfter(hash, value) = IF n + 1 > Cap THEN Tail(longer) ELSE longer
    BY <1>8, <2>4 DEF ListAfter, Holds, entry
  <2> QED
    BY <2>3, <2>4, <2>7, <2>8 DEF Window!Add, entry
<1> QED
  BY <1>7, <1>8

\* The map, the queue and the eviction loop implement the bounded list of
\* records (TxStore::insert): no sequence of inserts evicts a record out of
\* turn, keeps one too many or loses one while there is room.
THEOREM StoreImplementsWindow == TxSpec => ImplementsWindow
<1>1. WithCapacity => Window!Init
  <2>1. WithCapacity => RecordList = <<>>
    BY DEF WithCapacity, RecordList
  <2> QED
    BY <2>1 DEF Window!Init
<1>2. StoreInv /\ [TxNext]_txVars => [Window!Next]_RecordList
  <2> SUFFICES ASSUME StoreInv, [TxNext]_txVars PROVE [Window!Next]_RecordList
    OBVIOUS
  <2>1. ASSUME NEW hash \in Hash, NEW value \in Record, Insert(hash, value)
        PROVE  Window!Next
    BY <2>1, InsertChangesList DEF Window!Next
  <2>2. CASE UNCHANGED txVars
    BY <2>2 DEF txVars, RecordList, Get
  <2> QED
    BY <2>1, <2>2 DEF TxNext
<1>3. TxSpec => []StoreInv
  BY StoreWellFormed, PTL DEF StoreInv
<1> QED
  BY <1>1, <1>2, <1>3, PTL DEF TxSpec, ImplementsWindow, Window!Spec
=============================================================================
