------------------------------- MODULE TxStore -------------------------------
(***************************************************************************)
(* The bounded store behind GET /transactions/by_hash: struct TxStore of   *)
(* src/src/session_wrapper.rs.  A map from transaction hash to record and, *)
(* beside it, the queue of hashes in the order they were first inserted,   *)
(* whose head is evicted when the map outgrows its capacity.               *)
(*                                                                         *)
(* The two structures are updated separately, so what can go wrong is that *)
(* they drift apart: a hash queued twice evicts a live record later, a     *)
(* hash in the map but not in the queue is never evicted.  RecordWindow    *)
(* states what the pair promises as one object.                            *)
(***************************************************************************)
EXTENDS Naturals, Sequences, FiniteSets, Functions

CONSTANTS
  Hash,     \* transaction hashes
  Record,   \* JSON records
  Cap       \* TX_STORE_CAP, 10_000 in the program

ASSUME CapAssumption == Cap \in Nat

VARIABLES
  txMap,    \* map: HashMap<String, Value>
  txOrder   \* order: VecDeque<String>

txVars == <<txMap, txOrder>>

TxTypeOK ==
  /\ \E held \in SUBSET Hash : txMap \in [held -> Record]
  /\ txOrder \in Seq(Hash)

-----------------------------------------------------------------------------

\* TxStore::with_capacity
WithCapacity ==
  /\ txMap = [h \in {} |-> h]
  /\ txOrder = <<>>

\* HashMap::insert, which overwrites the value of a key that is present.
Written(hash, value) ==
  [h \in DOMAIN txMap \cup {hash} |-> IF h = hash THEN value ELSE txMap[h]]

\* A variant that queues the hash on every insert, re-inserts included.
QueuedAlways(hash) == Append(txOrder, hash)

\* A variant that moves a re-inserted hash to the back of the queue.
QueuedMostRecent(hash) ==
  Append(SelectSeq(txOrder, LAMBDA h : h # hash), hash)

\* The queue after the map's insert: it grows only by a fresh hash.
Queued(hash) ==
  IF hash \in DOMAIN txMap THEN txOrder ELSE Append(txOrder, hash)

\* What the map still holds once the first n hashes of the queue are removed.
KeysLeft(keys, queue, n) == keys \ {queue[i] : i \in 1 .. n}

\* A variant that lets one record too many stay.
FitsLate(keys, queue, n) == Cardinality(KeysLeft(keys, queue, n)) <= Cap + 1

\* The negation of the eviction loop's condition, map.len() > cap.
Fits(keys, queue, n) == Cardinality(KeysLeft(keys, queue, n)) <= Cap

\* How many times the loop pops: until the map fits, or the queue is empty.
Evictions(keys, queue) ==
  CHOOSE n \in 0 .. Len(queue) :
    /\ Fits(keys, queue, n) \/ n = Len(queue)
    /\ \A k \in 0 .. n - 1 : ~ Fits(keys, queue, k)

\* TxStore::insert: write, queue, then evict from the front.
Insert(hash, value) ==
  LET written == Written(hash, value)
      queue   == Queued(hash)
      n       == Evictions(DOMAIN written, queue)
  IN  /\ txMap' = Restrict(written, KeysLeft(DOMAIN written, queue, n))
      /\ txOrder' = SubSeq(queue, n + 1, Len(queue))

\* TxStore::get, for a hash the store holds.
Get(hash) == txMap[hash]

Holds(hash) == hash \in DOMAIN txMap

-----------------------------------------------------------------------------

TxNext == \E hash \in Hash, value \in Record : Insert(hash, value)

TxSpec == WithCapacity /\ [][TxNext]_txVars

-----------------------------------------------------------------------------

\* The queue lists exactly the hashes of the map, each once, and the map is
\* within its capacity: the eviction loop always finds its victim in the map,
\* and no record is out of its reach.
QueueMatchesMap ==
  /\ \A i, j \in DOMAIN txOrder : txOrder[i] = txOrder[j] => i = j
  /\ {txOrder[i] : i \in DOMAIN txOrder} = DOMAIN txMap
  /\ Len(txOrder) <= Cap

\* The map and the queue seen as one list, oldest hash first.
RecordList ==
  [i \in DOMAIN txOrder |-> [hash |-> txOrder[i], record |-> Get(txOrder[i])]]

\* That list after an insert, as RecordWindow has it.
ListAfter(hash, value) ==
  LET entry  == [hash |-> hash, record |-> value]
      longer == Append(RecordList, entry)
  IN  IF Holds(hash)
      THEN [i \in DOMAIN txOrder |-> IF txOrder[i] = hash THEN entry ELSE RecordList[i]]
      ELSE IF Len(longer) > Cap THEN Tail(longer) ELSE longer

Window == INSTANCE RecordWindow WITH window <- RecordList

\* The two structures and the eviction loop behave as the bounded list of
\* RecordWindow: an insert replaces in place or appends, and only the oldest
\* record is ever given up, only when a fresh hash needs its place.
ImplementsWindow == Window!Spec

=============================================================================
