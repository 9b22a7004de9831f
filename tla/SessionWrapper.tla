---------------------------- MODULE SessionWrapper ----------------------------
(***************************************************************************)
(* The session shared by every request: struct SessionWrapper of           *)
(* src/src/session_wrapper.rs, the handlers of src/src/server.rs that call *)
(* it, and the Session underneath as those calls and                       *)
(* patches/aptos-core/0002 show it.                                        *)
(*                                                                         *)
(* A task is one closure on the blocking pool (run_blocking).  Tasks run   *)
(* concurrently; the session is behind the mutex `inner`, the counter and  *)
(* the record store behind mutexes of their own that are held for one      *)
(* statement, so each use of those two is one step here.  The release of   *)
(* `inner` belongs to the step in which its guard is dropped: the last of  *)
(* the critical section, an early return, or an unwinding panic.           *)
(*                                                                         *)
(* The kinds of request:                                                   *)
(*   submit, traceCommit, mint   change the session                        *)
(*   simulate, traceDry          copy the session's files under the lock,  *)
(*                               run on the copy, remove it                *)
(*   view                        reads the session under the lock          *)
(***************************************************************************)
EXTENDS Naturals, Sequences, FiniteSets, SequencesExt

CONSTANTS
  Tasks,          \* blocking tasks, each running one request
  NoTask,         \* not a task: a free lock, the server starting up
  Txns,           \* signed transactions, named by their hash
  NoTxn,
  Sender,       \* the sender of a transaction
  SequenceNumber,          \* the sequence number of a transaction
  Kinds,          \* the kinds of request in play
  Torn,           \* a session file that cannot be loaded: absent or half written
  NoDir,          \* a temporary directory that does not exist
  NoSnap,         \* nothing read yet
  IoMayFail,      \* what is done to the file system may fail
  SameTick,       \* two clock readings may be equal
  ChainOverride,  \* the server was started with --chain-id
  Cap             \* TX_STORE_CAP

AllKinds == {"submit", "traceCommit", "mint", "simulate", "traceDry", "view"}

ASSUME TaskAssumption == NoTask \notin Tasks /\ IsFiniteSet(Tasks)
ASSUME TxnAssumption ==
  /\ NoTxn \notin Txns
  /\ DOMAIN Sender = Txns
  /\ SequenceNumber \in [Txns -> Nat]
ASSUME KindAssumption == Kinds \subseteq AllKinds
ASSUME SwitchAssumption ==
  {IoMayFail, SameTick, ChainOverride} \subseteq BOOLEAN
ASSUME StoreAssumption == Cap \in Nat

VARIABLES
  inner,      \* inner: Mutex<Session>, the task holding it
  session,    \* the changes applied to the session in memory, oldest first
  delta,      \* what delta.json holds: the changes as of the last save
  opsCount,   \* ops_count: Mutex<u64>, served as the ledger version
  txMap,      \* tx_store: Mutex<TxStore>
  txOrder,
  pc,         \* where each task is
  request,    \* its request
  verdict,    \* how the VM ended its transaction
  version,    \* the ledger version it took for its record
  path,       \* whose clock reading its temporary directory is named by
  tempDirs,   \* the temporary directories
  snap,       \* the session a reading task has seen
  floor,      \* the commits acknowledged when a reading task began
  reply       \* the answer to its request

storeVars == <<txMap, txOrder>>
vars == <<inner, session, delta, opsCount, txMap, txOrder, pc, request, verdict,
          version, path, tempDirs, snap, floor, reply>>

-----------------------------------------------------------------------------
(* The data. *)

Kept == {"success", "abort"}            \* executed: the write set is committed
Verdicts == Kept \cup {"discard"}       \* or rejected by the prologue

Records == [status : Verdicts, version : Nat]

INSTANCE TxStore WITH Hash <- Txns, Record <- Records

Changes == [txn : Txns \cup {NoTxn}, status : Kept, by : Tasks \cup {NoTask}]

ASSUME MarkAssumption ==
  Torn # NoDir /\ \A mark \in {Torn, NoDir, NoSnap} : mark \notin Seq(Changes)

Requests ==
  [kind : Kinds \cap {"submit", "traceCommit", "simulate", "traceDry"}, txn : Txns]
    \cup [kind : Kinds \cap {"mint", "view"}, txn : {NoTxn}]

CloneKinds == {"simulate", "traceDry"}

Kind(t) == request[t].kind

\* Positions of the changes a sender's transactions made.
ChangesOf(changes, sender) ==
  {i \in DOMAIN changes : /\ changes[i].txn # NoTxn
                          /\ Sender[changes[i].txn] = sender}

\* The sequence number the session expects next from a sender.
NextSeq(changes, sender) == Cardinality(ChangesOf(changes, sender))

\* The chain id set at start-up is the first change, by nobody.
Override == [txn |-> NoTxn, status |-> "success", by |-> NoTask]

OnExpectedChain(changes) ==
  ChainOverride => \E i \in DOMAIN changes : changes[i] = Override

\* A transaction is signed for one sequence number of one chain: anywhere else
\* it is discarded.  Where it fits it may still be (expired, too little gas),
\* or execute and succeed or abort.
VmVerdicts(changes, txn) ==
  IF SequenceNumber[txn] = NextSeq(changes, Sender[txn]) /\ OnExpectedChain(changes)
  THEN Verdicts ELSE {"discard"}

Change(t) == [txn |-> request[t].txn, status |-> verdict[t], by |-> t]

\* What a reader finds in delta.json.  A save rewrites the file in place.
DeltaOnDisk == IF \E t \in Tasks : pc[t] = "persist" THEN Torn ELSE delta

Acked == {t \in Tasks : reply[t] = "ok" /\ \E i \in DOMAIN session : session[i].by = t}

-----------------------------------------------------------------------------

Labels == {"idle", "acquire", "run", "apply", "fund", "persist", "bump", "increment",
           "readOps", "record", "mktemp", "copy", "load", "cleanup", "read", "done"}

\* "left": an error, whichever, with the temporary directory not removed.
Replies == {"none", "ok", "error", "left", "panicked"}

TypeOK ==
  /\ inner \in Tasks \cup {NoTask}
  /\ session \in Seq(Changes)
  /\ delta \in Seq(Changes) \cup {Torn}
  /\ opsCount \in Nat
  /\ TxTypeOK
  /\ pc \in [Tasks -> Labels]
  /\ request \in [Tasks -> Requests \cup {[kind |-> "none", txn |-> NoTxn]}]
  /\ verdict \in [Tasks -> Verdicts]
  /\ version \in [Tasks -> Nat]
  /\ path \in [Tasks -> Tasks]
  /\ tempDirs \in [Tasks -> Seq(Changes) \cup {Torn, NoDir}]
  /\ snap \in [Tasks -> Seq(Changes) \cup {NoSnap}]
  /\ floor \in [Tasks -> SUBSET Tasks]
  /\ reply \in [Tasks -> Replies]

\* SessionWrapper::new over a session made by create_session, which sets the
\* chain id in memory only.
Init ==
  /\ inner = NoTask
  /\ session = IF ChainOverride THEN <<Override>> ELSE <<>>
  /\ delta = <<>>
  /\ opsCount = 0
  /\ WithCapacity
  /\ pc = [t \in Tasks |-> "idle"]
  /\ request = [t \in Tasks |-> [kind |-> "none", txn |-> NoTxn]]
  /\ verdict = [t \in Tasks |-> "discard"]
  /\ version = [t \in Tasks |-> 0]
  /\ path = [t \in Tasks |-> t]
  /\ tempDirs = [t \in Tasks |-> NoDir]
  /\ snap = [t \in Tasks |-> NoSnap]
  /\ floor = [t \in Tasks |-> {}]
  /\ reply = [t \in Tasks |-> "none"]

Goto(t, label) == pc' = [pc EXCEPT ![t] = label]

\* The closure returns (or unwinds) while it holds the session lock.
ReleaseAnd(t, answer) ==
  /\ inner' = NoTask
  /\ reply' = [reply EXCEPT ![t] = answer]
  /\ Goto(t, "done")

-----------------------------------------------------------------------------
(* Every request starts here; only the dry runs do something before they   *)
(* ask for the session.                                                    *)

Begin(t) ==
  /\ pc[t] = "idle"
  /\ \E r \in Requests :
       /\ request' = [request EXCEPT ![t] = r]
       /\ IF r.kind \in CloneKinds THEN Goto(t, "mktemp") ELSE Goto(t, "acquire")
       /\ IF r.kind \in CloneKinds \cup {"view"}
          THEN floor' = [floor EXCEPT ![t] = Acked] ELSE floor' = floor
  /\ UNCHANGED <<inner, session, delta, opsCount, storeVars, verdict, version, path,
                 tempDirs, snap, reply>>

AfterAcquire(t) ==
  CASE Kind(t) \in {"submit", "traceCommit"} -> "run"
    [] Kind(t) = "mint" -> "fund"
    [] Kind(t) \in CloneKinds -> "copy"
    [] Kind(t) = "view" -> "read"

\* A variant that runs without waiting for the session.
AcquireWithoutWaiting(t) ==
  /\ pc[t] = "acquire"
  /\ inner' = t
  /\ Goto(t, AfterAcquire(t))
  /\ UNCHANGED <<session, delta, opsCount, storeVars, request, verdict, version, path,
                 tempDirs, snap, floor, reply>>

\* let mut session = self.inner.lock();
Acquire(t) ==
  /\ pc[t] = "acquire"
  /\ inner = NoTask
  /\ inner' = t
  /\ Goto(t, AfterAcquire(t))
  /\ UNCHANGED <<session, delta, opsCount, storeVars, request, verdict, version, path,
                 tempDirs, snap, floor, reply>>

-----------------------------------------------------------------------------
(* submit and traceCommit: run the transaction on the live session.        *)

\* A variant in which a discarded traced transaction is committed and recorded
\* like one that executed.
RunVmKeepingDiscards(t) ==
  /\ pc[t] = "run"
  /\ \E v \in VmVerdicts(session, request[t].txn) :
       verdict' = [verdict EXCEPT ![t] = v]
  /\ Goto(t, "apply")
  /\ UNCHANGED <<inner, session, delta, opsCount, storeVars, request, version, path,
                 tempDirs, snap, floor, reply>>

\* The VM decides.  A traced transaction that is discarded is answered at
\* once, with nothing to commit or store; a submitted one goes on.
RunVm(t) ==
  /\ pc[t] = "run"
  /\ \E v \in VmVerdicts(session, request[t].txn) :
       /\ verdict' = [verdict EXCEPT ![t] = v]
       /\ IF v = "discard" /\ Kind(t) = "traceCommit"
          THEN ReleaseAnd(t, "ok")
          ELSE Goto(t, "apply") /\ UNCHANGED <<inner, reply>>
  /\ UNCHANGED <<session, delta, opsCount, storeVars, request, version, path, tempDirs,
                 snap, floor>>

\* A variant with a lock that a panic leaves unusable.
VmFailsHolding(t) ==
  /\ pc[t] \in {"run", "fund", "read"}
  /\ reply' = [reply EXCEPT ![t] = "error"]
  /\ Goto(t, "done")
  /\ UNCHANGED <<inner, session, delta, opsCount, storeVars, request, verdict, version,
                 path, tempDirs, snap, floor>>

\* The VM call fails before anything is applied: an Err (an output that cannot
\* be materialized, a mint the session refuses, a view that aborts) or a panic, which
\* unwinds through the guard and does not poison the lock.
VmFails(t) ==
  /\ pc[t] \in {"run", "fund", "read"}
  /\ ReleaseAnd(t, "error")
  /\ UNCHANGED <<session, delta, opsCount, storeVars, request, verdict, version, path,
                 tempDirs, snap, floor>>

\* state_store.apply_write_set: from here the change is visible in memory.  The
\* write set of a discarded transaction is empty.
ApplyWriteSet(t) ==
  /\ pc[t] = "apply"
  /\ session' = IF verdict[t] \in Kept THEN Append(session, Change(t)) ELSE session
  /\ Goto(t, "persist")
  /\ UNCHANGED <<inner, delta, opsCount, storeVars, request, verdict, version, path,
                 tempDirs, snap, floor, reply>>

\* Session::fund_account, up to its save.
FundAccount(t) ==
  /\ pc[t] = "fund"
  /\ session' = Append(session, [txn |-> NoTxn, status |-> "success", by |-> t])
  /\ Goto(t, "persist")
  /\ UNCHANGED <<inner, delta, opsCount, storeVars, request, verdict, version, path,
                 tempDirs, snap, floor, reply>>

\* A variant of execute_and_record that gives the session back as soon as the
\* transaction is executed.
PersistUnlocked(t) ==
  /\ pc[t] = "persist"
  /\ delta' = session
  /\ Goto(t, IF Kind(t) = "submit" THEN "bump" ELSE "increment")
  /\ inner' = IF Kind(t) = "traceCommit" THEN inner ELSE NoTask
  /\ UNCHANGED <<session, opsCount, storeVars, request, verdict, version, path, tempDirs,
                 snap, floor, reply>>

\* config.save_to_file and save_delta.  For mint this ends the call of
\* fund_account, and with it the lock.
Persist(t) ==
  /\ pc[t] = "persist"
  /\ delta' = session
  /\ Goto(t, IF Kind(t) = "submit" THEN "bump" ELSE "increment")
  /\ inner' = IF Kind(t) = "mint" THEN NoTask ELSE inner
  /\ UNCHANGED <<session, opsCount, storeVars, request, verdict, version, path, tempDirs,
                 snap, floor, reply>>

\* A variant that takes the version back from a change that was not saved.
PersistFailsUncounting(t) ==
  /\ IoMayFail
  /\ pc[t] = "persist"
  /\ opsCount' = opsCount - 1
  /\ \E left \in {delta, Torn} : delta' = left
  /\ ReleaseAnd(t, "error")
  /\ UNCHANGED <<session, storeVars, request, verdict, version, path, tempDirs, snap,
                 floor>>

\* A save fails and `?` returns: the change stays in memory, uncounted and
\* unrecorded, and delta.json keeps what it had or is left half written.
PersistFails(t) ==
  /\ IoMayFail
  /\ pc[t] = "persist"
  /\ \E left \in {delta, Torn} : delta' = left
  /\ ReleaseAnd(t, "error")
  /\ UNCHANGED <<session, opsCount, storeVars, request, verdict, version, path, tempDirs,
                 snap, floor>>

\* A variant of the bump that drops the session lock first.
BumpUnlocked(t) ==
  /\ pc[t] = "bump"
  /\ inner' = NoTask
  /\ opsCount' = opsCount + 1
  /\ version' = [version EXCEPT ![t] = opsCount + 1]
  /\ Goto(t, "record")
  /\ UNCHANGED <<session, delta, storeVars, request, verdict, path, tempDirs, snap,
                 floor, reply>>

\* execute_and_record: *count += 1; *count, under one hold of ops_count.
Bump(t) ==
  /\ pc[t] = "bump"
  /\ opsCount' = opsCount + 1
  /\ version' = [version EXCEPT ![t] = opsCount + 1]
  /\ Goto(t, "record")
  /\ UNCHANGED <<inner, session, delta, storeVars, request, verdict, path, tempDirs,
                 snap, floor, reply>>

\* A variant in which traceCommit has dropped the session lock by then.
IncrementOpsUnlocked(t) ==
  /\ pc[t] = "increment"
  /\ opsCount' = opsCount + 1
  /\ inner' = IF inner = t THEN NoTask ELSE inner
  /\ IF Kind(t) = "mint"
     THEN Goto(t, "done") /\ reply' = [reply EXCEPT ![t] = "ok"]
     ELSE Goto(t, "readOps") /\ reply' = reply
  /\ UNCHANGED <<session, delta, storeVars, request, verdict, version, path, tempDirs,
                 snap, floor>>

\* increment_ops.  traceCommit calls it with the session locked; mint, whose
\* fund_account has returned, without, and is then done.
IncrementOps(t) ==
  /\ pc[t] = "increment"
  /\ opsCount' = opsCount + 1
  /\ IF Kind(t) = "mint"
     THEN Goto(t, "done") /\ reply' = [reply EXCEPT ![t] = "ok"]
     ELSE Goto(t, "readOps") /\ reply' = reply
  /\ UNCHANGED <<inner, session, delta, storeVars, request, verdict, version, path,
                 tempDirs, snap, floor>>

\* traceCommit: self.get_ops_count(), a second hold of ops_count.
ReadOps(t) ==
  /\ pc[t] = "readOps"
  /\ version' = [version EXCEPT ![t] = opsCount]
  /\ Goto(t, "record")
  /\ UNCHANGED <<inner, session, delta, opsCount, storeVars, request, verdict, path,
                 tempDirs, snap, floor, reply>>

\* tx_store insert (submit directly, traceCommit through store_transaction),
\* then the guard goes out of scope.
StoreRecord(t) ==
  /\ pc[t] = "record"
  /\ Insert(request[t].txn, [status |-> verdict[t], version |-> version[t]])
  /\ ReleaseAnd(t, "ok")
  /\ UNCHANGED <<session, delta, opsCount, request, verdict, version, path, tempDirs,
                 snap, floor>>

-----------------------------------------------------------------------------
(* simulate and traceDry: a throwaway clone of the session.                *)

Live(kind) == {u \in Tasks : /\ Kind(u) = kind
                             /\ pc[u] \in {"acquire", "copy", "load", "cleanup"}}

\* A variant with a fixed name for each kind of temporary directory.
ClockReadingsFixed(t) ==
  IF Live(Kind(t)) = {} THEN {t} ELSE {path[u] : u \in Live(Kind(t))}

\* The readings of the clock that can name a directory of this kind: a new
\* one, or that of a dry run of the same kind still under way.
ClockReadings(t) ==
  {t} \cup IF SameTick THEN {path[u] : u \in Live(Kind(t))} ELSE {}

\* make_temp_session_path and create_dir_all, which accepts a directory that
\* is there already.
MakeTemp(t) ==
  /\ pc[t] = "mktemp"
  /\ \E p \in ClockReadings(t) :
       /\ path' = [path EXCEPT ![t] = p]
       /\ tempDirs' = IF tempDirs[p] = NoDir THEN [tempDirs EXCEPT ![p] = Torn]
                                             ELSE tempDirs
  /\ Goto(t, "acquire")
  /\ UNCHANGED <<inner, session, delta, opsCount, storeVars, request, verdict, version,
                 snap, floor, reply>>

\* There is no clock reading, or create_dir_all fails: nothing is made, and nothing
\* removed.
MakeTempFails(t) ==
  /\ IoMayFail
  /\ pc[t] = "mktemp"
  /\ reply' = [reply EXCEPT ![t] = "error"]
  /\ Goto(t, "done")
  /\ UNCHANGED <<inner, session, delta, opsCount, storeVars, request, verdict, version,
                 path, tempDirs, snap, floor>>

\* copy_session_file twice under the lock, released at the end of the block.
\* It fails when the directory is gone.
CopySession(t) ==
  /\ pc[t] = "copy"
  /\ inner' = NoTask
  /\ IF tempDirs[path[t]] = NoDir
     THEN /\ reply' = [reply EXCEPT ![t] = "error"]
          /\ Goto(t, "cleanup")
          /\ UNCHANGED tempDirs
     ELSE /\ tempDirs' = [tempDirs EXCEPT ![path[t]] = DeltaOnDisk]
          /\ Goto(t, "load")
          /\ UNCHANGED reply
  /\ UNCHANGED <<session, delta, opsCount, storeVars, request, verdict, version, path,
                 snap, floor>>

\* A copy fails although the directory is there, and may leave a part of the clone.
CopyFails(t) ==
  /\ IoMayFail
  /\ pc[t] = "copy"
  /\ tempDirs[path[t]] # NoDir
  /\ \E left \in {tempDirs[path[t]], Torn} : tempDirs' = [tempDirs EXCEPT ![path[t]] = left]
  /\ inner' = NoTask
  /\ reply' = [reply EXCEPT ![t] = "error"]
  /\ Goto(t, "cleanup")
  /\ UNCHANGED <<session, delta, opsCount, storeVars, request, verdict, version, path,
                 snap, floor>>

\* Session::load of the clone and the run on it.  Session::execute_transaction
\* saves into the clone's directory; trace_on only reads.
RunClone(t) ==
  LET clone == tempDirs[path[t]]
  IN  /\ pc[t] = "load"
      /\ clone \notin {NoDir, Torn}
      /\ snap' = [snap EXCEPT ![t] = clone]
      /\ \E v \in VmVerdicts(clone, request[t].txn) :
           /\ verdict' = [verdict EXCEPT ![t] = v]
           /\ tempDirs' =
                IF Kind(t) = "simulate" /\ v \in Kept
                THEN [tempDirs EXCEPT ![path[t]] =
                        Append(clone, [Change(t) EXCEPT !.status = v])]
                ELSE tempDirs
      /\ Goto(t, "cleanup")
      /\ UNCHANGED <<inner, session, delta, opsCount, storeVars, request, version, path,
                     floor, reply>>

\* The clone does not load, or its run returns an Err.
CloneFails(t) ==
  /\ pc[t] = "load"
  /\ reply' = [reply EXCEPT ![t] = "error"]
  /\ Goto(t, "cleanup")
  /\ UNCHANGED <<inner, session, delta, opsCount, storeVars, request, verdict, version,
                 path, tempDirs, snap, floor>>

\* A panic on the clone unwinds past remove_dir_all.
ClonePanics(t) ==
  /\ pc[t] = "load"
  /\ reply' = [reply EXCEPT ![t] = "panicked"]
  /\ Goto(t, "done")
  /\ UNCHANGED <<inner, session, delta, opsCount, storeVars, request, verdict, version,
                 path, tempDirs, snap, floor>>

\* A variant that returns the first error without removing the directory.
CleanupOnSuccess(t) ==
  /\ pc[t] = "cleanup"
  /\ tempDirs' = IF reply[t] = "error" THEN tempDirs
                                       ELSE [tempDirs EXCEPT ![path[t]] = NoDir]
  /\ reply' = [reply EXCEPT ![t] =
                 IF @ = "error" \/ tempDirs[path[t]] = NoDir THEN "error" ELSE "ok"]
  /\ Goto(t, "done")
  /\ UNCHANGED <<inner, session, delta, opsCount, storeVars, request, verdict, version,
                 path, snap, floor>>

\* remove_dir_all.  That somebody else has removed the directory is a failure too,
\* and turns a good result into an error.
Cleanup(t) ==
  /\ pc[t] = "cleanup"
  /\ tempDirs' = [tempDirs EXCEPT ![path[t]] = NoDir]
  /\ reply' = [reply EXCEPT ![t] =
                 IF @ = "error" \/ tempDirs[path[t]] = NoDir THEN "error" ELSE "ok"]
  /\ Goto(t, "done")
  /\ UNCHANGED <<inner, session, delta, opsCount, storeVars, request, verdict, version,
                 path, snap, floor>>

\* remove_dir_all fails with the directory still there, whole or in part ("failed to
\* remove temp session"): an error, of which a client hears only if there is no other.
CleanupFails(t) ==
  /\ IoMayFail
  /\ pc[t] = "cleanup"
  /\ tempDirs[path[t]] # NoDir
  /\ \E left \in {tempDirs[path[t]], Torn} : tempDirs' = [tempDirs EXCEPT ![path[t]] = left]
  /\ reply' = [reply EXCEPT ![t] = "left"]
  /\ Goto(t, "done")
  /\ UNCHANGED <<inner, session, delta, opsCount, storeVars, request, verdict, version,
                 path, snap, floor>>

-----------------------------------------------------------------------------
(* view, and every other read of the live session.                         *)

ReadSession(t) ==
  /\ pc[t] = "read"
  /\ snap' = [snap EXCEPT ![t] = session]
  /\ ReleaseAnd(t, "ok")
  /\ UNCHANGED <<session, delta, opsCount, storeVars, request, verdict, version, path,
                 tempDirs, floor>>

-----------------------------------------------------------------------------

Step(t) ==
  \/ Begin(t) \/ Acquire(t)
  \/ RunVm(t) \/ VmFails(t) \/ ApplyWriteSet(t) \/ FundAccount(t)
  \/ Persist(t) \/ PersistFails(t)
  \/ Bump(t) \/ IncrementOps(t) \/ ReadOps(t) \/ StoreRecord(t)
  \/ MakeTemp(t) \/ MakeTempFails(t) \/ CopySession(t) \/ CopyFails(t)
  \/ RunClone(t) \/ CloneFails(t) \/ ClonePanics(t) \/ Cleanup(t) \/ CleanupFails(t)
  \/ ReadSession(t)

AllDone == \A t \in Tasks : pc[t] = "done"

\* Every request answered: the server waits.
Quiet == AllDone /\ UNCHANGED vars

Next == (\E t \in Tasks : Step(t)) \/ Quiet

Spec == Init /\ [][Next]_vars

-----------------------------------------------------------------------------
(* Safety of the ledger.                                                   *)

\* No two records held at the same time have the same ledger version.
VersionsUnique ==
  \A g, h \in DOMAIN txMap :
    txMap[g].version = txMap[h].version => g = h

Positions(txn) == {i \in DOMAIN session : session[i].txn = txn}

\* A transaction changes the session at most once, however often and through
\* whichever endpoints it is sent: what the VM checked the sequence number
\* against is what the write set is applied to.
CommittedOnce ==
  \A i, j \in DOMAIN session :
    session[i].txn = session[j].txn /\ session[i].txn # NoTxn => i = j

\* Records of executed transactions are versioned in the order in which the
\* transactions changed the session.
VersionsFollowCommits ==
  \A g, h \in DOMAIN txMap :
    /\ txMap[g].status \in Kept /\ txMap[h].status \in Kept
    => \A i \in Positions(g), j \in Positions(h) :
         i < j => txMap[g].version < txMap[h].version

\* The record of a hash is only ever replaced by one with a later version.
RecordsMoveForward ==
  [][\A h \in DOMAIN txMap :
       h \in DOMAIN txMap' => /\ txMap[h].version <= txMap'[h].version
                              /\ txMap[h] # txMap'[h] =>
                                   txMap[h].version < txMap'[h].version]_vars

\* Once every request is answered, the ledger version is the number of requests
\* answered as having reached it: none lost, none counted twice.
Reached(t) == /\ reply[t] = "ok"
              /\ \/ Kind(t) \in {"submit", "mint"}
                 \/ Kind(t) = "traceCommit" /\ verdict[t] \in Kept

OpsAccounted == AllDone => opsCount = Cardinality({t \in Tasks : Reached(t)})

\* The version of a record counts every acknowledged change made up to the
\* transaction it records: "can't be reordered by a concurrent committing
\* request" (execute_transaction_traced_commit).
VersionCountsCommitsBefore ==
  \A h \in DOMAIN txMap : txMap[h].status \in Kept =>
    \A i \in Positions(h) :
      Cardinality({j \in 1 .. i : session[j].by \in Acked}) <= txMap[h].version

\* The same of the acknowledged transactions alone: mint is another matter, see
\* IncrementOps.
VersionCountsTransactionsBefore ==
  \A h \in DOMAIN txMap : txMap[h].status \in Kept =>
    \A i \in Positions(h) :
      Cardinality({j \in 1 .. i : session[j].txn # NoTxn /\ session[j].by \in Acked})
        <= txMap[h].version

\* A record reports what happened to its transaction: the outcome with which it
\* changed the session, or a rejection that some submit of it met.  A failed
\* save or a discarded trace leaves no record.
RecordsReportOutcomes ==
  \A h \in DOMAIN txMap :
    IF txMap[h].status \in Kept
    THEN \E i \in Positions(h) : session[i].status = txMap[h].status
    ELSE \E t \in Tasks : /\ Kind(t) = "submit" /\ request[t].txn = h
                         /\ verdict[t] = "discard" /\ reply[t] = "ok"

\* While nobody is in the session, what GET /transactions/by_hash answers for a
\* hash is the outcome of a committed transaction (README: "Committed
\* transaction by hash").
ByHashReportsCommit ==
  inner = NoTask =>
    \A h \in DOMAIN txMap :
      \E i \in Positions(h) : session[i].status = txMap[h].status

-----------------------------------------------------------------------------
(* What readers see.                                                       *)

\* What a dry run or a view ran on is a state the session was in: a beginning
\* of its changes, with those of every request acknowledged before the reader
\* began, never another dry run's, and of the same chain.
ReadersSeeSession ==
  \A t \in Tasks : snap[t] # NoSnap =>
    /\ IsPrefix(snap[t], session)
    /\ \A u \in floor[t] : \E i \in DOMAIN snap[t] : snap[t][i].by = u
    /\ OnExpectedChain(snap[t])

\* A dry run leaves no directory behind, at whichever step it fails and whoever
\* else uses its path: what is still there once all are answered is named by the
\* clock reading of a dry run whose VM panicked, or whose own removal of it failed.
ClonesRemoved ==
  AllDone => \A p \in Tasks : tempDirs[p] # NoDir =>
    \E t \in Tasks : path[t] = p /\ Kind(t) \in CloneKinds /\ reply[t] \in {"panicked", "left"}

\* A clone that is about to be loaded is there, for nobody removes the directory
\* of another, and whole, unless the session's own file was left torn by a save
\* that failed: no save was going on when it was copied.
SaveFailed(t) == Kind(t) \in {"submit", "traceCommit", "mint"} /\ reply[t] = "error"

ClonesLoad ==
  \A t \in Tasks : pc[t] = "load" =>
    /\ tempDirs[path[t]] # NoDir
    /\ tempDirs[path[t]] = Torn => \E u \in Tasks : SaveFailed(u)

-----------------------------------------------------------------------------
(* The session implements the ledger.  A request takes effect in the step  *)
(* that gives it its version for the record (Bump, ReadOps); until then    *)
(* its change, already in memory, is not in the history, and from then on  *)
(* its record, not yet stored, is held.                                    *)

Unversioned == {t \in Tasks :
  /\ inner = t
  /\ pc[t] \in {"persist", "bump", "increment", "readOps"}
  /\ Kind(t) = "mint" \/ verdict[t] \in Kept}

LedgerHistory == IF Unversioned = {} THEN session ELSE Front(session)

LedgerVersion == opsCount - Cardinality({t \in Tasks : pc[t] = "readOps"})

LedgerRecords ==
  IF \E t \in Tasks : pc[t] = "record"
  THEN LET t == CHOOSE t \in Tasks : pc[t] = "record"
       IN  ListAfter(request[t].txn, [status |-> verdict[t], version |-> version[t]])
  ELSE RecordList

LedgerUncounted ==
  Cardinality({t \in Tasks : Kind(t) = "mint" /\ pc[t] = "increment"})

ToLedger == INSTANCE Ledger WITH
  history <- LedgerHistory, version <- LedgerVersion, records <- LedgerRecords,
  uncounted <- LedgerUncounted, Clients <- Tasks, NoClient <- NoTask,
  Startup <- {<<>>, <<Override>>}

\* Executing, versioning and recording a transaction is one step to everybody
\* else; funding and counting a mint is two.
ImplementsLedger == ToLedger!Spec

=============================================================================
