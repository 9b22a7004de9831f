# movelite in TLA+

This directory specifies movelite, a local REST server around the Aptos
simulation session, in TLA+: modules that model its parts, TLC configurations
that check them on small instances, and TLAPS proofs that hold for every
instance. Paths are relative to the repository (`src/session_wrapper.rs` is the
Rust file; in `PROJECT.json` it is `src/src/session_wrapper.rs`).

## The system

| Part | State it keeps | Operations | Talks to |
|---|---|---|---|
| `TxStore` (`src/session_wrapper.rs:31-73`) | map from hash to record, queue of hashes | `insert`, `get` | owned by `SessionWrapper` behind `tx_store` |
| `SessionWrapper` (`:83-317`) | the session behind `inner`, the version counter `ops_count`, the record store | submit (`execute_and_record`), traced commit, `fund_account`, `increment_ops`, simulate and dry trace (on a copy of the files), views and other reads | called by the handlers, calls `Session` (aptos-core, patch 0002) and the file system |
| `create_session` (`:319-364`), `main.rs` | the session directory (`config.json`, `delta.json`), the chain id | load, init, fork, `--reset`, `--chain-id` | file system, remote node |
| HTTP server (`src/server.rs`) | permits of the concurrency limit, requests in flight, tasks on the blocking pool | 13 routes, time-out, limits, token check, ledger headers | `SessionWrapper` through `run_blocking` |
| `TracerMeter` (`src/trace.rs`) | frame stack, call tree | the callbacks of the VM's gas meter, `finish` | the Move VM (patch 0001), the base meter |
| `JsonBuilder` (`src/trace.rs:755-954`) | stack of open containers | visitor callbacks | a value |
| patches, `build.sh` | the aptos-core checkout | apply once, build | git, cargo |
| release scripts, npm launcher | what is published | build, publish per platform | npm |

Requests meet in the session: every handler that needs the VM runs a closure on
tokio's blocking pool (`run_blocking`), and these closures contend for `inner`,
then for `ops_count` and `tx_store`, each held for a statement. Two readers do
not take `inner`: `GET /transactions/by_hash` (only `tx_store`) and the ledger
headers of every response (only `ops_count`). Dry runs take it just to copy two
files. A panic in a closure unwinds through the locks, which are parking_lot's
and do not poison.

What is hard here, and what each part must get right:

- *Session.* Executing, versioning and recording must be one step to every holder
  of the session's lock although they are three under three locks (the headers and
  by_hash, which take another lock each, may read between two of them); a save may fail half way
  through; `mint` counts outside of the session lock; a dry run reads files
  while the truth is in memory. Correct means: a transaction commits at most
  once, versions are unique and follow the commits, records report outcomes and
  only move forward, readers see one state of the session, nothing is left
  behind, and everyone is answered.
- *Record store.* Map and queue must not drift apart; the oldest hash goes first.
- *Tracer.* It sees charges and returns, not calls: it must infer where natives
  end and what a failure left open. Correct means: the tree is the VM's tree of
  calls, with the gas, events, results and storage operations of each call.
- *Server.* The time-out answers the client and does not stop the task; permits
  are shared by all connections; some answers are put together from several
  looks at the session, and the headers from one after the answer. Correct
  means: an answer is true whatever the task still does, a hung VM call keeps
  nobody from an answer, headers are not older than the answer, and only
  authorised requests change the session.
- *Session directory.* Two files are rewritten in place; a server may be killed,
  or fail, between or within two writes, in the middle of a start or a reset.
  Correct means: acknowledged transactions survive as long as there is something
  to load, files of two sessions are never mixed, a start without `--reset`
  destroys nothing.
- *JsonBuilder.* It is told of containers on the way in only and must know when
  they are complete.

The hazards are listed at their lines in `PROJECT.json`, with the properties that
would catch them.

## Modules

| Module | What it is |
|---|---|
| `RecordWindow` | abstract: a bounded list of records, oldest first |
| `TxStore` | the map, the queue and the eviction loop; implements `RecordWindow` |
| `TxStoreProofs` | its theorems |
| `Ledger` | abstract: executing, versioning and recording a transaction is one step |
| `SessionWrapper` | concurrent requests over the session, the counter, the store and the files; contains `TxStore`; implements `Ledger` |
| `SessionWrapperProofs` | its theorems: types, lock, versions, commits, the authors of changes, records and the ledger version |
| `LedgerProofs` | that `SessionWrapper` implements `Ledger`; extends `SessionWrapperProofs` |
| `CloneProofs` | the theorems on dry runs and readers; extends `SessionWrapperProofs` |
| `Tracer` | the gas meter that rebuilds the call tree, next to the VM it listens to |
| `TracerProofs` | its theorems |
| `JsonBuilder` | decoding a value for the trace, next to the VM's walk over it |
| `JsonBuilderProofs` | its theorems |
| `Server` | a request's life through the layers of the HTTP server; extends `SessionWrapper`, whose tasks are its requests' closures |
| `ServerProofs` | its theorems, and the session's behind the server; extends `CloneProofs` and `LedgerProofs` |
| `SessionDir` | the session directory over the lives of several servers; implements `DurableSession` |
| `SessionDirProofs` | its theorems |
| `DurableSession` | abstract: one log of changes, saved as a whole with each acknowledgement |
| `MCTxStore`, `MCSessionWrapper`, `MCTracer`, `MCJsonBuilder`, `MCServer`, `MCSessionDir` | instances for TLC |

### TxStore

`txMap` and `txOrder` are `map` and `order`. `Insert` is the whole of `insert`:
the map's insert (`Written`), the push of a fresh hash (`Queued`), and the
eviction loop, which pops `Evictions` hashes, the least number after which the
map fits or the queue is empty.

### SessionWrapper

A task is one closure on the blocking pool, with its place in the code in `pc`.
`inner` holds the task that has the session lock; `opsCount`, `txMap` and
`txOrder` are used in one step each because their locks are held for one
statement. `session` is the sequence of changes applied in memory, `delta` what
`delta.json` has (`Torn` when a save failed in the middle). Steps:

| Request | Steps |
|---|---|
| submit | `Begin Acquire RunVm ApplyWriteSet Persist Bump StoreRecord` |
| trace `?commit=true` | `Begin Acquire RunVm ApplyWriteSet Persist IncrementOps ReadOps StoreRecord`, or an answer at once when discarded |
| mint | `Begin Acquire FundAccount Persist` (lock released) `IncrementOps` |
| simulate, dry trace | `Begin MakeTemp Acquire CopySession` (lock released) `RunClone Cleanup` |
| view | `Begin Acquire ReadSession` |

`VmFails`, `PersistFails`, `MakeTempFails`, `CopyFails`, `CloneFails`,
`ClonePanics` and `CleanupFails` are the error paths: an `Err` or a panic of the VM,
a save that fails, a directory that is not made, a copy that fails and may leave a
part of a file, a clone that does not load or run, a panic that unwinds past
`remove_dir_all`, a `remove_dir_all` that fails and leaves the directory, or what
it has not removed yet. The last is an error to the client whatever the dry run came
to, though it hears of the directory only when there is no other error. `GET by_hash` and the headers
read one variable in one step; they need no action, since what they answer is
the value the invariants speak of.

External, and modelled by how the code uses it: the VM rejects a transaction
whose sequence number or chain does not fit, and otherwise may do anything
(`VmVerdicts`); the write set of a discarded transaction is empty; a save
rewrites the file in place.

Two switches of the environment are off where they would break what a run is
about: `ChainOverride` (`--chain-id` was given) is on in `chain_override` only,
`SameTick` (two clock readings may be equal) in `progress` only; see the known
disagreements below. `IoMayFail` lets the file operations of a dry run and the saves
fail.

### Ledger

What clients may rely on, and what they may not: `Commit` and `Discard` are one
step; a failed save leaves a change without version and record
(`CommitUnrecorded`); funding an account and counting it are two steps (`Fund`,
`CountFund`). `ImplementsLedger` maps a request's effect to the step in which it
gets the version of its record (`Bump`, `ReadOps`): before it, its change is
not in the history yet, after it, its record is already held. The one step is
one to those who take the session's lock, as every reader of the session does.
A header or a by_hash that is read between the version and `StoreRecord` sees the
version without the record; what may be expected of these two is said by
`HeadersReflectAnswer` and `RecordsMoveForward` instead.

### Tracer

A frame is a number, its place in `nodes`; the tree is in the nodes' `children`.
`frames` is the tracer's stack. A call has the number of its frame, but for the
interpreter's entries: that of the payload is call 1, the others are call 0. Beside it runs the VM, external: its own call
stack `running`, who called whom (`caller`), what each call spent (`spent`), which
storage operations it did (`performed`), and the calls that were under way when
an event was emitted (`emitters`).
Each action is one callback: the VM's step and all the tracer does about it. The
VM tells the meter of entries, charges and Move returns; not of native frames,
aborts or unwinding. The base meter pays a charge or is drained by it. The 23
callbacks of `charge_active!` are one action, as are `charge_call` and
`charge_call_generic`; the delegated ones are `DelegateOnly`.

Which interpreter entries run on this meter is the VM's business: `Entries` is
any sequence with the payload in it. The run takes prologue, payload and
epilogue, as patch 0001 says of `record_entry_args`. For each of them the tracer has
the root frame only (`ShownAs`): the one callback that tells them apart is
`record_entry_args`. So the gas and the storage operations of the prologue and the
epilogue, and the calls they make, are the root's, and the properties say so rather
than pretend that they are the payload's; and the root's result is written by every
entry that returns, the prologue first. `ResultIffReturned` therefore says of the
root only that some entry has returned. A reader of a trace cannot tell by the root's
result whether the payload did.

A failure before the payload is begun discards the transaction, except that one
between the prologue and it (the function is not found, or does not take its
arguments) may be kept (`Failing`). A payload of which the tracer knows no
function (a multisig transaction) is not modelled: `Root` is a function or the
script.

### JsonBuilder

`stack`, `root` and `firstType` are the builder's fields; `unvisited` is the rest
of the VM's walk over `value`, depth first: the parts still to visit at each level,
outermost first. The VM may break it off (`VisitFails`). Each visitor method is an action: `VisitLeaf` for those that add
a text, `VisitContainer` for structs, closures and vectors, `VisitRef`. `Add` is
the loop of `add`: all containers that one more item completes are folded into
the innermost that it does not. `Decode` is the end of `decode_value`.

`Shown` is what each value should be shown as. `ShownAssumption` fixes it one
level at a time: a value is shown under its own type, as a JSON of its shape
with what its parts are shown as in their places; a reference is shown as what it
refers to. The run computes it by recursion over the value (`MCShown`).

### Server

`Server` extends `SessionWrapper` and puts each of its tasks into a request. The
layers of `run`, outermost first, are `phase`: a request is *queued* for a permit
(`Arrive`), *handling* once it has one (`Admit`), and *sent* when its answer has
passed the headers (`Respond`, part of `Answer` and `TimeOut`).

- `Admit` runs the handler up to its first wait: the checks of the route in
  their order (`Checks`), of which the first that fails decides the status, and
  the whole of the handlers that do not wait (`AnsweredInline`).
- `Start` is a thread of the blocking pool taking the closure up, and from there
  `Work`, `Look` and `LookAgain` are the steps of `SessionWrapper`. `LookAgain` is
  a closure that locks the session more than once (`get_account`,
  `get_account_resources`). Nothing in the layers stops a closure: after
  `TimeOut` it is still started, if it was not, and goes on.
- `Tick` is time, `Timeout` ticks being the 30 s. `age` counts those since
  `Timeout::call`, which is reached with the permit in hand: tower's
  `Timeout::poll_ready` waits for `ConcurrencyLimit`'s and starts no clock.
  `waited` counts all of them.

A status 200 stands for whatever the handler makes of its closure's outcome, a
404 or a rejected transaction included. What it may make of it is `Outcomes`: the
handlers of a module and of a trace render what a closure returned and may fail at
that (`Rendering`), so that a 500 may come after a traced commit that succeeded;
a view that fails is a 400, one that panics a 500. `AnswersAreTrue` says what a client
may conclude all the same. It says nothing of a 408 whose closure fails afterwards:
a failed save leaves a change of which no record tells. Taken as given: what the server does by
itself takes no time next to the budget, a request's body comes with it, clients
do not hang up.

### SessionDir

One server at a time is started on a directory (`Start`), with any `--fork-url`,
`--chain-id` and `--reset`, and each statement of `create_session` that touches
the directory is a step. `config` and `delta` are the files: the content, `Absent`
or `Torn`. `made` marks which start made a session. While serving, `Execute`,
`SaveConfig` and `SaveDelta` are the tail of a commit (patch 0002); requests are
one after the other, as the session's lock makes them. A transaction may be
discarded, as one that is in the session already always is: it changes nothing, but
`execute_transaction` counts it and saves both files as for any other. `Crash` may come at any
moment, `InitFails`, `ResetFails` and `SaveFails` are the error paths, and each
leaves the file being written as it was, or torn. That `Session::init` writes
`config.json` first, like every save, is assumed: it is in aptos-core. The
directory of a server without `--session-dir` is one that nothing is started on
again.

`ops_count` and the record store are not in the files: after a restart versions
start at 0 and by_hash knows nothing. The code promises nothing else.

### DurableSession

What the two files amount to for whoever starts servers on the directory: one log,
`saved` as a whole in the step that acknowledges its last change (`Acknowledge`).
Every transaction is saved, a discarded one too, and `pending` is the one whose save
is under way. A save that is cut short loses the log (`FailSave`, `Stop`), one that
was saved before and is being saved again included, and so does a reset; between two
transactions nothing loses it. The next save may make it readable again, as it once
was saved (`Mend`: a torn `config.json` is rewritten while `delta.json` is intact).
That never brings back less than what was acknowledged, and a new log begins only
where nothing was acknowledged (`Found`). `ImplementsDurable` maps `saved` to what
`delta.json` has while both files load, `served` to the changes in memory, and
`pending` to the transaction of the save.

## What TLC checks

| Run | Instance | Shows |
|---|---|---|
| `tx_store` | 4 hashes, 2 records, capacity 3 | `QueueMatchesMap`; `ImplementsWindow` |
| `commits` | 3 tasks, any mix of submit, traced commit, mint; 3 transactions (two of one sender in sequence); saves may fail; capacity 2 | `TypeOK`, `VersionsUnique`, `CommittedOnce`, `VersionsFollowCommits`, `VersionCountsTransactionsBefore`, `RecordsReportOutcomes`, `OpsAccounted`, `RecordsMoveForward`, `ImplementsLedger` |
| `clones` | 3 tasks: submit, mint, simulate, dry trace, view; saves may fail | `ReadersSeeSession`, `ClonesLoad` |
| `server` | 3 requests: submit, mint, account, by_hash; 2 permits, 2 threads, a budget of one tick | `ServerTypeOK`, `HeadersReflectAnswer`, `LooksAdvance`, `WaitBounded` |
| `progress` | 2 requests: submit, traced commit, mint, simulate, resources, view, module, by_hash, two without a token; 1 permit, 2 threads; every file operation may fail, two simulations may read one clock value; fairness | `AnswersAreTrue`, `ChangesAuthorized`, `ClonesRemoved`, `EveryRequestSent`, `EveryClosureEnds` |
| `session_dir` | 4 starts, 3 transactions, 3 operations, genesis and one fork, chain ids none, 0 and 27 | `NothingAckedLost`, `DiskIsOneSession`, `CleanStopLoads`, `ResetStartsAfresh`, `ServedChainIsTheSessions`, `StartSparesTheDirectory`, `ImplementsDurable` |
| `tracer` | 3 entries, 4 calls, 2 events, 1 storage operation a call, budget 4, charges of 1 and 2 | `TypeOK`, `FramesFollowVm`, `TreeIsCallTree`, `EventsWithTheirCaller`, `RootArgsAreUsers`, `AbortStackHasOpenCalls`, `ResultIffReturned`, `GasOfItsCall`, `StorageOfItsCall` |
| `json` | all values of three levels in which a part is alone or next to a leaf | `SlotsMatchWalk`, `DecodesTheValue` |

Four runs end in a violation: each states what a comment or the README of the
repository says and TLC finds the behaviour in which the code does otherwise.

| Run | Property | What happens |
|---|---|---|
| `mint_reorders` | `VersionCountsCommitsBefore` | mint has funded and released the session; a submit commits, takes version 1 and is recorded; only then mint counts. The record's version leaves out an earlier change that was acknowledged. |
| `retry_records` | `ByHashReportsCommit` | a discarded transaction is recorded, and by_hash answers for it; re-sending a committed transaction replaces its record by that of the rejection. |
| `chain_override` | `ReadersSeeSession` | with `--chain-id` a dry run before the first save runs on the chain of the files. |
| `queue_timeout` | `BudgetCoversQueue` | a request waits for a permit as long as a hung one keeps it, one budget, and only then its own begins; the comment at `src/server.rs:66` counts both as one. |

Three more disagreements were found on the way and are kept out of the models'
properties, which say what does hold:

- two dry runs of one kind that read the same nanosecond share a directory
  (with `SameTick = TRUE` in `clones.cfg`, `ClonesLoad` and `ReadersSeeSession`
  fail; `ClonesRemoved` holds, and is checked with it in `progress`);
- a native that exhausts the budget shows the gas it asked for, not what was
  left (`src/trace.rs:330`); `GasOfItsCall` excepts it, and nothing else;
- a native that aborts is charged for first, so folded into its caller, and is
  not on the abort stack (`src/trace.rs:491`); `AbortStackHasOpenCalls` excepts it,
  and no Move call.

Why the bounds are enough. Three tasks give every pair of concurrent requests a
third that observes or retries; two consecutive transactions of one sender and
one of another give conflicts, gaps in the sequence numbers, retries and
independence. The capacity of 2 is below the number of transactions, so
evictions happen in `commits`. In the tracer four calls are what an event needs
(payload, user function, `0x1::event::emit`, the native) and give every shape of
siblings below that; a budget of 4 pays for each of them once, and a charge of 2
can fail with gas left. Calls return nothing in the run, which is the case in which
`()` could be taken for no result; what the values of a return are makes no
difference to any property (the theorems are for all). Three requests over two
permits make one of them queue while two contend; with one permit two simulations
still overlap and share a directory, once the first has had its 408; a closure that outlives its 408 still holds a thread and the
lock while the third is served, which is the case the server's properties are
about; more permits only make longer queues. Four starts allow a session to be
made, cut short, resumed and reset, twice; three transactions that one is
acknowledged, the save of the next is cut short, and the third repairs it. Three levels of
values let one item complete two containers at once, and a reference be nested
in both; deeper values repeat that fold. Symmetry over tasks is used where no liveness is
checked: tasks are interchangeable, `CHOOSE` never picks a task among several.

Fairness (`progress`). `ServerFairness` is all that `EveryRequestSent` needs: the
runtime polls what is ready (weak fairness of `Layers`, for each request) and
time passes (of `Tick`). Nothing is assumed of closures: a VM call may hang for
ever with the session locked, and still each request is answered. `WaitBounded`
says how late: one budget for each round of `Limit` requests.

`EveryClosureEnds` has a premise of its own, weak fairness of each closure's next
step: VM work ends or panics, the pool runs what it is given, and a waiting
thread gets a free parking_lot mutex. Weak fairness is not enough for a mutex
that others take for ever, but each closure takes it a bounded number of times
and the closures are finitely many.

## What is proved

By TLAPS, for all values of the constants under the named assumptions of the
modules, which TLC evaluates in every run: finitely many tasks, `NoTask`, `NoTxn`
and the marks `Torn`, `NoDir`, `NoSnap` and `Absent` outside of the sets they are
told apart from (`TaskAssumption`, `TxnAssumption`, `MarkAssumption`,
`FileAssumption`), the parts of a value are values and a reference has one
(`ValueAssumption`), what a value should be shown as is given by what its parts
are (`ShownAssumption`), capacities and limits natural numbers, the latter positive. A
hypothesis of a theorem beyond these is in its row.

| Theorem | Says |
|---|---|
| `StoreWellFormed` | `TxSpec => [](TxTypeOK /\ QueueMatchesMap)` |
| `StoreImplementsWindow` | `TxSpec => ImplementsWindow`: the pair of structures implements the bounded list |
| `TypeCorrect` | `Spec => []TypeOK` for the session wrapper |
| `VersionsAreUnique` | `Spec => []VersionsUnique` |
| `RecordsAdvance` | `Spec => RecordsMoveForward` |
| `CommitsAreUnique` | `Spec => []CommittedOnce` |
| `RecordsAreOutcomes` | `Spec => []RecordsReportOutcomes` |
| `VersionsInCommitOrder` | `Spec => []VersionsFollowCommits` |
| `EveryOpAccounted` | `Spec => []OpsAccounted` |
| `VersionsCountBefore` | `Spec => []VersionCountsTransactionsBefore` |
| `SessionImplementsLedger` | `Spec => ImplementsLedger`: every step of a request is a step of `Ledger`, or none |
| `NothingLeftBehind` | `Spec => []ClonesRemoved` |
| `ClonesAreWhole` | `Spec => []ClonesLoad`, if not `SameTick` |
| `ReadersSeeASession` | `Spec => []ReadersSeeSession`, if neither `SameTick` nor `ChainOverride` |
| `ServerTypeCorrect` | `ServerSpec => []ServerTypeOK` |
| `NobodyWaitsLonger` | `ServerSpec => []WaitBounded` |
| `OnlyAuthorizedChanges` | `ServerSpec => []ChangesAuthorized` |
| `LooksGoForward` | `ServerSpec => []LooksAdvance` |
| `HeadersNotOlder` | `ServerSpec => []HeadersReflectAnswer` |
| `AnswersTellTheTruth` | `ServerSpec => []AnswersAreTrue`: what a 200, 400, 408 or 500 lets its client conclude, if the store has room for every transaction |
| `ServerKeepsLedgerSafe` | `ServerSpec => [](CommittedOnce /\ RecordsReportOutcomes /\ VersionsUnique /\ VersionsFollowCommits /\ VersionCountsTransactionsBefore)` |
| `ServerImplementsLedger` | `ServerSpec => ImplementsLedger`: the refinement holds behind the server too |
| `ServerLeavesNothing` | `ServerSpec => []ClonesRemoved`: also when a closure outlives its 408 |
| `ServerReadersSeeASession` | `ServerSpec => [](ClonesLoad /\ ReadersSeeSession)`, if neither `SameTick` nor `ChainOverride` |
| `DirTypeCorrect` | `Spec => []TypeOK` for the session directory |
| `OneSession` | `Spec => []DiskIsOneSession` |
| `AcknowledgedSurvive` | `Spec => []NothingAckedLost` |
| `ChainIdHeld` | `Spec => []ServedChainIsTheSessions` |
| `CleanStops` | `Spec => []CleanStopLoads` |
| `ResetsStartAfresh` | `Spec => []ResetStartsAfresh` |
| `StartsSpare` | `Spec => StartSparesTheDirectory` |
| `DirectoryIsDurable` | `Spec => ImplementsDurable`: the two files implement one durable log, which only a save under way or a reset may lose |
| `TracerTyped` | `Spec => []TypeOK` for the tracer: "frames is never empty" |
| `FramesAreTheStack` | `Spec => []FramesFollowVm` |
| `TreeIsTheCalls` | `Spec => []TreeIsCallTree` |
| `ResultsAreReturns` | `Spec => []ResultIffReturned`: exact for every Move call that is no entry; the root shows that an entry has returned |
| `GasIsTheCalls` | `Spec => []GasOfItsCall` |
| `EventsAreTheCallers` | `Spec => []EventsWithTheirCaller` |
| `StorageIsTheCalls` | `Spec => []StorageOfItsCall` |
| `ArgsAreThePayloads` | `Spec => []RootArgsAreUsers` |
| `AbortStackIsTheStack` | `Spec => []AbortStackHasOpenCalls` |
| `SlotsAreTheWalk` | `Spec => []SlotsMatchWalk`, for values of any width and depth |
| `ValuesAreDecoded` | `Spec => []DecodesTheValue`, likewise |

The hypotheses are of the environment and none is for the prover's sake: with
`SameTick` or `ChainOverride` TLC finds the property violated (`clones.cfg` with
`SameTick = TRUE`; the run `chain_override`), and a store that is full gives up
records, so that a transaction answered with success need not be found any more.

Every inductive invariant below was checked by TLC on the run of its component
before it was proved. Arguments:

- *Store.* `QueueMatchesMap` is inductive with the types. An insert evicts
  nothing, or exactly the head of the queue (`InsertShape`), which with a queue
  without duplicates is the head of the list (`InsertChangesList`).
- *Types.* `KindInv` says which kinds of request reach which place of the code;
  without it the transaction of a mint could be stored. The store's part comes
  from `InsertKeepsStore`, used through an instance of `TxStoreProofs`.
- *Lock.* `LockInv`: a task is in a critical section exactly when it holds
  `inner`. It is inductive with `KindInv`, as `increment` is inside for a traced
  commit and outside for mint.
- *Versions.* `VersionInv`: every held record is versioned at most `opsCount`;
  below it while a task is between `increment_ops` and `get_ops_count`; below
  the version of a task that is about to store one. Mutual exclusion makes that
  task the only one, and `mint`'s unlocked bumps only raise the counter.
- *Commits.* `CommitInv`: the sequence number of every committed transaction is
  below what the session expects next of its sender, and that of a transaction
  the VM has accepted and not applied is what the session expects: nobody else
  can append in between.
- *Authors.* What the rest about the session stands on is `AuthorInv`: each change of
  the session has one author, which has got past making it, and the change of
  the task that holds the lock is the last one. So the record a task stores is of
  the last change (`RecordedChange`), which gives the outcomes and the order of
  the versions. `HistoryInv` is the conjunction of everything so far.
- *Counting.* `CountInv`: the counter is the number of tasks that have counted
  (`Counted`), one by one. That a version counts the transactions before it is
  then a comparison of two finite sets: changes map to their authors, nobody has
  two (`BeforeBound`), and each author is counted before the version is taken
  (`CoverInv`, inductive because the counting is under the lock for
  transactions; for mint it is not, see `mint_reorders`).
- *Ledger.* The abstract history, version, records and uncounted mints are read
  off the places of the requests; at most one request has a change that is not in
  the history, and it holds the lock (`PendingInSession`). One lemma per variable
  says how a step moves it; `EffectStep`, `ChangeStep`, `SaveStep` and `CountStep`
  put them together for the steps that move any, `QuietStep` is all others.
- *Dry runs.* `LeftoverInv`: whoever is named by a directory that exists is still
  under way with it, or has panicked or failed to remove it. `CloneInv`: paths are one's own (without
  `SameTick`), a clone under way has its directory, and it is torn only if a save
  of the session failed. `SavedInv`: `delta.json`, where it can be read, is a
  beginning of the session with all that was saved; `ReaderInv`: so is what a
  reader has seen, and it has what was acknowledged when it began.
- *Server, types.* A step of the server is a step of the session, a look that goes
  on, or nothing to the session (`TaskSteps`), so the invariants of the session
  hold of the server too. `LayersInv` adds that nobody is queued twice, without
  which the queue would not be the set of waiting requests.
- *Server, waiting.* `WaitInv` counts: behind a request that has waited for more
  than m budgets, (m + 1) times `Limit` others have been sent or hold their
  permits since the last budget began (`Passed`), because no tick passes while a
  permit is free. With finitely many requests its turn comes (`TurnComes`).
- *Server, access.* `AccessInv`: how far a request is with its checks; one that
  failed a check, or needs no closure, never has one, not even after a 408. The
  author of a change (`AuthorInv`) is a closure, so its call failed no check, and
  where the token is asked for it is among the checks (`TokenChecked`).
- *Server, looks.* `LookInv` adds to the property that what a request was promised
  to see was acknowledged: the looks are of a session that only grows, each under
  the lock, when no author but an uncounted mint is unfinished
  (`NothingUnderWay`).
- *Server, answers.* `AnswerInv`: no answer is changed by what a closure does
  later, except that one answered 408 may have any outcome; and a 500 after a success
  is of a route that renders. `ReplyInv`: a request
  that succeeded has left its record or its change; a record stays because the
  store has room (`RecordsStay`). `HeaderInv`: the changes an answer knows of map
  one to one into `Counted` (`KnownCounted`), and do not become more after it is
  sent (`KnownStays`).
- *Server, session.* No layer touches the session, so its invariants (`SessionInv`)
  and its refinement need one step more than they have in `SessionWrapper`: a look
  that goes on, which gives the lock back and starts over (`LookReleases`,
  `LookKeepsLedger`).
- *Directory.* `PlaceInv` says what the place of a start says of the two files.
  `SessionInv`: every intact file is of the session that is served or of one with
  the other file, and `config.json`, saved first, never counts fewer operations
  than `delta.json` has changes. `AckInv`: what is acknowledged is in memory and
  in `delta.json` if that is intact, and a session is only made where nothing was.
  `ChainInv` says of the chain id of both what the property says of the served
  one; `CleanInv` that only a write that was cut short, a reset or a start under
  way leaves a `config.json` that does not load.
- *Directory, as a log.* `LogInv`: an intact `delta.json` has a beginning of the
  changes in memory. So what a repaired `config.json` makes readable again is a
  beginning of what is served, with what was acknowledged (`AckInv`). Only a save
  under way touches the files of a session that is served (`CutShortLog`).

- *Tracer, frames.* `StackInv`: in an entry the tracer's frames are those of the
  VM's calls (`Open`); they are a path from the root, in the order of the calls; and whatever
  was called after a frame was pushed was called by it or later (`PathInv`). Each
  callback has a lemma that says what it changes of which node (`...Step`).
- *Tracer, nodes.* `TreeInv` says of the tree, without recursion, that the children
  of a call are the calls it made that are over (`Over`), in order. A frame that is
  popped was called after all its siblings, by `PathInv` (`LatestOver`); `finish`
  pops the whole path at once (`TreeCollapsed`). `ResultInv` says in addition that an
  entry was begun while a call is under way, so that the root has its result from
  the moment the first is left (`RootLeft`, `ResultReturned`). `GasInv`, `StorageInv`
  and `RootArgsInv` are the properties while there is a tree; `EventsInv` adds that
  no node has an event that was not emitted, so that a new one comes last and is
  nowhere else.
- *Tracer, aborts.* `AbortInv`: a failure leaves the VM's calls in the frames, or all
  but the native on top that was charged for (`LeftOpen`), which `finish` reverses
  (`AbortAnswered`); a native that has run out of gas has emptied the balance, so
  that it is charged nothing more.

- *Decoding.* `JsonInv`: while the walk is on, nothing is complete, there is one
  level more than open containers, and container i waits for the parts left in
  level i + 1, and for the next container. Visiting a leaf completes containers
  outwards until one waits for more than one item, and the walk goes back outwards
  until a level has a part left; by the invariant these are the same
  (`LevelsDone`). So `add` takes off as many containers as the walk leaves levels
  (`AddMatches`), which is all that each visit needs. That the last item of a
  sequence with a property exists (`LevelIs`, `IncompleteIs`) rests on the
  well-foundedness of the natural numbers (`Least`).
- *Decoded values.* `DecodingInv`: there are targets `T`, what each open container
  will be. The items it has are the first of its target, the next one is the target
  of the container inside it, and the last ones are what the parts left in its level
  are shown as (`Becomes`); the target of the outermost is what the value is shown
  as. An item that completes a container makes it its target (`Completed`), and so
  all that `add` folds is the target of the last one it completes (`FoldedIs`,
  whose recursive function is evaluated by looking at the innermost place where it
  could differ). No induction over the value is needed: `Shown` is given one level
  at a time, and each visit needs only the level of its own part.

Proved only: `TypeOK` of the session directory, and what the three theorems
`ServerKeepsLedgerSafe`, `ServerImplementsLedger` and `ServerReadersSeeASession` say
behind the server; TLC checks the same properties on `SessionWrapper` alone, in
`commits` and `clones`.

Model-checked only: the liveness properties `EveryRequestSent` and
`EveryClosureEnds`, which need fairness and `ENABLED`.

## Not modelled

Left out, and why:

- two servers on one directory: nothing in the code detects it, each overwrites
  what the other saved, so there is no property that holds;
- `build.sh`, the release scripts and the npm launcher: commands run by hand one
  after the other, whose state is git's, cargo's and npm's;
- the VM, the framework and aptos-core's `Session` but for the patches
  (external, modelled by how the code uses them);
- the contents of responses and log lines, the parsing of addresses, type tags,
  function names and view arguments, the decoding of event payloads, the argument
  parser: pure conversions.
