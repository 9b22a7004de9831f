------------------------------ MODULE SessionDir ------------------------------
(***************************************************************************)
(* The session directory over the lives of the servers that are started on *)
(* it, one at a time: create_session of src/src/session_wrapper.rs with    *)
(* the options of src/src/main.rs, and the saves of                        *)
(* patches/aptos-core/0002.                                                *)
(*                                                                         *)
(* A session is two files.  config.json says what it is based on and       *)
(* counts its operations, delta.json has what changed since.  Each save    *)
(* rewrites config.json, then delta.json, in place: a server that is       *)
(* killed, or whose write fails, leaves the file it was writing as it was  *)
(* or torn.                                                                *)
(***************************************************************************)
EXTENDS Naturals, Sequences, FiniteSets, SequencesExt

CONSTANTS
  Txns,          \* transactions clients send, and send again
  Genesis,       \* the base of a session that is not a fork
  Forks,         \* what --fork-url can name
  BaseChain,     \* the chain id of each base
  ChainIds,      \* the arguments of --chain-id in play
  NoChain,       \* --chain-id is not given
  Absent, Torn,  \* a file that is not there, or cannot be loaded
  MaxStarts,     \* bound: how often a server is started
  MaxOps         \* bound: the operations counted in config.json

Bases == {Genesis} \cup Forks
Options == [base : Bases, chain : ChainIds \cup {NoChain}, reset : BOOLEAN]

ASSUME BaseAssumption == Genesis \notin Forks /\ BaseChain \in [Bases -> Nat \ {0}]
ASSUME ChainAssumption == ChainIds \subseteq Nat /\ NoChain \notin Nat

Configs == [made : 0 .. MaxStarts, base : Bases, ops : Nat]
Deltas == [made : 0 .. MaxStarts, chain : Nat, changes : Seq(Txns)]

ASSUME FileAssumption ==
  Absent # Torn /\ \A file \in {Absent, Torn} : file \notin Configs \cup Deltas
ASSUME BoundAssumption == Txns # {} /\ MaxStarts \in Nat

VARIABLES
  exists,    \* the directory is there
  foreign,   \* it holds something that is not movelite's
  config,    \* config.json
  delta,     \* delta.json
  pc,        \* where the server is, "down" when there is none
  opts,      \* the options it was started with
  mem,       \* the session in its memory
  txn,       \* the transaction it is saving
  served,    \* the chain id it reports: SessionWrapper.chain_id
  failure,   \* why the last start failed
  starts,    \* how many there were
  acked,     \* transactions in the session whose save was completed, and so
             \* acknowledged, since the last reset
  ackChain,  \* the chain under which the last save was completed
  cut        \* a save was cut short since the last one that was not

diskVars == <<exists, foreign, config, delta>>
ghostVars == <<acked, ackChain, cut>>
vars == <<diskVars, pc, opts, mem, txn, served, failure, starts, ghostVars>>

-----------------------------------------------------------------------------

Sessions == [made : 0 .. MaxStarts, base : Bases, chain : Nat, changes : Seq(Txns),
             ops : Nat]

ConfigOf(s) == [made |-> s.made, base |-> s.base, ops |-> s.ops]
DeltaOf(s) == [made |-> s.made, chain |-> s.chain, changes |-> s.changes]

Intact(file) == file \notin {Absent, Torn}

Loadable == Intact(config) /\ Intact(delta)

\* Session::load.
Loaded == [made |-> config.made, base |-> config.base, ops |-> config.ops,
           chain |-> delta.chain, changes |-> delta.changes]

\* A session that has just been made.
Fresh == [made |-> starts, base |-> opts.base, ops |-> 0,
          chain |-> BaseChain[opts.base], changes |-> <<>>]

Places == {"down", "reset", "open", "initConfig", "initDelta", "chain", "up",
           "saveConfig", "saveDelta"}

Failures == {"none", "io", "cannotLoad", "notASession", "chainIdZero"}

TypeOK ==
  /\ {exists, foreign, cut} \subseteq BOOLEAN
  /\ exists \/ (~foreign /\ config = Absent /\ delta = Absent)
  /\ config \in Configs \cup {Absent, Torn}
  /\ delta \in Deltas \cup {Absent, Torn}
  /\ pc \in Places
  /\ opts \in Options
  /\ mem \in Sessions
  /\ txn \in Txns
  /\ served \in Nat
  /\ failure \in Failures
  /\ starts \in 0 .. MaxStarts
  /\ acked \subseteq Txns
  /\ ackChain \in Nat \cup {NoChain}

\* The directory may be there, empty or with somebody else's files.
Init ==
  /\ exists \in BOOLEAN
  /\ foreign \in BOOLEAN /\ (foreign => exists)
  /\ config = Absent /\ delta = Absent
  /\ pc = "down"
  /\ opts = [base |-> Genesis, chain |-> NoChain, reset |-> FALSE]
  /\ starts = 0
  /\ mem = [made |-> 0, base |-> Genesis, chain |-> 0, changes |-> <<>>, ops |-> 0]
  /\ txn \in {CHOOSE x \in Txns : TRUE}
  /\ served = 0
  /\ failure = "none"
  /\ acked = {} /\ ackChain = NoChain /\ cut = FALSE

-----------------------------------------------------------------------------
(* Starting.                                                               *)

\* movelite start, with some options.
Start ==
  /\ pc = "down"
  /\ starts < MaxStarts
  /\ \E o \in Options :
       /\ opts' = o
       /\ pc' = IF o.reset /\ exists THEN "reset" ELSE "open"
  /\ starts' = starts + 1
  /\ failure' = "none"
  /\ UNCHANGED <<diskVars, mem, txn, served, ghostVars>>

StartFails(reason) ==
  /\ pc' = "down"
  /\ failure' = reason

\* A variant that removes the session's files and nothing else.
RemoveEntrySparing ==
  /\ pc = "reset"
  /\ config' = Absent /\ delta' = Absent
  /\ pc' = "open"
  /\ UNCHANGED <<exists, foreign>>
  /\ acked' = {} /\ ackChain' = NoChain
  /\ UNCHANGED <<opts, mem, txn, served, failure, starts, cut>>

\* std::fs::remove_dir_all removes the entries, in the order the file system
\* lists them, and then the directory.
RemoveEntry ==
  /\ pc = "reset"
  /\ \/ config # Absent /\ config' = Absent /\ UNCHANGED <<exists, foreign, delta, pc>>
     \/ delta # Absent /\ delta' = Absent /\ UNCHANGED <<exists, foreign, config, pc>>
     \/ foreign /\ foreign' = FALSE /\ UNCHANGED <<exists, config, delta, pc>>
     \/ /\ config = Absent /\ delta = Absent /\ ~foreign
        /\ exists' = FALSE /\ pc' = "open"
        /\ UNCHANGED <<foreign, config, delta>>
  /\ acked' = {} /\ ackChain' = NoChain
  /\ UNCHANGED <<opts, mem, txn, served, failure, starts, cut>>

ResetFails ==
  /\ pc = "reset"
  /\ StartFails("io")
  /\ acked' = {} /\ ackChain' = NoChain /\ cut' = TRUE
  /\ UNCHANGED <<diskVars, opts, mem, txn, served, starts>>

\* A variant that replaces a session it cannot load.
LoadOrReplace ==
  /\ pc = "open" /\ config # Absent
  /\ IF Loadable THEN mem' = Loaded /\ pc' = "chain" ELSE pc' = "initConfig" /\ UNCHANGED mem
  /\ UNCHANGED <<diskVars, opts, txn, served, failure, starts, ghostVars>>

\* There is a config.json, so there is a session: --fork-url is not looked at.
Load ==
  /\ pc = "open" /\ config # Absent
  /\ IF Loadable
     THEN mem' = Loaded /\ pc' = "chain" /\ UNCHANGED failure
     ELSE StartFails("cannotLoad") /\ UNCHANGED mem
  /\ UNCHANGED <<diskVars, opts, txn, served, starts, ghostVars>>

\* The directory has something in it that is not a session.
Refuse ==
  /\ pc = "open" /\ config = Absent
  /\ delta # Absent \/ foreign
  /\ StartFails("notASession")
  /\ UNCHANGED <<diskVars, opts, mem, txn, served, starts, ghostVars>>

\* A variant that looks for config.json only.
MakeDirAnyway ==
  /\ pc = "open" /\ config = Absent
  /\ exists' = TRUE
  /\ pc' = "initConfig"
  /\ UNCHANGED <<foreign, config, delta, opts, mem, txn, served, failure, starts,
                 ghostVars>>

\* Session::init or init_with_remote_state: the directory, then the files.
MakeDir ==
  /\ pc = "open" /\ config = Absent
  /\ delta = Absent /\ ~foreign
  /\ exists' = TRUE
  /\ pc' = "initConfig"
  /\ UNCHANGED <<foreign, config, delta, opts, mem, txn, served, failure, starts,
                 ghostVars>>

\* A variant that leaves delta.json to the first save.
InitConfigAlone ==
  /\ pc = "initConfig"
  /\ config' = ConfigOf(Fresh)
  /\ mem' = Fresh
  /\ pc' = "chain"
  /\ UNCHANGED <<exists, foreign, delta, opts, txn, served, failure, starts, ghostVars>>

InitConfig ==
  /\ pc = "initConfig"
  /\ config' = ConfigOf(Fresh)
  /\ pc' = "initDelta"
  /\ UNCHANGED <<exists, foreign, delta, opts, mem, txn, served, failure, starts,
                 ghostVars>>

InitDelta ==
  /\ pc = "initDelta"
  /\ delta' = DeltaOf(Fresh)
  /\ mem' = Fresh
  /\ cut' = FALSE
  /\ pc' = "chain"
  /\ UNCHANGED <<exists, foreign, config, opts, txn, served, failure, starts, acked,
                 ackChain>>

\* --chain-id is checked, and set, once there is a session; in memory only.
SetChainId ==
  /\ pc = "chain"
  /\ IF opts.chain = 0
     THEN StartFails("chainIdZero") /\ UNCHANGED <<mem, served>>
     ELSE /\ mem' = IF opts.chain = NoChain THEN mem ELSE [mem EXCEPT !.chain = opts.chain]
          /\ served' = mem'.chain
          /\ pc' = "up"
          /\ UNCHANGED failure
  /\ UNCHANGED <<diskVars, opts, txn, starts, ghostVars>>

-----------------------------------------------------------------------------
(* Serving.                                                                *)

\* A transaction is executed and, unless the VM discards it, applied in memory.
\* One that was applied before is discarded by its sequence number.  The operation
\* is counted and both files are saved either way.
Execute ==
  /\ pc = "up"
  /\ mem.ops < MaxOps
  /\ \E x \in Txns, applied \in BOOLEAN :
       /\ applied => x \notin ToSet(mem.changes)
       /\ txn' = x
       /\ mem' = [mem EXCEPT !.changes = IF applied THEN Append(@, x) ELSE @,
                             !.ops = @ + 1]
  /\ pc' = "saveConfig"
  /\ UNCHANGED <<diskVars, opts, served, failure, starts, ghostVars>>

\* A variant that answers once config.json is saved.
SaveConfigAnswering ==
  /\ pc = "saveConfig"
  /\ config' = ConfigOf(mem)
  /\ acked' = acked \cup ({txn} \cap ToSet(mem.changes))
  /\ ackChain' = mem.chain
  /\ pc' = "saveDelta"
  /\ UNCHANGED <<exists, foreign, delta, opts, mem, txn, served, failure, starts, cut>>

SaveConfig ==
  /\ pc = "saveConfig"
  /\ config' = ConfigOf(mem)
  /\ pc' = "saveDelta"
  /\ UNCHANGED <<exists, foreign, delta, opts, mem, txn, served, failure, starts,
                 ghostVars>>

\* A variant that saves what it loaded or made, with the new changes, and leaves
\* the chain id out.
SaveDeltaWithoutChain ==
  /\ pc = "saveDelta"
  /\ delta' = [DeltaOf(mem) EXCEPT !.chain = BaseChain[mem.base]]
  /\ acked' = acked \cup ({txn} \cap ToSet(mem.changes))
  /\ ackChain' = mem.chain
  /\ cut' = FALSE
  /\ pc' = "up"
  /\ UNCHANGED <<exists, foreign, config, opts, mem, txn, served, failure, starts>>

\* A variant that answers also when the write was cut short.
SaveDeltaAnyhow ==
  /\ pc = "saveDelta"
  /\ delta' \in {DeltaOf(mem), Torn}
  /\ acked' = acked \cup ({txn} \cap ToSet(mem.changes))
  /\ ackChain' = mem.chain
  /\ cut' = (delta' = Torn)
  /\ pc' = "up"
  /\ UNCHANGED <<exists, foreign, config, opts, mem, txn, served, failure, starts>>

\* Both files are saved and the client gets its answer; a transaction that the
\* session has counts as acknowledged, also if its first save had failed and this
\* is that of a discarded retry.
SaveDelta ==
  /\ pc = "saveDelta"
  /\ delta' = DeltaOf(mem)
  /\ acked' = acked \cup ({txn} \cap ToSet(mem.changes))
  /\ ackChain' = mem.chain
  /\ cut' = FALSE
  /\ pc' = "up"
  /\ UNCHANGED <<exists, foreign, config, opts, mem, txn, served, failure, starts>>

-----------------------------------------------------------------------------
(* Failing.                                                                *)

\* What the file being written is left as.
CutShort ==
  /\ config' \in (IF pc \in {"initConfig", "saveConfig"} THEN {config, Torn} ELSE {config})
  /\ delta' \in (IF pc \in {"initDelta", "saveDelta"} THEN {delta, Torn} ELSE {delta})
  /\ cut' = (cut \/ pc \in {"reset", "initConfig", "initDelta", "saveConfig", "saveDelta"})
  /\ UNCHANGED <<exists, foreign>>

\* The URL to fork from is not one, the node does not answer, a write fails.
InitFails ==
  /\ \/ pc \in {"initConfig", "initDelta"}
     \/ pc = "open" /\ ~exists /\ opts.base \in Forks
  /\ CutShort
  /\ StartFails("io")
  /\ UNCHANGED <<opts, mem, txn, served, starts, acked, ackChain>>

\* A save fails: the client gets an error, the change stays in memory.
SaveFails ==
  /\ pc \in {"saveConfig", "saveDelta"}
  /\ CutShort
  /\ pc' = "up"
  /\ UNCHANGED <<opts, mem, txn, served, failure, starts, acked, ackChain>>

\* The server is stopped or killed, at any moment.
Crash ==
  /\ pc # "down"
  /\ CutShort
  /\ pc' = "down"
  /\ UNCHANGED <<opts, mem, txn, served, failure, starts, acked, ackChain>>

\* No more starts.
Over == pc = "down" /\ starts = MaxStarts /\ UNCHANGED vars

Opening == Load \/ Refuse \/ MakeDir \/ InitConfig \/ InitDelta \/ SetChainId

Next ==
  \/ Start \/ RemoveEntry \/ ResetFails \/ Opening
  \/ Execute \/ SaveConfig \/ SaveDelta
  \/ InitFails \/ SaveFails \/ Crash
  \/ Over

Spec == Init /\ [][Next]_vars

-----------------------------------------------------------------------------

Serving == pc \in {"chain", "up", "saveConfig", "saveDelta"}

\* A transaction that was acknowledged is in the session that is served and in
\* whatever a later start can load, through crashes, failed saves and clients
\* that send it again, until somebody resets the directory ("Persist session
\* state in this directory", --session-dir).
NothingAckedLost ==
  /\ Loadable => acked \subseteq ToSet(delta.changes)
  /\ Serving => acked \subseteq ToSet(mem.changes)

\* What can be loaded was made by one start: never the config.json of one
\* session with the delta.json of another, whatever a crash left behind.  A crash
\* between the two leaves config.json, saved first, counting more operations than
\* delta.json has changes, never fewer.  A server saves into the session it
\* serves.
DiskIsOneSession ==
  /\ Loadable => config.made = delta.made /\ Len(delta.changes) <= config.ops
  /\ Serving /\ Intact(config) => config.made = mem.made /\ config.base = mem.base

\* A session that does not load was cut short while it was written or removed:
\* one whose server was stopped between two requests loads.
CleanStopLoads ==
  /\ pc \in {"down", "up"} /\ config # Absent /\ ~cut => Loadable
  /\ failure = "cannotLoad" => cut

\* "Delete the selected session directory before starting" (--reset): nothing
\* that is in the directory stops such a start, and it serves a session of its
\* own with the base it was asked for.
ResetStartsAfresh ==
  opts.reset => /\ failure \notin {"cannotLoad", "notASession"}
                /\ Serving => mem.made = starts /\ mem.base = opts.base

\* The chain id that is reported is that of the session, the one asked for, or
\* else the one under which the last save was completed.
ServedChainIsTheSessions ==
  pc \in {"up", "saveConfig", "saveDelta"} =>
    /\ served = mem.chain
    /\ opts.chain # NoChain => served = opts.chain
    /\ opts.chain = NoChain /\ acked # {} => served = ackChain

\* Without --reset a start touches nothing that was there before it: neither the
\* files of a session, loadable or not, nor anybody else's.
StartSparesTheDirectory ==
  [][~opts'.reset /\ pc \notin {"saveConfig", "saveDelta"} =>
       /\ foreign' = foreign
       /\ config # Absent /\ (Intact(config) => config.made # starts) =>
            config' = config /\ delta' = delta]_vars

-----------------------------------------------------------------------------
(* Two files, saved one after the other, as one log.                       *)

SavedLog == IF Loadable THEN {delta.changes} ELSE {}
ServedLog == IF Serving THEN {mem.changes} ELSE {}
BeingSaved == IF pc \in {"saveConfig", "saveDelta"} THEN {txn} ELSE {}

ToDurable == INSTANCE DurableSession WITH
  saved <- SavedLog, served <- ServedLog, pending <- BeingSaved, promised <- acked

\* To whoever starts servers on it, the directory is one log, saved as a whole
\* with each acknowledgement: what loads after a crash or a failed save is a log
\* that was served, behind it by changes that were not acknowledged and never
\* by one that was; only a save that is cut short while it is made, be it that of a
\* transaction that was discarded, or a reset makes it unreadable; and a server
\* begins a new log only where nothing was acknowledged.
ImplementsDurable == ToDurable!Spec

=============================================================================
