---------------------------- MODULE DurableSession ----------------------------
(***************************************************************************)
(* What a session directory promises to whoever starts servers on it one   *)
(* after the other and sends them transactions: one log of changes, saved  *)
(* as a whole.  A save that is cut short, also that of a transaction which *)
(* changed nothing, may leave it unreadable, and nothing else may; what    *)
(* can be read is a beginning of the log that was served, with all that    *)
(* was acknowledged; and a new log is begun only where nothing was.        *)
(***************************************************************************)
EXTENDS Naturals, Sequences, SequencesExt

CONSTANT Txns

VARIABLES
  saved,     \* the log that a start would find, if any: {log} or {}
  served,    \* the log of the server that is up, if any
  pending,   \* the transaction whose save is under way, if any
  promised   \* the transactions acknowledged since the last reset

durableVars == <<saved, served, pending, promised>>

Init == saved = {} /\ served = {} /\ pending = {} /\ promised = {}

Found ==
  /\ saved = {} /\ served = {} /\ promised = {}
  /\ saved' = {<<>>} /\ served' = {<<>>}
  /\ UNCHANGED <<pending, promised>>

Resume ==
  /\ served = {} /\ saved # {}
  /\ served' = saved
  /\ UNCHANGED <<saved, pending, promised>>

\* A transaction changes the log at most once.  One that is rejected changes
\* nothing, and is saved all the same.
Change ==
  /\ pending = {}
  /\ \E log \in served, x \in Txns :
       /\ pending' = {x}
       /\ \/ served' = {log}
          \/ x \notin ToSet(log) /\ served' = {Append(log, x)}
  /\ UNCHANGED <<saved, promised>>

\* All changes are saved at once; the pending transaction, if it is one of them,
\* is acknowledged.
Acknowledge ==
  /\ pending # {} /\ pending' = {}
  /\ saved' = served
  /\ \E log \in served : promised' = promised \cup (pending \cap ToSet(log))
  /\ UNCHANGED served

\* A save that is under way may be cut short, and the log be lost; never between
\* two transactions.
FailSave ==
  /\ pending # {} /\ pending' = {}
  /\ saved' \in {saved, {}}
  /\ UNCHANGED <<served, promised>>

\* A save makes a lost log readable again, as it once was saved.
Mend ==
  /\ pending # {} /\ saved = {}
  /\ \E log \in served : \E n \in 0 .. Len(log) :
       /\ saved' = {SubSeq(log, 1, n)}
       /\ promised \subseteq ToSet(SubSeq(log, 1, n))
  /\ UNCHANGED <<served, pending, promised>>

Stop ==
  /\ served # {} /\ served' = {} /\ pending' = {}
  /\ saved' = saved \/ (pending # {} /\ saved' = {})
  /\ UNCHANGED promised

Reset ==
  /\ served = {}
  /\ saved' \in {saved, {}} /\ promised' = {}
  /\ UNCHANGED <<served, pending>>

Next ==
  \/ Found \/ Resume \/ Change \/ Acknowledge \/ FailSave \/ Mend \/ Stop \/ Reset

Spec == Init /\ [][Next]_durableVars

=============================================================================
