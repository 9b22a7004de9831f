--------------------------- MODULE SessionDirProofs ---------------------------
(***************************************************************************)
(* What SessionDir promises, for every set of transactions, bases and      *)
(* chain ids and any number of starts and operations.  The facts about the *)
(* files that hold at each place of a start are proved first (PlaceInv),   *)
(* and each property follows from them and its own strengthening.          *)
(***************************************************************************)
EXTENDS SessionDir, SequenceTheorems, TLAPS

-----------------------------------------------------------------------------
(* Types.                                                                  *)

\* A server that writes the files, or removes them, has a directory to do it in.
TypeInv == TypeOK /\ (pc \notin {"down", "open"} => exists)

\* What a session in memory is saved as are files, neither absent nor torn.
LEMMA Saved ==
  ASSUME NEW s \in Sessions
  PROVE  /\ ConfigOf(s) \in Configs /\ Intact(ConfigOf(s))
         /\ DeltaOf(s) \in Deltas /\ Intact(DeltaOf(s))
<1>1. ConfigOf(s) \in Configs /\ DeltaOf(s) \in Deltas
  BY DEF ConfigOf, DeltaOf, Configs, Deltas, Sessions
<1> QED
  BY <1>1, FileAssumption DEF Intact

\* A new session is a session of this start without changes.
LEMMA FreshSession ==
  ASSUME TypeOK
  PROVE  Fresh \in Sessions
<1>1. opts.base \in Bases /\ BaseChain[opts.base] \in Nat /\ starts \in 0 .. MaxStarts
  BY BaseAssumption DEF TypeOK, Options
<1>2. <<>> \in Seq(Txns)
  OBVIOUS
<1> QED
  BY <1>1, <1>2 DEF Fresh, Sessions

\* What loads is a session.
LEMMA LoadedSession ==
  ASSUME TypeOK, Loadable
  PROVE  /\ config \in Configs /\ delta \in Deltas
         /\ Loaded \in Sessions
<1>1. config \in Configs /\ delta \in Deltas
  BY DEF TypeOK, Loadable, Intact
<1> QED
  BY <1>1 DEF Loaded, Configs, Deltas, Sessions

LEMMA InitType ==
  ASSUME Init
  PROVE  TypeOK
<1>1. opts \in Options
  BY DEF Init, Options, Bases
<1>2. mem \in Sessions
  <2>1. <<>> \in Seq(Txns) /\ Genesis \in Bases /\ 0 \in 0 .. MaxStarts
    BY BoundAssumption DEF Bases
  <2> QED
    BY <2>1 DEF Init, Sessions
<1>3. txn \in Txns /\ starts \in 0 .. MaxStarts
  BY BoundAssumption DEF Init
<1> QED
  BY <1>1, <1>2, <1>3 DEF Init, TypeOK, Places, Failures

\* A file that a write was cut short of is still one, or is torn, and no other
\* variable of the directory changes.
LEMMA CutShortType ==
  ASSUME TypeOK, CutShort, pc # "down"
  PROVE  /\ config' \in {config, Torn} /\ delta' \in {delta, Torn}
         /\ exists' = exists /\ foreign' = foreign /\ cut' \in BOOLEAN
         /\ pc \notin {"initConfig", "saveConfig"} => config' = config
         /\ pc \notin {"initDelta", "saveDelta"} => delta' = delta
BY DEF TypeOK, CutShort

\* Executing a transaction adds it to the session, or leaves the changes alone, and
\* counts it.
LEMMA ExecuteStep ==
  ASSUME TypeInv, Execute
  PROVE  /\ pc = "up" /\ pc' = "saveConfig" /\ txn' \in Txns /\ mem' \in Sessions
         /\ mem'.made = mem.made /\ mem'.base = mem.base /\ mem'.chain = mem.chain
         /\ mem'.ops = mem.ops + 1
         /\ \/ mem'.changes = mem.changes
            \/ txn' \notin ToSet(mem.changes) /\ mem'.changes = Append(mem.changes, txn')
         /\ UNCHANGED <<config, delta, exists, foreign, opts, served, failure, starts>>
         /\ UNCHANGED <<acked, ackChain, cut>>
<1>1. /\ pc = "up" /\ pc' = "saveConfig"
      /\ UNCHANGED <<config, delta, exists, foreign, opts, served, failure, starts>>
      /\ UNCHANGED <<acked, ackChain, cut>>
  BY DEF Execute, diskVars, ghostVars
<1>2. PICK x \in Txns, applied \in BOOLEAN :
        /\ applied => x \notin ToSet(mem.changes)
        /\ txn' = x
        /\ mem' = [mem EXCEPT !.changes = IF applied THEN Append(@, x) ELSE @, !.ops = @ + 1]
  BY DEF Execute
<1>3. /\ mem \in Sessions /\ mem.changes \in Seq(Txns) /\ mem.ops + 1 \in Nat
      /\ Append(mem.changes, x) \in Seq(Txns)
  BY DEF TypeInv, TypeOK, Sessions
<1>4. CASE applied
  BY <1>1, <1>2, <1>3, <1>4 DEF Sessions
<1>5. CASE ~ applied
  BY <1>1, <1>2, <1>3, <1>5 DEF Sessions
<1> QED
  BY <1>4, <1>5

LEMMA NextTypeInv ==
  ASSUME TypeInv, [Next]_vars
  PROVE  TypeInv'
<1> USE DEF TypeInv
<1>1. CASE UNCHANGED vars
  BY <1>1 DEF vars, diskVars, ghostVars, TypeOK
<1>2. CASE Start
  BY <1>2, BoundAssumption DEF TypeOK, Start, Places, Failures, diskVars, ghostVars
<1>3. CASE RemoveEntry
  <2>1. /\ UNCHANGED <<opts, mem, txn, served, failure, starts, cut>>
        /\ acked' = {} /\ ackChain' = NoChain /\ pc = "reset" /\ exists
    BY <1>3 DEF RemoveEntry
  <2>2. foreign \in BOOLEAN
    BY DEF TypeOK
  <2>3. config' \in {config, Absent} /\ delta' \in {delta, Absent} /\ foreign' \in BOOLEAN
    BY <1>3, <2>2 DEF RemoveEntry
  <2>4. CASE exists' = exists /\ pc' = pc
    BY <2>1, <2>3, <2>4 DEF TypeOK, Places
  <2>5. CASE ~(exists' = exists /\ pc' = pc)
    <3>1. /\ config = Absent /\ delta = Absent /\ ~foreign
          /\ exists' = FALSE /\ pc' = "open" /\ UNCHANGED <<foreign, config, delta>>
      BY <1>3, <2>5 DEF RemoveEntry
    <3>2. ~foreign'
      BY <3>1
    <3> QED
      BY <2>1, <2>3, <3>1, <3>2 DEF TypeOK, Places
  <2> QED
    BY <2>4, <2>5
<1>4. CASE ResetFails
  BY <1>4 DEF TypeOK, ResetFails, StartFails, Places, Failures, diskVars
<1>5. CASE Load
  <2>1. CASE Loadable
    BY <1>5, <2>1, LoadedSession DEF TypeOK, Load, Places, diskVars, ghostVars
  <2>2. CASE ~Loadable
    BY <1>5, <2>2 DEF TypeOK, Load, StartFails, Places, Failures, diskVars, ghostVars
  <2> QED
    BY <2>1, <2>2
<1>6. CASE Refuse
  BY <1>6 DEF TypeOK, Refuse, StartFails, Places, Failures, diskVars, ghostVars
<1>7. CASE MakeDir
  BY <1>7 DEF TypeOK, MakeDir, Places, ghostVars
<1>8. CASE InitConfig
  BY <1>8, FreshSession, Saved DEF TypeOK, InitConfig, Places, ghostVars
<1>9. CASE InitDelta
  BY <1>9, FreshSession, Saved DEF TypeOK, InitDelta, Places
<1>10. CASE SetChainId
  <2>1. CASE opts.chain = 0
    BY <1>10, <2>1 DEF TypeOK, SetChainId, StartFails, Places, Failures, diskVars, ghostVars
  <2>2. CASE opts.chain # 0
    <3>1. opts.chain \in Nat \/ opts.chain = NoChain
      BY ChainAssumption DEF TypeOK, Options
    <3>2. mem' \in Sessions
      BY <1>10, <2>2, <3>1 DEF TypeOK, SetChainId, Sessions
    <3>3. served' \in Nat
      BY <1>10, <2>2, <3>2 DEF SetChainId, Sessions
    <3> QED
      BY <1>10, <2>2, <3>2, <3>3 DEF TypeOK, SetChainId, Places, diskVars, ghostVars
  <2> QED
    BY <2>1, <2>2
<1>11. CASE Execute
  BY <1>11, ExecuteStep DEF TypeOK, Places
<1>12. CASE SaveConfig
  BY <1>12, Saved DEF TypeOK, SaveConfig, Places, ghostVars
<1>13. CASE SaveDelta
  <2>1. mem.chain \in Nat
    BY DEF TypeOK, Sessions
  <2> QED
    BY <1>13, <2>1, Saved DEF TypeOK, SaveDelta, Places
<1>14. CASE InitFails
  <2>1. pc # "down" /\ CutShort
    BY <1>14 DEF InitFails
  <2> QED
    BY <1>14, <2>1, CutShortType DEF TypeOK, InitFails, StartFails, Places, Failures
<1>15. CASE SaveFails
  <2>1. pc # "down" /\ CutShort
    BY <1>15 DEF SaveFails
  <2> QED
    BY <1>15, <2>1, CutShortType DEF TypeOK, SaveFails, Places
<1>16. CASE Crash
  <2>1. pc # "down" /\ CutShort
    BY <1>16 DEF Crash
  <2> QED
    BY <1>16, <2>1, CutShortType DEF TypeOK, Crash, Places
<1>17. Over => UNCHANGED vars
  BY DEF Over
<1> QED
  BY <1>1, <1>2, <1>3, <1>4, <1>5, <1>6, <1>7, <1>8, <1>9, <1>10, <1>11, <1>12, <1>13,
     <1>14, <1>15, <1>16, <1>17 DEF Next, Opening

\* The directory holds config.json and delta.json, each of them absent, torn or
\* the files of a session, and the session in memory is one, whatever was saved,
\* cut short, removed and loaded.
THEOREM DirTypeCorrect == Spec => []TypeOK
<1>1. Init => TypeInv
  BY InitType DEF TypeInv, Init
<1>2. TypeInv /\ [Next]_vars => TypeInv'
  BY NextTypeInv
<1>3. TypeInv => TypeOK
  BY DEF TypeInv
<1> QED
  BY <1>1, <1>2, <1>3, PTL DEF Spec

-----------------------------------------------------------------------------
(* The places of a start.                                                  *)

\* What the place a server is at says of the files, the options and the last
\* failure.
PlaceInv ==
  /\ pc # "down" => failure = "none"
  /\ pc = "reset" => opts.reset
  /\ pc = "open" /\ opts.reset => config = Absent /\ delta = Absent /\ ~foreign
  /\ pc = "initConfig" => config = Absent /\ delta = Absent
  /\ pc = "initDelta" => config = ConfigOf(Fresh) /\ delta = Absent
  /\ pc = "saveDelta" => config = ConfigOf(mem)

\* An empty directory is the only way on from a reset.
LEMMA RemoveEntryStep ==
  ASSUME RemoveEntry
  PROVE  /\ pc = "reset" /\ acked' = {}
         /\ UNCHANGED <<opts, mem, txn, served, failure, starts, cut>>
         /\ config' \in {config, Absent} /\ delta' \in {delta, Absent}
         /\ \/ pc' = "reset"
            \/ pc' = "open" /\ config' = Absent /\ delta' = Absent /\ ~foreign'
<1>1. /\ pc = "reset" /\ acked' = {}
      /\ UNCHANGED <<opts, mem, txn, served, failure, starts, cut>>
      /\ config' \in {config, Absent} /\ delta' \in {delta, Absent}
  BY DEF RemoveEntry
<1>2. CASE config = Absent /\ delta = Absent /\ ~foreign /\ pc' = "open"
           /\ UNCHANGED <<foreign, config, delta>>
  <2>1. ~foreign'
    BY <1>2
  <2> QED
    BY <1>1, <1>2, <2>1
<1>3. CASE pc' = pc
  BY <1>1, <1>3
<1> QED
  BY <1>2, <1>3 DEF RemoveEntry

LEMMA NextPlaceInv ==
  ASSUME TypeInv, PlaceInv, [Next]_vars
  PROVE  PlaceInv'
<1> USE DEF PlaceInv
<1>1. CASE UNCHANGED vars \/ Over
  BY <1>1 DEF Over, vars, diskVars, ghostVars, Fresh
<1>2. CASE Start
  BY <1>2 DEF Start, TypeInv, TypeOK, Options, diskVars
<1>3. CASE RemoveEntry
  BY <1>3, RemoveEntryStep
<1>4. CASE ResetFails \/ Refuse \/ InitFails
  BY <1>4 DEF ResetFails, Refuse, InitFails, StartFails
<1>5. CASE Load
  BY <1>5 DEF Load, StartFails
<1>6. CASE MakeDir
  BY <1>6 DEF MakeDir
<1>7. CASE InitConfig
  BY <1>7 DEF InitConfig, Fresh
<1>8. CASE InitDelta \/ SaveDelta
  BY <1>8 DEF InitDelta, SaveDelta
<1>9. CASE SetChainId
  BY <1>9 DEF SetChainId, StartFails
<1>10. CASE Execute
  BY <1>10 DEF Execute
<1>11. CASE SaveConfig
  BY <1>11 DEF SaveConfig
<1>12. CASE SaveFails \/ Crash
  BY <1>12 DEF SaveFails, Crash
<1> QED
  BY <1>1, <1>2, <1>3, <1>4, <1>5, <1>6, <1>7, <1>8, <1>9, <1>10, <1>11, <1>12
  DEF Next, Opening

\* The invariant the properties below build on.
PlacesHeld == TypeInv /\ PlaceInv

LEMMA InitPlaces ==
  ASSUME Init
  PROVE  PlacesHeld
BY InitType DEF Init, PlacesHeld, TypeInv, PlaceInv

LEMMA NextPlaces ==
  ASSUME PlacesHeld, [Next]_vars
  PROVE  PlacesHeld'
BY NextTypeInv, NextPlaceInv DEF PlacesHeld

-----------------------------------------------------------------------------
(* One session.                                                            *)

\* Every file that is intact is of the session that is served, or of one with the
\* other, and counts at least the operations that delta.json has changes of.
SessionInv ==
  /\ Len(mem.changes) <= mem.ops
  /\ Loadable => config.made = delta.made /\ Len(delta.changes) <= config.ops
  /\ Serving => /\ Intact(config) => config.made = mem.made /\ config.base = mem.base
                /\ Intact(delta) => delta.made = mem.made /\ Len(delta.changes) <= mem.ops

\* A file that a write was cut short of is what it was, if it is intact.
LEMMA CutShortIntact ==
  ASSUME CutShort
  PROVE  /\ Intact(config)' => Intact(config) /\ config' = config
         /\ Intact(delta)' => Intact(delta) /\ delta' = delta
         /\ Loadable' => Loadable
BY DEF CutShort, Intact, Loadable

LEMMA NextSessionInv ==
  ASSUME PlacesHeld, SessionInv, [Next]_vars
  PROVE  SessionInv'
<1> USE DEF SessionInv, PlacesHeld
<1>1. CASE UNCHANGED <<config, delta, mem>> /\ (Serving' => Serving)
  BY <1>1 DEF Loadable, Intact
<1>2. CASE Start \/ Refuse \/ MakeDir \/ ResetFails \/ Over \/ UNCHANGED vars
  <2>1. UNCHANGED <<config, delta, mem>> /\ (Serving' => Serving)
    BY <1>2 DEF Start, Refuse, MakeDir, ResetFails, StartFails, Over, vars, diskVars, Serving
  <2> QED
    BY <1>1, <2>1
<1>3. CASE RemoveEntry
  BY <1>3, RemoveEntryStep DEF Loadable, Intact, Serving
<1>4. CASE Load
  <2>1. CASE Loadable
    BY <1>4, <2>1 DEF Load, Loaded, Loadable, Intact, diskVars
  <2>2. CASE ~Loadable
    BY <1>1, <1>4, <2>2 DEF Load, StartFails, Serving, diskVars
  <2> QED
    BY <2>1, <2>2
<1>5. CASE InitConfig
  BY <1>5 DEF InitConfig, PlaceInv, Loadable, Intact, Serving
<1>6. CASE InitDelta
  <2>1. config' = ConfigOf(Fresh) /\ delta' = DeltaOf(Fresh) /\ mem' = Fresh
    BY <1>6 DEF InitDelta, PlaceInv
  <2> QED
    BY <2>1 DEF ConfigOf, DeltaOf, Fresh
<1>7. CASE SetChainId
  <2>1. UNCHANGED <<config, delta>> /\ Serving
    BY <1>7 DEF SetChainId, diskVars, Serving
  <2>2. mem'.made = mem.made /\ mem'.base = mem.base /\ mem'.changes = mem.changes
        /\ mem'.ops = mem.ops
    BY <1>7 DEF SetChainId, TypeInv, TypeOK, Sessions
  <2> QED
    BY <2>1, <2>2 DEF Loadable, Intact
<1>8. CASE Execute
  <2>1. /\ mem'.made = mem.made /\ mem'.base = mem.base /\ mem'.ops = mem.ops + 1
        /\ mem'.changes = mem.changes \/ mem'.changes = Append(mem.changes, txn')
        /\ UNCHANGED <<config, delta>> /\ Serving
    BY <1>8, ExecuteStep DEF Serving
  <2>2. mem.changes \in Seq(Txns) /\ mem.ops \in Nat /\ Len(mem.changes) \in Nat
    BY DEF TypeInv, TypeOK, Sessions
  <2>3. Len(mem'.changes) <= Len(mem.changes) + 1
    BY <2>1, <2>2
  <2>4. Intact(delta) => Len(delta.changes) \in Nat
    BY DEF TypeInv, TypeOK, Intact, Deltas
  <2>5. Len(mem'.changes) <= mem'.ops
    <3>1. Len(mem'.changes) \in Nat
      BY <1>8, ExecuteStep DEF Sessions
    <3> QED
      BY <2>1, <2>2, <2>3, <3>1
  <2> QED
    BY <2>1, <2>2, <2>4, <2>5 DEF Loadable, Intact
<1>9. CASE SaveConfig
  BY <1>9 DEF SaveConfig, ConfigOf, Loadable, Intact, Serving
<1>10. CASE SaveDelta
  BY <1>10 DEF SaveDelta, PlaceInv, ConfigOf, DeltaOf, Loadable, Intact, Serving
<1>11. CASE InitFails \/ SaveFails \/ Crash
  <2>1. CutShort /\ mem' = mem /\ (Serving' => Serving)
    BY <1>11 DEF InitFails, StartFails, SaveFails, Crash, Serving
  <2> QED
    BY <2>1, CutShortIntact DEF Loadable
<1> QED
  BY <1>2, <1>3, <1>4, <1>5, <1>6, <1>7, <1>8, <1>9, <1>10, <1>11 DEF Next, Opening

\* What can be loaded was made by one start, and a server saves into the session
\* it serves, whatever a crash or a failed save left behind: config.json, which
\* is saved first, never counts fewer operations than delta.json has changes.
THEOREM OneSession == Spec => []DiskIsOneSession
<1>1. Init => PlacesHeld /\ SessionInv
  <2>1. Init => mem.changes = <<>> /\ mem.ops = 0 /\ ~Loadable /\ ~Serving
    BY DEF Init, Loadable, Intact, Serving
  <2> QED
    BY <2>1, InitPlaces DEF SessionInv
<1>2. PlacesHeld /\ SessionInv /\ [Next]_vars => PlacesHeld' /\ SessionInv'
  BY NextPlaces, NextSessionInv
<1>3. SessionInv => DiskIsOneSession
  BY DEF SessionInv, DiskIsOneSession
<1> QED
  BY <1>1, <1>2, <1>3, PTL DEF Spec

-----------------------------------------------------------------------------
(* Nothing acknowledged is lost.                                           *)

\* Whatever delta.json is intact has what was acknowledged, be config.json torn
\* or not, and a session is only made where nothing was.
AckInv ==
  /\ config = Absent \/ pc = "initDelta" => acked = {}
  /\ Intact(delta) => acked \subseteq ToSet(delta.changes)
  /\ Serving => acked \subseteq ToSet(mem.changes)

\* A session that is added to keeps what it has.
LEMMA AppendKeeps ==
  ASSUME NEW S, NEW s \in Seq(S), NEW x \in S
  PROVE  ToSet(s) \subseteq ToSet(Append(s, x))
<1>1. /\ DOMAIN Append(s, x) = 1 .. Len(s) + 1 /\ DOMAIN s = 1 .. Len(s) /\ Len(s) \in Nat
      /\ Append(s, x)[Len(s) + 1] = x
      /\ \A i \in 1 .. Len(s) : Append(s, x)[i] = s[i]
  OBVIOUS
<1>2. \A i \in 1 .. Len(s) : i \in 1 .. Len(s) + 1
  BY <1>1
<1> QED
  BY <1>1, <1>2 DEF ToSet

LEMMA NextAckInv ==
  ASSUME PlacesHeld, AckInv, [Next]_vars
  PROVE  AckInv'
<1> USE DEF AckInv, PlacesHeld
<1>1. CASE Start \/ Refuse \/ MakeDir \/ Over \/ UNCHANGED vars
  BY <1>1 DEF Start, Refuse, MakeDir, StartFails, Over, vars, diskVars, ghostVars, Serving,
              Intact
<1>2. CASE RemoveEntry \/ ResetFails
  BY <1>2, RemoveEntryStep DEF ResetFails, StartFails, Serving
<1>3. CASE Load
  BY <1>3 DEF Load, Loaded, Loadable, StartFails, Serving, Intact, diskVars, ghostVars
<1>4. CASE InitConfig
  BY <1>4 DEF InitConfig, PlaceInv, Serving, ghostVars
<1>5. CASE InitDelta
  BY <1>5 DEF InitDelta, PlaceInv, Serving
<1>6. CASE SetChainId
  <2>1. mem'.changes = mem.changes
    BY <1>6 DEF SetChainId, TypeInv, TypeOK, Sessions
  <2> QED
    BY <1>6, <2>1 DEF SetChainId, StartFails, Serving, Intact, diskVars, ghostVars
<1>7. CASE Execute
  <2>1. mem.changes \in Seq(Txns) /\ txn' \in Txns
    BY <1>7, ExecuteStep DEF TypeInv, TypeOK, Sessions
  <2>2. ToSet(mem.changes) \subseteq ToSet(mem'.changes)
    BY <1>7, <2>1, ExecuteStep, AppendKeeps
  <2> QED
    BY <1>7, <2>2, ExecuteStep DEF Serving, Intact
<1>8. CASE SaveConfig
  <2>1. config' # Absent
    BY <1>8, Saved DEF SaveConfig, TypeInv, TypeOK, Intact
  <2> QED
    BY <1>8, <2>1 DEF SaveConfig, Serving, Intact, ghostVars
<1>9. CASE SaveDelta
  <2>1. config # Absent /\ config' = config
    BY <1>9, Saved DEF SaveDelta, PlaceInv, TypeInv, TypeOK, Intact
  <2> QED
    BY <1>9, <2>1 DEF SaveDelta, DeltaOf, Serving
<1>10. CASE InitFails \/ SaveFails \/ Crash
  <2>1. /\ CutShort /\ UNCHANGED <<mem, txn, acked>>
        /\ pc' \in {"down", "up"} /\ (Serving' => Serving)
    BY <1>10 DEF InitFails, StartFails, SaveFails, Crash, Serving
  <2>2. config' = Absent => config = Absent
    BY <2>1, FileAssumption DEF CutShort
  <2> QED
    BY <2>1, <2>2, CutShortIntact
<1> QED
  BY <1>1, <1>2, <1>3, <1>4, <1>5, <1>6, <1>7, <1>8, <1>9, <1>10 DEF Next, Opening

\* An acknowledged transaction is in the session that is served and in whatever a
\* later start can load, until somebody resets the directory: no crash, no failed
\* save and no client that sends it again loses it.
THEOREM AcknowledgedSurvive == Spec => []NothingAckedLost
<1>1. Init => PlacesHeld /\ AckInv
  BY InitPlaces DEF Init, AckInv, Intact, Serving
<1>2. PlacesHeld /\ AckInv /\ [Next]_vars => PlacesHeld' /\ AckInv'
  BY NextPlaces, NextAckInv
<1>3. AckInv => NothingAckedLost
  BY DEF AckInv, NothingAckedLost, Loadable
<1> QED
  BY <1>1, <1>2, <1>3, PTL DEF Spec

-----------------------------------------------------------------------------
(* The chain id.                                                           *)

\* The chain id in delta.json, and the one a server starts with, are those of the
\* last save that was completed.
ChainInv ==
  /\ Intact(delta) /\ acked # {} => delta.chain = ackChain
  /\ pc = "chain" /\ acked # {} => mem.chain = ackChain
  /\ ServedChainIsTheSessions

LEMMA NextChainInv ==
  ASSUME PlacesHeld, AckInv, ChainInv, [Next]_vars
  PROVE  ChainInv'
<1> USE DEF ChainInv, PlacesHeld
<1>1. CASE Start \/ Refuse \/ MakeDir \/ InitConfig \/ Over \/ UNCHANGED vars
  BY <1>1 DEF Start, Refuse, MakeDir, InitConfig, StartFails, Over, vars, diskVars, ghostVars,
              ServedChainIsTheSessions, Intact
<1>2. CASE RemoveEntry \/ ResetFails
  BY <1>2, RemoveEntryStep DEF ResetFails, StartFails, ServedChainIsTheSessions
<1>3. CASE Load
  BY <1>3 DEF Load, Loaded, Loadable, StartFails, ServedChainIsTheSessions, Intact, diskVars,
              ghostVars
<1>4. CASE InitDelta
  BY <1>4 DEF InitDelta, AckInv, ServedChainIsTheSessions
<1>5. CASE SetChainId
  <2>1. CASE opts.chain = 0
    BY <1>5, <2>1 DEF SetChainId, StartFails, ServedChainIsTheSessions, Intact, diskVars,
                      ghostVars
  <2>2. CASE opts.chain # 0
    <3>1. opts.chain # NoChain => mem'.chain = opts.chain
      BY <1>5, <2>2 DEF SetChainId, TypeInv, TypeOK, Sessions
    <3> QED
      BY <1>5, <2>2, <3>1 DEF SetChainId, ServedChainIsTheSessions, Intact, diskVars, ghostVars
  <2> QED
    BY <2>1, <2>2
<1>6. CASE Execute
  BY <1>6, ExecuteStep DEF ServedChainIsTheSessions, Intact
<1>7. CASE SaveConfig
  BY <1>7 DEF SaveConfig, ServedChainIsTheSessions, Intact, ghostVars
<1>8. CASE SaveDelta
  BY <1>8 DEF SaveDelta, DeltaOf, ServedChainIsTheSessions
<1>9. CASE InitFails \/ SaveFails \/ Crash
  <2>1. /\ CutShort /\ UNCHANGED <<mem, served, opts, acked, ackChain>>
        /\ pc' = "down" \/ (pc' = "up" /\ pc \in {"saveConfig", "saveDelta"})
    BY <1>9 DEF InitFails, StartFails, SaveFails, Crash
  <2> QED
    BY <2>1, CutShortIntact DEF ServedChainIsTheSessions
<1> QED
  BY <1>1, <1>2, <1>3, <1>4, <1>5, <1>6, <1>7, <1>8, <1>9 DEF Next, Opening

\* The chain id that is reported is the session's: the one asked for, or else the
\* one under which the last save was completed, over any number of restarts.
THEOREM ChainIdHeld == Spec => []ServedChainIsTheSessions
<1>1. Init => PlacesHeld /\ AckInv /\ ChainInv
  BY InitPlaces DEF Init, AckInv, ChainInv, Intact, Serving, ServedChainIsTheSessions
<1>2. PlacesHeld /\ AckInv /\ ChainInv /\ [Next]_vars => PlacesHeld' /\ AckInv' /\ ChainInv'
  BY NextPlaces, NextAckInv, NextChainInv
<1>3. ChainInv => ServedChainIsTheSessions
  BY DEF ChainInv
<1> QED
  BY <1>1, <1>2, <1>3, PTL DEF Spec

-----------------------------------------------------------------------------
(* Clean stops.                                                            *)

\* Only a reset that is under way, or a session that is being made, may leave a
\* config.json that does not load without a write having been cut short.  A
\* session that is served has a config.json, if a torn one.
CleanInv ==
  /\ Serving => config # Absent
  /\ pc \notin {"reset", "initDelta"} /\ config # Absent /\ ~cut => Loadable
  /\ failure = "cannotLoad" => cut /\ pc = "down"

\* A write that is cut short says so; elsewhere the files are as they were.
LEMMA CutShortCut ==
  ASSUME CutShort
  PROVE  /\ cut => cut'
         /\ cut' \/ UNCHANGED <<config, delta>>
         /\ pc \in {"reset", "initDelta"} => cut'
         /\ config # Absent => config' # Absent
BY FileAssumption DEF CutShort

LEMMA NextCleanInv ==
  ASSUME PlacesHeld, CleanInv, [Next]_vars
  PROVE  CleanInv'
<1> USE DEF CleanInv, PlacesHeld
<1>1. CASE Start \/ Refuse \/ Execute \/ Over \/ UNCHANGED vars
  BY <1>1 DEF Start, Refuse, Execute, StartFails, Over, vars, diskVars, ghostVars, Loadable,
              Intact, Serving
<1>2. CASE RemoveEntry \/ ResetFails
  BY <1>2, RemoveEntryStep DEF ResetFails, StartFails, PlaceInv, Serving
<1>3. CASE Load
  BY <1>3 DEF Load, StartFails, Loadable, Intact, Serving, diskVars, ghostVars
<1>4. CASE MakeDir \/ InitConfig
  BY <1>4 DEF MakeDir, InitConfig, PlaceInv, Serving, ghostVars
<1>5. CASE InitDelta
  <2>1. Intact(ConfigOf(Fresh)) /\ Intact(DeltaOf(Fresh))
    BY FreshSession, Saved DEF TypeInv
  <2> QED
    BY <1>5, <2>1 DEF InitDelta, PlaceInv, Loadable, Intact
<1>6. CASE SetChainId
  BY <1>6 DEF SetChainId, StartFails, Loadable, Intact, Serving, diskVars, ghostVars
<1>7. CASE SaveConfig
  <2>1. ~cut => Loadable
    BY <1>7 DEF SaveConfig, Serving
  <2> QED
    BY <1>7, <2>1, Saved DEF SaveConfig, TypeInv, TypeOK, Loadable, Intact, ghostVars
<1>8. CASE SaveDelta
  <2>1. Intact(ConfigOf(mem)) /\ Intact(DeltaOf(mem))
    BY Saved DEF TypeInv, TypeOK
  <2> QED
    BY <1>8, <2>1 DEF SaveDelta, PlaceInv, Loadable, Intact
<1>9. CASE InitFails \/ SaveFails \/ Crash
  BY <1>9, CutShortCut DEF InitFails, StartFails, SaveFails, Crash, PlaceInv, Serving,
                          Loadable, Intact
<1> QED
  BY <1>1, <1>2, <1>3, <1>4, <1>5, <1>6, <1>7, <1>8, <1>9 DEF Next, Opening

\* A server that is stopped between two requests leaves a session that loads, and
\* a start that fails to load one finds what some write that was cut short left.
THEOREM CleanStops == Spec => []CleanStopLoads
<1>1. Init => PlacesHeld /\ CleanInv
  BY InitPlaces DEF Init, CleanInv, Serving
<1>2. PlacesHeld /\ CleanInv /\ [Next]_vars => PlacesHeld' /\ CleanInv'
  BY NextPlaces, NextCleanInv
<1>3. CleanInv => CleanStopLoads
  BY DEF CleanInv, CleanStopLoads
<1> QED
  BY <1>1, <1>2, <1>3, PTL DEF Spec

-----------------------------------------------------------------------------
(* Resets, and starts without one.                                         *)

LEMMA NextResetInv ==
  ASSUME PlacesHeld, ResetStartsAfresh, [Next]_vars
  PROVE  ResetStartsAfresh'
<1> USE DEF ResetStartsAfresh, PlacesHeld
<1>1. CASE Start
  BY <1>1 DEF Start, Serving
<1>2. CASE RemoveEntry \/ ResetFails
  BY <1>2, RemoveEntryStep DEF ResetFails, StartFails, Serving
<1>3. CASE Load \/ Refuse
  BY <1>3 DEF Load, Refuse, StartFails, PlaceInv
<1>4. CASE MakeDir \/ InitConfig
  BY <1>4 DEF MakeDir, InitConfig, Serving
<1>5. CASE InitDelta
  BY <1>5 DEF InitDelta, Fresh, PlaceInv
<1>6. CASE SetChainId \/ Execute
  <2>1. mem'.made = mem.made /\ mem'.base = mem.base
    BY <1>6, ExecuteStep DEF SetChainId, TypeInv, TypeOK, Sessions
  <2>2. UNCHANGED <<opts, starts>> /\ Serving /\ failure' \in {failure, "chainIdZero"}
    BY <1>6, ExecuteStep DEF SetChainId, StartFails, Serving
  <2> QED
    BY <2>1, <2>2
<1>7. CASE SaveConfig \/ SaveDelta
  BY <1>7 DEF SaveConfig, SaveDelta, ghostVars, Serving
<1>8. CASE InitFails \/ SaveFails \/ Crash
  BY <1>8 DEF InitFails, SaveFails, Crash, StartFails, Serving
<1>9. CASE Over \/ UNCHANGED vars
  BY <1>9 DEF Over, vars, Serving
<1> QED
  BY <1>1, <1>2, <1>3, <1>4, <1>5, <1>6, <1>7, <1>8, <1>9 DEF Next, Opening

\* A start with --reset is never stopped by what the directory holds, and serves
\* a session it made itself, with the base it was asked for.
THEOREM ResetsStartAfresh == Spec => []ResetStartsAfresh
<1>1. Init => PlacesHeld /\ ResetStartsAfresh
  BY InitPlaces DEF Init, ResetStartsAfresh, Serving
<1>2. PlacesHeld /\ ResetStartsAfresh /\ [Next]_vars => PlacesHeld' /\ ResetStartsAfresh'
  BY NextPlaces, NextResetInv
<1> QED
  BY <1>1, <1>2, PTL DEF Spec

\* What a step leaves of a directory that was there before the start.
Spares ==
  ~opts'.reset /\ pc \notin {"saveConfig", "saveDelta"} =>
    /\ foreign' = foreign
    /\ config # Absent /\ (Intact(config) => config.made # starts) =>
         config' = config /\ delta' = delta

\* A config.json that is being made is of this start, and intact.
LEMMA StepSpares ==
  ASSUME PlacesHeld, [Next]_vars
  PROVE  Spares
<1> USE DEF Spares, PlacesHeld
<1>1. CASE Start \/ Load \/ Refuse \/ SetChainId \/ Execute \/ ResetFails \/ Over \/ UNCHANGED vars
  BY <1>1 DEF Start, Load, Refuse, SetChainId, Execute, ResetFails, Over, vars, diskVars
<1>2. CASE RemoveEntry
  BY <1>2, RemoveEntryStep DEF PlaceInv
<1>3. CASE MakeDir \/ InitConfig
  BY <1>3 DEF MakeDir, InitConfig, PlaceInv
<1>4. pc = "initDelta" => Intact(config) /\ config.made = starts
  BY FreshSession, Saved DEF PlaceInv, TypeInv, ConfigOf, Fresh
<1>5. CASE InitDelta
  BY <1>4, <1>5 DEF InitDelta
<1>6. CASE SaveConfig \/ SaveDelta
  BY <1>6 DEF SaveConfig, SaveDelta
<1>7. CASE InitFails \/ SaveFails \/ Crash
  <2>1. CutShort
    BY <1>7 DEF InitFails, SaveFails, Crash
  <2> QED
    BY <1>4, <2>1 DEF CutShort, PlaceInv
<1> QED
  BY <1>1, <1>2, <1>3, <1>5, <1>6, <1>7 DEF Next, Opening

\* A start without --reset leaves alone whatever the directory holds, the files of
\* a session, loadable or not, and anybody else's, until it saves into a session
\* it serves.
THEOREM StartsSpare == Spec => StartSparesTheDirectory
<1>1. Init => PlacesHeld
  BY InitPlaces
<1>2. PlacesHeld /\ [Next]_vars => PlacesHeld'
  BY NextPlaces
<1>3. PlacesHeld /\ [Next]_vars => [Spares]_vars
  BY StepSpares
<1>4. Spec => [][Spares]_vars
  BY <1>1, <1>2, <1>3, PTL DEF Spec
<1> QED
  BY <1>4 DEF StartSparesTheDirectory, Spares

-----------------------------------------------------------------------------
(* The directory as one log.                                               *)

\* A log is a beginning of a later one.
Behind(log, later) ==
  \E n \in 0 .. Len(later) : n # Len(later) /\ log = SubSeq(later, 1, n)

\* What delta.json has, if it is intact, is what the server that is up has or a
\* beginning of it.
LogInv ==
  Serving /\ Intact(delta) =>
    delta.changes = mem.changes \/ Behind(delta.changes, mem.changes)

LEMMA AppendBehind ==
  ASSUME NEW s \in Seq(Txns), NEW x \in Txns, NEW log, log = s \/ Behind(log, s)
  PROVE  Behind(log, Append(s, x))
<1>1. PICK m \in Nat : m = Len(s)
  BY LenProperties
<1>2. /\ Append(s, x) \in Seq(Txns) /\ Len(Append(s, x)) = m + 1
      /\ \A i \in 1 .. m : Append(s, x)[i] = s[i]
  BY <1>1
<1>3. \A n \in 0 .. m : SubSeq(Append(s, x), 1, n) = SubSeq(s, 1, n)
  BY <1>1, <1>2
<1>4. PICK n \in 0 .. m : log = SubSeq(s, 1, n)
  <2>1. CASE log = s
    <3>1. SubSeq(s, 1, m) = s
      BY <1>1
    <3> QED
      BY <1>1, <2>1, <3>1
  <2>2. CASE Behind(log, s)
    BY <1>1, <2>2 DEF Behind
  <2> QED
    BY <2>1, <2>2
<1>5. n \in 0 .. Len(Append(s, x)) /\ n # Len(Append(s, x)) /\ log = SubSeq(Append(s, x), 1, n)
  BY <1>2, <1>3, <1>4
<1> QED
  BY <1>5 DEF Behind

\* What is a log or behind it is a beginning of it, the whole one included.
LEMMA BehindPart ==
  ASSUME NEW s \in Seq(Txns), NEW log, log = s \/ Behind(log, s)
  PROVE  \E n \in 0 .. Len(s) : log = SubSeq(s, 1, n)
<1>1. Len(s) \in 0 .. Len(s) /\ SubSeq(s, 1, Len(s)) = s
  OBVIOUS
<1> QED
  BY <1>1 DEF Behind

LEMMA NextLogInv ==
  ASSUME PlacesHeld, LogInv, [Next]_vars
  PROVE  LogInv'
<1> USE DEF LogInv, PlacesHeld
<1>1. CASE UNCHANGED <<delta, mem>> /\ (Serving' => Serving)
  BY <1>1 DEF Intact
<1>2. CASE Start \/ Refuse \/ MakeDir \/ ResetFails \/ InitConfig \/ SaveConfig \/ Over
           \/ UNCHANGED vars
  <2>1. UNCHANGED <<delta, mem>> /\ (Serving' => Serving)
    BY <1>2 DEF Start, Refuse, MakeDir, ResetFails, InitConfig, SaveConfig, StartFails, Over,
                vars, diskVars, ghostVars, Serving
  <2> QED
    BY <1>1, <2>1
<1>3. CASE RemoveEntry
  BY <1>3, RemoveEntryStep DEF Serving
<1>4. CASE Load
  <2>1. CASE Loadable
    BY <1>4, <2>1 DEF Load, Loaded, diskVars
  <2>2. CASE ~Loadable
    BY <1>4, <2>2 DEF Load, StartFails, Serving
  <2> QED
    BY <2>1, <2>2
<1>5. CASE InitDelta
  <2>1. delta'.changes = mem'.changes
    BY <1>5 DEF InitDelta, DeltaOf, Fresh
  <2> QED
    BY <2>1
<1>6. CASE SetChainId
  <2>1. delta' = delta /\ Serving /\ mem'.changes = mem.changes
    BY <1>6 DEF SetChainId, StartFails, diskVars, Serving, TypeInv, TypeOK, Sessions
  <2> QED
    BY <2>1 DEF Intact
<1>7. CASE Execute
  <2>1. delta' = delta /\ Serving /\ mem.changes \in Seq(Txns) /\ txn' \in Txns
    BY <1>7, ExecuteStep DEF Serving, TypeInv, TypeOK, Sessions
  <2>2. CASE mem'.changes = mem.changes
    BY <2>1, <2>2 DEF Intact
  <2>3. CASE mem'.changes = Append(mem.changes, txn')
    <3>1. Intact(delta) => Behind(delta.changes, Append(mem.changes, txn'))
      BY <2>1, AppendBehind
    <3>2. Intact(delta)' => Behind(delta.changes, mem.changes)'
      BY <2>1, <2>3, <3>1 DEF Intact, Behind
    <3> QED
      BY <3>2
  <2> QED
    BY <1>7, <2>2, <2>3, ExecuteStep
<1>8. CASE SaveDelta
  BY <1>8 DEF SaveDelta, DeltaOf
<1>9. CASE InitFails \/ SaveFails \/ Crash
  <2>1. CutShort /\ mem' = mem /\ (Serving' => Serving)
    BY <1>9 DEF InitFails, StartFails, SaveFails, Crash, Serving
  <2> QED
    BY <2>1, CutShortIntact DEF Behind
<1> QED
  BY <1>2, <1>3, <1>4, <1>5, <1>6, <1>7, <1>8, <1>9 DEF Next, Opening

\* What a file being cut short means for the log: it is as it was, or it was being
\* saved and is lost.
LEMMA CutShortLog ==
  ASSUME CutShort, Serving
  PROVE  SavedLog' = SavedLog \/ (SavedLog' = {} /\ BeingSaved # {})
<1>1. CASE Loadable'
  <2>1. Loadable /\ delta' = delta
    BY <1>1, CutShortIntact DEF Loadable
  <2> QED
    BY <1>1, <2>1 DEF SavedLog
<1>2. CASE ~ Loadable' /\ ~ Loadable
  BY <1>2 DEF SavedLog
<1>3. CASE ~ Loadable' /\ Loadable
  <2>1. pc \in {"saveConfig", "saveDelta"}
    BY <1>3 DEF CutShort, Serving, Loadable, Intact
  <2> QED
    BY <1>3, <2>1 DEF SavedLog, BeingSaved
<1> QED
  BY <1>1, <1>2, <1>3

\* Nothing is being saved where nothing is served.
LEMMA IdleElsewhere ==
  /\ ~ Serving => BeingSaved = {}
  /\ ~ Serving' => BeingSaved' = {}
BY DEF Serving, BeingSaved

\* Every step of a server on the directory is a step of the log, or none.
LEMMA StepIsDurable ==
  ASSUME PlacesHeld, AckInv, LogInv, [Next]_vars
  PROVE  [ToDurable!Next]_(ToDurable!durableVars)
<1> USE DEF PlacesHeld
<1>1. CASE UNCHANGED <<SavedLog, ServedLog, BeingSaved, acked>>
  BY <1>1 DEF ToDurable!durableVars
<1>2. CASE /\ UNCHANGED <<config, delta, acked>> /\ ~ Serving /\ ~ Serving'
  BY <1>1, <1>2, IdleElsewhere DEF SavedLog, ServedLog, Loadable, Intact
<1>3. CASE Start \/ Refuse \/ MakeDir
  <2>1. UNCHANGED <<config, delta, acked>> /\ ~ Serving /\ ~ Serving'
    BY <1>3 DEF Start, Refuse, MakeDir, StartFails, diskVars, ghostVars, Serving
  <2> QED
    BY <1>2, <2>1
<1>4. CASE Over \/ UNCHANGED vars
  <2>1. UNCHANGED <<config, delta, acked, mem, pc, txn>>
    BY <1>4 DEF Over, vars, diskVars, ghostVars
  <2> QED
    BY <1>1, <2>1 DEF SavedLog, ServedLog, BeingSaved, Loadable, Intact, Serving
<1>5. CASE RemoveEntry \/ ResetFails
  <2>1. /\ ServedLog = {} /\ ServedLog' = {} /\ acked' = {}
        /\ BeingSaved = {} /\ BeingSaved' = {}
    BY <1>5, RemoveEntryStep DEF ResetFails, StartFails, ServedLog, BeingSaved, Serving
  <2>2. SavedLog' \in {SavedLog, {}}
    BY <1>5, RemoveEntryStep DEF ResetFails, diskVars, SavedLog, Loadable, Intact
  <2> QED
    BY <2>1, <2>2 DEF ToDurable!Next, ToDurable!Reset
<1>6. CASE Load
  <2>1. UNCHANGED <<config, delta, acked>> /\ ~ Serving
    BY <1>6 DEF Load, diskVars, ghostVars, Serving
  <2>2. CASE Loadable
    <3>1. mem'.changes = delta.changes /\ Serving' /\ BeingSaved = {} /\ BeingSaved' = {}
      BY <1>6, <2>2 DEF Load, Loaded, Serving, BeingSaved
    <3>2. /\ SavedLog = {delta.changes} /\ SavedLog' = SavedLog
          /\ ServedLog = {} /\ ServedLog' = {delta.changes}
      BY <2>1, <2>2, <3>1 DEF SavedLog, ServedLog, Loadable, Intact
    <3> QED
      BY <2>1, <3>1, <3>2 DEF ToDurable!Next, ToDurable!Resume
  <2>3. CASE ~ Loadable
    BY <1>2, <1>6, <2>1, <2>3 DEF Load, StartFails, Serving
  <2> QED
    BY <2>2, <2>3
<1>7. CASE InitConfig
  <2>1. ~ Loadable /\ ~ Loadable' /\ ~ Serving /\ ~ Serving' /\ acked' = acked
    BY <1>7 DEF InitConfig, PlaceInv, Loadable, Intact, Serving, ghostVars
  <2> QED
    BY <1>1, <2>1, IdleElsewhere DEF SavedLog, ServedLog
<1>8. CASE InitDelta
  <2>1. /\ ~ Loadable /\ ~ Serving /\ acked = {} /\ acked' = acked /\ Serving'
        /\ BeingSaved = {} /\ BeingSaved' = {}
    BY <1>8 DEF InitDelta, PlaceInv, AckInv, Loadable, Intact, Serving, BeingSaved
  <2>2. config' = ConfigOf(Fresh) /\ delta' = DeltaOf(Fresh) /\ mem' = Fresh
    BY <1>8 DEF InitDelta, PlaceInv
  <2>3. Intact(ConfigOf(Fresh)) /\ Intact(DeltaOf(Fresh))
    BY FreshSession, Saved DEF TypeInv
  <2>4. Loadable' /\ delta'.changes = <<>> /\ mem'.changes = <<>>
    BY <2>2, <2>3 DEF Loadable, Intact, DeltaOf, Fresh
  <2>5. SavedLog = {} /\ ServedLog = {} /\ SavedLog' = {<<>>} /\ ServedLog' = {<<>>}
    BY <2>1, <2>4 DEF SavedLog, ServedLog
  <2> QED
    BY <2>1, <2>5 DEF ToDurable!Next, ToDurable!Found
<1>9. CASE SetChainId
  <2>1. /\ UNCHANGED <<config, delta, acked>> /\ Serving /\ mem'.changes = mem.changes
        /\ pc' \in {"up", "down"} /\ BeingSaved = {} /\ BeingSaved' = {}
    BY <1>9 DEF SetChainId, StartFails, diskVars, ghostVars, Serving, BeingSaved, TypeInv,
                TypeOK, Sessions
  <2>2. SavedLog' = SavedLog
    BY <2>1 DEF SavedLog, Loadable, Intact
  <2>3. CASE Serving'
    BY <1>1, <2>1, <2>2, <2>3 DEF ServedLog
  <2>4. CASE ~ Serving'
    <3>1. ServedLog # {} /\ ServedLog' = {}
      BY <2>1, <2>4 DEF ServedLog
    <3> QED
      BY <2>1, <2>2, <3>1 DEF ToDurable!Next, ToDurable!Stop
  <2> QED
    BY <2>3, <2>4
<1>10. CASE Execute
  <2>1. /\ UNCHANGED <<config, delta, acked>> /\ Serving /\ Serving' /\ txn' \in Txns
        /\ BeingSaved = {} /\ BeingSaved' = {txn'}
    BY <1>10, ExecuteStep DEF Serving, BeingSaved
  <2>2. SavedLog' = SavedLog /\ ServedLog = {mem.changes} /\ ServedLog' = {mem'.changes}
    BY <2>1 DEF SavedLog, ServedLog, Loadable, Intact
  <2>3. CASE mem'.changes = mem.changes
    BY <2>1, <2>2, <2>3 DEF ToDurable!Next, ToDurable!Change
  <2>4. CASE txn' \notin ToSet(mem.changes) /\ mem'.changes = Append(mem.changes, txn')
    BY <2>1, <2>2, <2>4 DEF ToDurable!Next, ToDurable!Change, ToDurable!ToSet, ToSet
  <2> QED
    BY <1>10, <2>3, <2>4, ExecuteStep
<1>11. CASE SaveConfig
  <2>1. UNCHANGED <<delta, mem, acked>> /\ Serving /\ Serving' /\ pc = "saveConfig"
    BY <1>11 DEF SaveConfig, ghostVars, Serving
  <2>2. /\ ServedLog = {mem.changes} /\ ServedLog' = ServedLog
        /\ BeingSaved = {txn} /\ BeingSaved' = BeingSaved
    BY <1>11, <2>1 DEF SaveConfig, ServedLog, BeingSaved
  <2>3. CASE Intact(delta) /\ ~ Loadable
    <3>1. Intact(config)'
      BY <1>11, Saved DEF SaveConfig, TypeInv, TypeOK, Intact
    <3>2. SavedLog = {} /\ SavedLog' = {delta.changes}
      BY <2>1, <2>3, <3>1 DEF SavedLog, Loadable, Intact
    <3>3. PICK n \in 0 .. Len(mem.changes) : delta.changes = SubSeq(mem.changes, 1, n)
      <4>1. mem.changes \in Seq(Txns)
        BY DEF TypeInv, TypeOK, Sessions
      <4> QED
        BY <2>1, <2>3, <4>1, BehindPart DEF LogInv
    <3>4. acked \subseteq ToSet(SubSeq(mem.changes, 1, n))
      BY <2>3, <3>3 DEF AckInv
    <3>5. ToDurable!Mend
      BY <2>1, <2>2, <3>2, <3>3, <3>4 DEF ToDurable!Mend, ToDurable!ToSet, ToSet
    <3> QED
      BY <3>5 DEF ToDurable!Next
  <2>4. CASE ~ Intact(delta) \/ Loadable
    <3>1. Loadable' <=> Loadable
      <4>1. Intact(config)'
        BY <1>11, Saved DEF SaveConfig, TypeInv, TypeOK, Intact
      <4> QED
        BY <2>1, <2>4, <4>1 DEF Loadable, Intact
    <3>2. SavedLog' = SavedLog
      BY <2>1, <3>1 DEF SavedLog
    <3> QED
      BY <1>1, <2>1, <2>2, <3>2
  <2> QED
    BY <2>3, <2>4
<1>12. CASE SaveDelta
  <2>1. /\ config' = config /\ delta' = DeltaOf(mem) /\ mem' = mem
        /\ acked' = acked \cup ({txn} \cap ToSet(mem.changes))
        /\ Serving /\ Serving' /\ pc = "saveDelta" /\ BeingSaved = {txn} /\ BeingSaved' = {}
    BY <1>12 DEF SaveDelta, Serving, BeingSaved
  <2>2. Loadable' /\ delta'.changes = mem.changes
    <3>1. config = ConfigOf(mem)
      BY <2>1 DEF PlaceInv
    <3>2. Intact(ConfigOf(mem)) /\ Intact(DeltaOf(mem))
      BY Saved DEF TypeInv, TypeOK
    <3> QED
      BY <2>1, <3>1, <3>2 DEF Loadable, Intact, DeltaOf
  <2>3. ServedLog = {mem.changes} /\ ServedLog' = ServedLog /\ SavedLog' = ServedLog
    BY <2>1, <2>2 DEF SavedLog, ServedLog
  <2> QED
    BY <2>1, <2>3 DEF ToDurable!Next, ToDurable!Acknowledge, ToDurable!ToSet, ToSet
<1>13. CASE InitFails
  <2>1. CutShort /\ acked' = acked /\ ~ Serving /\ ~ Serving' /\ (Loadable => pc = "open")
    BY <1>13 DEF InitFails, StartFails, Serving, PlaceInv, Loadable, Intact
  <2>2. SavedLog' = SavedLog
    BY <2>1, CutShortIntact DEF CutShort, SavedLog, Loadable, Intact
  <2> QED
    BY <1>1, <2>1, <2>2, IdleElsewhere DEF ServedLog
<1>14. CASE SaveFails
  <2>1. /\ CutShort /\ mem' = mem /\ acked' = acked /\ Serving /\ Serving'
        /\ BeingSaved = {txn} /\ BeingSaved' = {}
    BY <1>14 DEF SaveFails, Serving, BeingSaved
  <2>2. ServedLog' = ServedLog
    BY <2>1 DEF ServedLog
  <2>3. SavedLog' = SavedLog \/ SavedLog' = {}
    BY <2>1, CutShortLog
  <2> QED
    BY <2>1, <2>2, <2>3 DEF ToDurable!Next, ToDurable!FailSave
<1>15. CASE Crash
  <2>1. CutShort /\ acked' = acked /\ ~ Serving' /\ BeingSaved' = {}
    BY <1>15 DEF Crash, Serving, BeingSaved
  <2>2. CASE Serving
    <3>1. ServedLog # {} /\ ServedLog' = {}
      BY <2>1, <2>2 DEF ServedLog
    <3>2. SavedLog' = SavedLog \/ (SavedLog' = {} /\ BeingSaved # {})
      BY <2>1, <2>2, CutShortLog
    <3> QED
      BY <2>1, <3>1, <3>2 DEF ToDurable!Next, ToDurable!Stop
  <2>3. CASE ~ Serving
    <3>1. Loadable => pc \notin {"initConfig", "initDelta"}
      BY DEF PlaceInv, Loadable, Intact
    <3>2. SavedLog' = SavedLog
      BY <2>1, <2>3, <3>1, CutShortIntact DEF CutShort, SavedLog, Loadable, Intact, Serving
    <3> QED
      BY <1>1, <2>1, <2>3, <3>2, IdleElsewhere DEF ServedLog
  <2> QED
    BY <2>2, <2>3
<1> QED
  BY <1>3, <1>4, <1>5, <1>6, <1>7, <1>8, <1>9, <1>10, <1>11, <1>12, <1>13, <1>14, <1>15
  DEF Next, Opening

\* The two files are one log to whoever starts servers on the directory, for any
\* number of starts, crashes and failed saves: saved as a whole with each
\* acknowledgement, lost only in a save that is cut short, be it that of a
\* transaction that was discarded, or by a reset, and begun anew only where nothing
\* was acknowledged.
THEOREM DirectoryIsDurable == Spec => ImplementsDurable
<1>1. Init => PlacesHeld /\ AckInv /\ LogInv
  BY InitPlaces DEF Init, AckInv, LogInv, Intact, Serving
<1>2. PlacesHeld /\ AckInv /\ LogInv /\ [Next]_vars => PlacesHeld' /\ AckInv' /\ LogInv'
  BY NextPlaces, NextAckInv, NextLogInv
<1>3. Init => ToDurable!Init
  BY DEF Init, ToDurable!Init, SavedLog, ServedLog, BeingSaved, Loadable, Intact, Serving
<1>4. PlacesHeld /\ AckInv /\ LogInv /\ [Next]_vars => [ToDurable!Next]_(ToDurable!durableVars)
  BY StepIsDurable
<1> QED
  BY <1>1, <1>2, <1>3, <1>4, PTL DEF Spec, ImplementsDurable, ToDurable!Spec

=============================================================================
