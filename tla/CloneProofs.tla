------------------------------ MODULE CloneProofs ------------------------------
(***************************************************************************)
(* What the dry runs leave behind, find and see, for any number of         *)
(* concurrent requests.                                                    *)
(*                                                                         *)
(* That a dry run leaves nothing behind holds whatever the clock says.     *)
(* That it finds its clone, and a session that was really there, is proved *)
(* for clock readings that differ (~ SameTick): with equal ones the dry    *)
(* runs share a directory.                                                 *)
(***************************************************************************)
EXTENDS SessionWrapperProofs

-----------------------------------------------------------------------------
(* Nothing is left behind.                                                 *)

\* The answers of a dry run that did not get to remove its directory.
Leaves(answer) == answer \in {"panicked", "left"}

\* A directory that is there is named by a dry run on its way to its removal, or by
\* one whose VM panicked or whose removal failed.
LeftoverInv ==
  \A p \in Tasks : tempDirs[p] # NoDir =>
    \E t \in Tasks :
      /\ path[t] = p /\ Kind(t) \in CloneKinds
      /\ pc[t] \in {"acquire", "copy", "load", "cleanup"} \/ Leaves(reply[t])

\* A directory comes into being only when a dry run names it.
LEMMA NewDirectory ==
  ASSUME HistoryInv, NEW t \in Tasks, Step(t), NEW p \in Tasks,
         tempDirs[p] = NoDir, tempDirs'[p] # NoDir
  PROVE  MakeTemp(t) /\ path'[t] = p
<1>1. path \in [Tasks -> Tasks] /\ tempDirs \in [Tasks -> Seq(Changes) \cup {Torn, NoDir}]
  BY DEF HistoryInv, TypeInv, TypeOK
<1>2. CASE MakeTemp(t)
  BY <1>1, <1>2 DEF MakeTemp
<1>3. CASE CopySession(t)
  BY <1>1, <1>3 DEF CopySession
<1>4. CASE RunClone(t)
  BY <1>1, <1>4 DEF RunClone
<1>5. CASE Cleanup(t)
  BY <1>1, <1>5 DEF Cleanup
<1>6. CASE CopyFails(t) \/ CleanupFails(t)
  BY <1>1, <1>6 DEF CopyFails, CleanupFails
<1> QED
  BY <1>2, <1>3, <1>4, <1>5, <1>6
  DEF Step, Begin, Acquire, RunVm, VmFails, ApplyWriteSet, FundAccount, Persist, PersistFails,
      Bump, IncrementOps, ReadOps, StoreRecord, MakeTempFails, CloneFails, ClonePanics,
      ReadSession

LEMMA NextLeftoverInv ==
  ASSUME HistoryInv, LeftoverInv, NEW t \in Tasks, Step(t)
  PROVE  LeftoverInv'
<1> SUFFICES ASSUME NEW p \in Tasks, tempDirs'[p] # NoDir
             PROVE  \E u \in Tasks :
                      /\ path'[u] = p /\ Kind(u)' \in CloneKinds
                      /\ \/ pc'[u] \in {"acquire", "copy", "load", "cleanup"}
                         \/ Leaves(reply'[u])
  BY DEF LeftoverInv
<1>1. /\ pc \in [Tasks -> Labels] /\ path \in [Tasks -> Tasks] /\ reply \in [Tasks -> Replies]
      /\ tempDirs \in [Tasks -> Seq(Changes) \cup {Torn, NoDir}]
  BY DEF HistoryInv, TypeInv, TypeOK
<1>2. Goes(t) /\ (pc[t] # "idle" => request' = request)
  BY Moves DEF HistoryInv
<1>3. CASE tempDirs[p] = NoDir
  <2>1. MakeTemp(t) /\ path'[t] = p
    BY <1>3, NewDirectory
  <2> QED
    BY <1>1, <1>2, <2>1 DEF MakeTemp, Goto, HistoryInv, FlowInv, Kind
<1>4. CASE tempDirs[p] # NoDir
  <2>1. PICK u \in Tasks :
          /\ path[u] = p /\ Kind(u) \in CloneKinds
          /\ pc[u] \in {"acquire", "copy", "load", "cleanup"} \/ Leaves(reply[u])
    BY <1>4 DEF LeftoverInv
  <2>2. CASE u # t
    <3>1. /\ path'[u] = path[u] /\ pc'[u] = pc[u] /\ reply'[u] = reply[u]
          /\ request'[u] = request[u]
      BY <2>2, OthersUnchanged DEF HistoryInv
    <3> QED
      BY <2>1, <3>1 DEF Kind
  <2>3. CASE u = t
    <3>1. ~ Leaves(reply[t])
      BY <1>2 DEF Leaves, Goes, HistoryInv, FlowInv
    <3>2. /\ pc[t] \in {"acquire", "copy", "load", "cleanup"} /\ Kind(t)' = Kind(t)
          /\ Kind(t) \in CloneKinds /\ path[t] = p
      BY <1>2, <2>1, <2>3, <3>1 DEF Kind
    <3>3. path' = path
      BY <3>2, StepsAt DEF Acquire, CopySession, CopyFails, RunClone, CloneFails, ClonePanics,
         Cleanup, CleanupFails
    <3>4. CASE pc[t] = "acquire"
      BY <1>1, <3>2, <3>3, <3>4, StepsAt DEF Acquire, AfterAcquire, CloneKinds, Goto
    <3>5. CASE pc[t] = "copy"
      BY <1>2, <3>2, <3>3, <3>5 DEF Goes
    <3>6. CASE pc[t] = "load"
      BY <1>1, <3>2, <3>3, <3>6, StepsAt
      DEF RunClone, CloneFails, ClonePanics, Goto, Leaves
    <3>7. CASE pc[t] = "cleanup" /\ Cleanup(t)
      BY <1>1, <3>2, <3>7 DEF Cleanup
    <3>8. CASE pc[t] = "cleanup" /\ CleanupFails(t)
      BY <1>1, <3>2, <3>3, <3>8 DEF CleanupFails, Leaves
    <3> QED
      BY <3>2, <3>4, <3>5, <3>6, <3>7, <3>8, StepsAt
  <2> QED
    BY <2>2, <2>3
<1> QED
  BY <1>3, <1>4

\* Once every request is answered, a directory that is still there is named by the
\* clock reading of a dry run whose VM panicked, or whose own removal of it failed:
\* every other failure of a dry run, and every use of its path by another, leaves
\* nothing behind.
THEOREM NothingLeftBehind == Spec => []ClonesRemoved
<1>1. Init => LeftoverInv
  BY DEF Init, LeftoverInv
<1>2. HistoryInv /\ LeftoverInv /\ [Next]_vars => LeftoverInv'
  <2>1. ASSUME LeftoverInv, UNCHANGED vars PROVE LeftoverInv'
    BY <2>1 DEF vars, LeftoverInv, Kind
  <2> QED
    BY <2>1, NextLeftoverInv DEF Next, Quiet
<1>3. LeftoverInv => ClonesRemoved
  BY DEF LeftoverInv, Leaves, ClonesRemoved, AllDone
<1> QED
  BY <1>1, <1>2, <1>3, HistoryHeld, PTL DEF Spec

-----------------------------------------------------------------------------
(* A clone is there and whole.                                             *)

\* With clock readings that differ each dry run has its own directory from the
\* time it made it, and only a save that failed leaves a torn file to copy.
CloneInv ==
  /\ \A t \in Tasks :
       /\ path[t] = t
       /\ pc[t] \in {"acquire", "copy", "load"} /\ Kind(t) \in CloneKinds => tempDirs[t] # NoDir
       /\ pc[t] = "load" /\ tempDirs[t] = Torn => \E u \in Tasks : SaveFailed(u)
  /\ delta = Torn => \E u \in Tasks : SaveFailed(u)

\* A request that failed stays so.
LEMMA FailureStays ==
  ASSUME HistoryInv, NEW t \in Tasks, Step(t), NEW u \in Tasks, SaveFailed(u)
  PROVE  SaveFailed(u)'
<1>1. pc[u] = "done"
  BY DEF SaveFailed, HistoryInv, FlowInv, CloneKinds
<1>2. request'[u] = request[u] /\ reply'[u] = reply[u]
  BY <1>1, DoneStays
<1> QED
  BY <1>2 DEF SaveFailed, Kind

\* A copy is of what the last save left: nobody saves while the session is copied.
LEMMA CopiedWhole ==
  ASSUME HistoryInv, NEW t \in Tasks, pc[t] = "copy"
  PROVE  DeltaOnDisk = delta
<1>1. \A u \in Tasks : pc[u] # "persist"
  BY DEF HistoryInv, LockInv, InSession
<1> QED
  BY <1>1 DEF DeltaOnDisk

LEMMA NextCloneInv ==
  ASSUME HistoryInv, CloneInv, ~ SameTick, NEW t \in Tasks, Step(t)
  PROVE  CloneInv'
<1>1. /\ pc \in [Tasks -> Labels] /\ path \in [Tasks -> Tasks] /\ reply \in [Tasks -> Replies]
      /\ tempDirs \in [Tasks -> Seq(Changes) \cup {Torn, NoDir}]
  BY DEF HistoryInv, TypeInv, TypeOK
<1>2. Goes(t) /\ (pc[t] # "idle" => request' = request)
  BY Moves DEF HistoryInv
<1>3. path' = path
  <2>1. CASE MakeTemp(t)
    BY <1>1, <2>1 DEF MakeTemp, ClockReadings, CloneInv
  <2> QED
    BY <2>1 DEF Step, Begin, Acquire, RunVm, VmFails, ApplyWriteSet, FundAccount, Persist,
       PersistFails, Bump, IncrementOps, ReadOps, StoreRecord, MakeTempFails, CopySession,
       CopyFails, RunClone, CloneFails, ClonePanics, Cleanup, CleanupFails, ReadSession
<1>4. \A u \in Tasks \ {t} : tempDirs'[u] = tempDirs[u]
  <2>1. path[t] = t
    BY DEF CloneInv
  <2>2. tempDirs' = tempDirs \/ \E dir : tempDirs' = [tempDirs EXCEPT ![t] = dir]
    BY <1>1, <2>1 DEF Step, Begin, Acquire, RunVm, VmFails, ApplyWriteSet, FundAccount, Persist,
       PersistFails, Bump, IncrementOps, ReadOps, StoreRecord, MakeTemp, MakeTempFails,
       ClockReadings, CopySession, CopyFails, RunClone, CloneFails, ClonePanics, Cleanup,
       CleanupFails, ReadSession
  <2> QED
    BY <1>1, <2>2
<1>5. \A u \in Tasks \ {t} : pc'[u] = pc[u] /\ request'[u] = request[u]
  BY OthersUnchanged DEF HistoryInv
<1>6. (\E u \in Tasks : SaveFailed(u)) => \E u \in Tasks : SaveFailed(u)'
  BY FailureStays
<1>7. delta' = Torn => \E u \in Tasks : SaveFailed(u)'
  <2>1. CASE PersistFails(t)
    BY <1>1, <2>1 DEF PersistFails, ReleaseAnd, HistoryInv, TypeInv, KindInv, SaveFailed, Kind,
       TxnKinds
  <2>2. CASE Persist(t)
    <3>1. delta' \in Seq(Changes)
      BY <2>2 DEF Persist, HistoryInv, TypeInv, TypeOK
    <3> QED
      BY <3>1, MarkAssumption
  <2>3. CASE ~ PersistFails(t) /\ ~ Persist(t)
    <3>1. delta' = delta
      BY <2>3 DEF Step, Begin, Acquire, RunVm, VmFails, ApplyWriteSet, FundAccount, Bump,
         IncrementOps, ReadOps, StoreRecord, MakeTemp, MakeTempFails, CopySession, CopyFails,
         RunClone, CloneFails, ClonePanics, Cleanup, CleanupFails, ReadSession
    <3> QED
      BY <1>6, <3>1 DEF CloneInv
  <2> QED
    BY <2>1, <2>2, <2>3
<1>8. /\ pc'[t] \in {"acquire", "copy", "load"} /\ Kind(t)' \in CloneKinds => tempDirs'[t] # NoDir
      /\ pc'[t] = "load" /\ tempDirs'[t] = Torn => \E u \in Tasks : SaveFailed(u)'
  <2>1. CASE pc[t] = "idle"
    <3>1. PICK r \in Requests :
            /\ request' = [request EXCEPT ![t] = r]
            /\ IF r.kind \in CloneKinds THEN Goto(t, "mktemp") ELSE Goto(t, "acquire")
      BY <2>1, StepsAt DEF Begin
    <3>2. Kind(t)' = r.kind
      BY <3>1 DEF Kind, HistoryInv, TypeInv, TypeOK
    <3>3. pc'[t] = IF r.kind \in CloneKinds THEN "mktemp" ELSE "acquire"
      BY <1>1, <3>1 DEF Goto
    <3> QED
      BY <3>2, <3>3
  <2>2. CASE pc[t] = "mktemp"
    <3>1. ClockReadings(t) = {t}
      BY DEF ClockReadings
    <3>2. CASE MakeTemp(t)
      <4>1. tempDirs'[t] # NoDir
        BY <1>1, <3>1, <3>2, MarkAssumption DEF MakeTemp
      <4> QED
        BY <1>2, <2>2, <4>1 DEF Goes
    <3>3. CASE MakeTempFails(t)
      BY <1>1, <3>3 DEF MakeTempFails, Goto
    <3> QED
      BY <2>2, <3>2, <3>3, StepsAt
  <2>3. CASE pc[t] = "acquire"
    <3>1. /\ Acquire(t) /\ Kind(t)' = Kind(t) /\ tempDirs' = tempDirs
      BY <2>3, StepsAt DEF Acquire, Kind
    <3> QED
      BY <1>2, <2>3, <3>1 DEF Goes, CloneInv
  <2>4. CASE pc[t] = "copy"
    <3>1. Kind(t) \in CloneKinds /\ tempDirs[t] # NoDir /\ path[t] = t
      BY <2>4 DEF CloneInv, HistoryInv, TypeInv, KindInv
    <3>2. CASE CopySession(t)
      <4>1. tempDirs'[t] = delta /\ delta \in Seq(Changes) \cup {Torn}
        BY <1>1, <2>4, <3>1, <3>2, CopiedWhole DEF CopySession, HistoryInv, TypeInv, TypeOK
      <4> QED
        BY <1>6, <4>1, MarkAssumption DEF CloneInv
    <3>3. CASE CopyFails(t)
      BY <1>1, <3>3 DEF CopyFails, Goto
    <3> QED
      BY <2>4, <3>2, <3>3, StepsAt
  <2> QED
    BY <1>2, <2>1, <2>2, <2>3, <2>4, StepsAt DEF Goes
<1>9. ASSUME NEW u \in Tasks
      PROVE  /\ path'[u] = u
             /\ pc'[u] \in {"acquire", "copy", "load"} /\ Kind(u)' \in CloneKinds
                  => tempDirs'[u] # NoDir
             /\ pc'[u] = "load" /\ tempDirs'[u] = Torn => \E v \in Tasks : SaveFailed(v)'
  BY <1>3, <1>4, <1>5, <1>6, <1>8 DEF CloneInv, Kind
<1> QED
  BY <1>7, <1>9 DEF CloneInv

LEMMA InitClones == Init => CloneInv
<1> SUFFICES ASSUME Init PROVE CloneInv
  OBVIOUS
<1>1. delta # Torn
  <2>1. delta = <<>> /\ <<>> \in Seq(Changes)
    BY DEF Init
  <2> QED
    BY <2>1, MarkAssumption
<1> QED
  BY <1>1 DEF Init, CloneInv

LEMMA ClonesHeld ==
  ASSUME ~ SameTick
  PROVE  Spec => [](HistoryInv /\ CloneInv)
<1>1. HistoryInv /\ CloneInv /\ [Next]_vars => CloneInv'
  <2>1. ASSUME CloneInv, UNCHANGED vars PROVE CloneInv'
    BY <2>1 DEF vars, CloneInv, SaveFailed, Kind
  <2> QED
    BY <2>1, NextCloneInv DEF Next, Quiet
<1> QED
  BY <1>1, InitClones, HistoryHeld, PTL DEF Spec

LEMMA ClonesLoadGoal == HistoryInv /\ CloneInv => ClonesLoad
BY DEF CloneInv, ClonesLoad, HistoryInv, TypeInv, KindInv

\* A clone that is about to be loaded is there, and whole unless a save of the
\* session's own file failed.
THEOREM ClonesAreWhole ==
  ASSUME ~ SameTick
  PROVE  Spec => []ClonesLoad
BY ClonesHeld, ClonesLoadGoal, PTL

-----------------------------------------------------------------------------
(* What a reader sees.                                                     *)

\* Prefixes, position by position.
LEMMA PrefixElements ==
  ASSUME NEW s \in Seq(Changes), NEW r \in Seq(Changes)
  PROVE  IsPrefix(s, r) <=> Len(s) <= Len(r) /\ \A i \in 1 .. Len(s) : s[i] = r[i]
<1>1. Len(s) \in Nat /\ Len(r) \in Nat
  BY LenProperties
<1>2. SubSeq(s, 1, Len(s)) = s
  BY SubSeqFull
<1> SUFFICES ASSUME Len(s) <= Len(r)
             PROVE  s = SubSeq(r, 1, Len(s)) <=> \A i \in 1 .. Len(s) : s[i] = r[i]
  BY <1>2 DEF IsPrefix
<1>3. \A i \in 1 .. Len(s) : r[i] \in Changes
  BY <1>1, ElementOfSeq
<1>4. /\ SubSeq(r, 1, Len(s)) \in Seq(Changes)
      /\ Len(SubSeq(r, 1, Len(s))) = IF 1 <= Len(s) THEN Len(s) - 1 + 1 ELSE 0
      /\ \A i \in 1 .. Len(s) - 1 + 1 : SubSeq(r, 1, Len(s))[i] = r[1 + i - 1]
  BY <1>1, <1>3, SubSeqProperties
<1>5. /\ Len(SubSeq(r, 1, Len(s))) = Len(s)
      /\ \A i \in 1 .. Len(s) : SubSeq(r, 1, Len(s))[i] = r[i]
  BY <1>1, <1>4
<1>6. ASSUME \A i \in 1 .. Len(s) : s[i] = r[i] PROVE s = SubSeq(r, 1, Len(s))
  BY <1>4, <1>5, <1>6, SeqEqual
<1> QED
  BY <1>5, <1>6

\* A prefix of the session stays one.
LEMMA PrefixStays ==
  ASSUME HistoryInv, NEW t \in Tasks, Step(t), NEW s \in Seq(Changes), IsPrefix(s, session)
  PROVE  IsPrefix(s, session')
<1>1. /\ session \in Seq(Changes) /\ Len(session) \in Nat /\ DOMAIN session = 1 .. Len(session)
      /\ Len(s) \in Nat
  BY SessionFacts, LenProperties DEF HistoryInv
<1>2. Len(s) <= Len(session) /\ \A i \in 1 .. Len(s) : s[i] = session[i]
  BY <1>1, PrefixElements
<1>3. ASSUME NEW change \in Changes, session' = Append(session, change)
      PROVE  IsPrefix(s, session')
  <2>1. /\ Len(session') = Len(session) + 1
        /\ \A i \in DOMAIN session : session'[i] = session[i]
    BY <1>3, Growth DEF HistoryInv
  <2>2. session' \in Seq(Changes)
    BY <1>1, <1>3, AppendProperties
  <2>3. Len(s) <= Len(session') /\ \A i \in 1 .. Len(s) : s[i] = session'[i]
    BY <1>1, <1>2, <2>1
  <2> QED
    BY <2>2, <2>3, PrefixElements
<1> QED
  BY <1>3, SessionStep DEF HistoryInv

\* A request whose change was saved.
Saved(t) == pc[t] \in {"bump", "increment", "readOps", "record"} \/ reply[t] = "ok"

\* delta.json, where it can be read, holds a beginning of the session with every
\* change whose save succeeded.
SavedInv ==
  delta # Torn =>
    /\ delta \in Seq(Changes) /\ IsPrefix(delta, session)
    /\ \A i \in DOMAIN session :
         session[i].by \in Tasks /\ Saved(session[i].by) => i \in DOMAIN delta

\* The author of a change becomes saved by its save alone.
LEMMA SavedBefore ==
  ASSUME HistoryInv, NEW t \in Tasks, Step(t), ~ Persist(t),
         NEW i \in DOMAIN session', session'[i].by \in Tasks, Saved(session[i].by)'
  PROVE  i \in DOMAIN session /\ session'[i] = session[i] /\ Saved(session[i].by)
<1>1. pc \in [Tasks -> Labels] /\ reply \in [Tasks -> Replies]
  BY DEF HistoryInv, TypeInv, TypeOK
<1>2. Goes(t)
  BY Moves DEF HistoryInv
<1>3. ASSUME NEW u \in Tasks, Saved(u)', u = t => pc[t] \in Past \cup {"apply", "fund"}
      PROVE  Saved(u)
  <2>1. CASE u # t
    BY <1>3, <2>1, OthersUnchanged DEF Saved, HistoryInv
  <2>2. CASE u = t /\ pc[t] \in {"apply", "fund", "persist"}
    <3>1. ApplyWriteSet(t) \/ FundAccount(t) \/ VmFails(t) \/ PersistFails(t)
      BY <2>2, StepsAt
    <3>2. ~ Saved(t)'
      <4>1. reply[t] # "ok"
        BY <2>2 DEF HistoryInv, FlowInv
      <4> QED
        BY <1>1, <3>1, <4>1 DEF ApplyWriteSet, FundAccount, VmFails, PersistFails, ReleaseAnd, Goto,
           Saved
    <3> QED
      BY <1>3, <2>2, <3>2
  <2>3. CASE u = t /\ pc[t] \in Past \ {"persist"}
    BY <1>2, <2>3 DEF Goes, Past, Saved
  <2> QED
    BY <1>3, <2>1, <2>2, <2>3
<1>4. CASE i \in DOMAIN session /\ session'[i] = session[i]
  <2>1. pc[session[i].by] \in Past
    BY <1>4 DEF HistoryInv, AuthorInv
  <2> QED
    BY <1>3, <1>4, <2>1
<1>5. ASSUME NEW change \in Changes, change.by = t, session' = Append(session, change),
             pc[t] \in {"apply", "fund"}
      PROVE  i \in DOMAIN session /\ session'[i] = session[i]
  <2>1. /\ DOMAIN session' = DOMAIN session \cup {Len(session')}
        /\ \A k \in DOMAIN session : session'[k] = session[k]
        /\ session'[Len(session')] = change
    BY <1>5, Growth DEF HistoryInv
  <2>2. ~ Saved(t)
    BY <1>5 DEF Saved, HistoryInv, FlowInv
  <2>3. i # Len(session')
    BY <1>3, <1>5, <2>1, <2>2
  <2> QED
    BY <2>1, <2>3
<1> QED
  BY <1>4, <1>5, SessionStep DEF HistoryInv

LEMMA NextSavedInv ==
  ASSUME HistoryInv, HistoryInv', SavedInv, NEW t \in Tasks, Step(t)
  PROVE  SavedInv'
<1>1. session \in Seq(Changes) /\ session' \in Seq(Changes)
  BY DEF HistoryInv, TypeInv, TypeOK
<1>2. CASE Persist(t)
  <2>1. delta' = session' /\ session' = session
    BY <1>2 DEF Persist
  <2>2. IsPrefix(session', session')
    BY <1>1, PrefixElements, LenProperties
  <2> QED
    BY <1>1, <2>1, <2>2 DEF SavedInv
<1>3. CASE ~ Persist(t)
  <2> SUFFICES ASSUME delta' # Torn PROVE SavedInv'
    BY DEF SavedInv
  <2>1. delta' = delta
    BY <1>3 DEF Step, Begin, Acquire, RunVm, VmFails, ApplyWriteSet, FundAccount, PersistFails,
       Bump, IncrementOps, ReadOps, StoreRecord, MakeTemp, MakeTempFails, CopySession, CopyFails,
       RunClone, CloneFails, ClonePanics, Cleanup, CleanupFails, ReadSession
  <2>2. delta \in Seq(Changes) /\ IsPrefix(delta, session')
    BY <2>1, PrefixStays DEF SavedInv
  <2>3. ASSUME NEW i \in DOMAIN session', session'[i].by \in Tasks, Saved(session[i].by)'
        PROVE  i \in DOMAIN delta'
    <3>1. i \in DOMAIN session /\ session[i].by \in Tasks /\ Saved(session[i].by)
      BY <1>3, <2>3, SavedBefore
    <3> QED
      BY <2>1, <3>1 DEF SavedInv
  <2> QED
    BY <2>1, <2>2, <2>3 DEF SavedInv
<1> QED
  BY <1>2, <1>3

\* A sequence of changes is a beginning of the session with the changes of every
\* request acknowledged before a reader began.
Seen(changes, t) ==
  /\ changes \in Seq(Changes) /\ IsPrefix(changes, session)
  /\ \A u \in floor[t] : \E i \in DOMAIN changes : changes[i].by = u

ReaderInv ==
  \A t \in Tasks :
    /\ floor[t] \subseteq Acked
    /\ pc[t] = "idle" => snap[t] = NoSnap
    /\ pc[t] = "load" /\ tempDirs[t] # Torn => Seen(tempDirs[t], t)
    /\ snap[t] # NoSnap => Seen(snap[t], t)

LEMMA AckedGrows ==
  ASSUME HistoryInv, NEW t \in Tasks, Step(t)
  PROVE  Acked \subseteq Acked'
<1> SUFFICES ASSUME NEW u \in Acked PROVE u \in Acked'
  OBVIOUS
<1>1. u \in Tasks /\ pc[u] = "done"
  BY DEF Acked, HistoryInv, FlowInv
<1> QED
  BY <1>1, AckedStays

\* What was seen once is still the session's beginning later.
LEMMA SeenStays ==
  ASSUME HistoryInv, NEW t \in Tasks, Step(t), NEW u \in Tasks, floor'[u] = floor[u],
         NEW changes, Seen(changes, u)
  PROVE  /\ changes \in Seq(Changes) /\ IsPrefix(changes, session')
         /\ \A v \in floor'[u] : \E i \in DOMAIN changes : changes[i].by = v
BY PrefixStays DEF Seen

\* What was last saved shows what was acknowledged, and so does the session.
LEMMA AckedSeen ==
  ASSUME HistoryInv, SavedInv, NEW t \in Tasks, floor[t] \subseteq Acked
  PROVE  Seen(session, t) /\ (delta # Torn => Seen(delta, t))
<1>1. session \in Seq(Changes) /\ DOMAIN session = 1 .. Len(session) /\ Len(session) \in Nat
  BY SessionFacts DEF HistoryInv
<1>2. \A u \in floor[t] :
        /\ u \in Tasks /\ reply[u] = "ok"
        /\ \E i \in DOMAIN session : session[i].by = u
  BY DEF Acked
<1>3. IsPrefix(session, session)
  BY <1>1, PrefixElements
<1>4. ASSUME delta # Torn, NEW u \in floor[t] PROVE \E i \in DOMAIN delta : delta[i].by = u
  <2>1. PICK i \in DOMAIN session : session[i].by = u
    BY <1>2
  <2>2. i \in DOMAIN delta /\ delta \in Seq(Changes) /\ IsPrefix(delta, session)
    BY <1>2, <1>4, <2>1 DEF SavedInv, Saved
  <2>3. delta[i] = session[i]
    BY <1>1, <2>2, PrefixElements, LenProperties
  <2> QED
    BY <2>1, <2>2, <2>3
<1> QED
  BY <1>1, <1>2, <1>3, <1>4 DEF Seen, SavedInv

LEMMA NextReaderInv ==
  ASSUME HistoryInv, CloneInv, CloneInv', SavedInv, ReaderInv, NEW t \in Tasks, Step(t)
  PROVE  ReaderInv'
<1>1. /\ pc \in [Tasks -> Labels] /\ floor \in [Tasks -> SUBSET Tasks]
      /\ snap \in [Tasks -> Seq(Changes) \cup {NoSnap}]
      /\ tempDirs \in [Tasks -> Seq(Changes) \cup {Torn, NoDir}]
  BY DEF HistoryInv, TypeInv, TypeOK
<1>2. Goes(t)
  BY Moves DEF HistoryInv
<1>3. path[t] = t /\ path' = path
  <2>1. path[t] = t /\ path'[t] = t /\ path \in [Tasks -> Tasks]
    BY DEF CloneInv, HistoryInv, TypeInv, TypeOK
  <2>2. CASE MakeTemp(t)
    <3>1. PICK p : path' = [path EXCEPT ![t] = p]
      BY <2>2 DEF MakeTemp
    <3> QED
      BY <2>1, <3>1
  <2>3. CASE ~ MakeTemp(t)
    BY <2>1, <2>3 DEF Step, Begin, Acquire, RunVm, VmFails, ApplyWriteSet, FundAccount, Persist,
       PersistFails, Bump, IncrementOps, ReadOps, StoreRecord, MakeTempFails, CopySession,
       CopyFails, RunClone, CloneFails, ClonePanics, Cleanup, CleanupFails, ReadSession
  <2> QED
    BY <2>2, <2>3
<1>4. /\ snap[t] = snap'[t] \/ RunClone(t) \/ ReadSession(t)
      /\ floor'[t] = floor[t] \/ (pc[t] = "idle" /\ floor'[t] = Acked)
  BY <1>1 DEF Step, Begin, Acquire, RunVm, VmFails, ApplyWriteSet, FundAccount, Persist,
     PersistFails, Bump, IncrementOps, ReadOps, StoreRecord, MakeTemp, MakeTempFails, CopySession,
     CopyFails, RunClone, CloneFails, ClonePanics, Cleanup, CleanupFails, ReadSession
<1>5. ASSUME NEW u \in Tasks \ {t}
      PROVE  /\ pc'[u] = pc[u] /\ snap'[u] = snap[u] /\ floor'[u] = floor[u]
             /\ tempDirs'[u] = tempDirs[u]
  <2>1. tempDirs' = tempDirs \/ \E dir : tempDirs' = [tempDirs EXCEPT ![t] = dir]
    <3>1. CASE MakeTemp(t)
      <4>1. PICK p \in ClockReadings(t) :
              /\ path' = [path EXCEPT ![t] = p]
              /\ tempDirs' = IF tempDirs[p] = NoDir THEN [tempDirs EXCEPT ![p] = Torn]
                                                    ELSE tempDirs
        BY <3>1 DEF MakeTemp
      <4>2. p = t
        BY <1>3, <4>1 DEF HistoryInv, TypeInv, TypeOK
      <4> QED
        BY <4>1, <4>2
    <3>2. CASE ~ MakeTemp(t)
      BY <1>3, <3>2 DEF Step, Begin, Acquire, RunVm, VmFails, ApplyWriteSet, FundAccount, Persist,
         PersistFails, Bump, IncrementOps, ReadOps, StoreRecord, MakeTempFails, CopySession,
         CopyFails, RunClone, CloneFails, ClonePanics, Cleanup, CleanupFails, ReadSession
    <3> QED
      BY <3>1, <3>2
  <2> QED
    BY <1>1, <2>1, OthersUnchanged DEF HistoryInv
<1>6. \A u \in Tasks : floor'[u] \subseteq Acked'
  <2>1. Acked \subseteq Acked'
    BY AckedGrows
  <2> QED
    BY <1>4, <1>5, <2>1 DEF ReaderInv
<1>7. ASSUME NEW u \in Tasks \ {t}
      PROVE  /\ pc'[u] = "idle" => snap'[u] = NoSnap
             /\ pc'[u] = "load" /\ tempDirs'[u] # Torn => Seen(tempDirs[u], u)'
             /\ snap'[u] # NoSnap => Seen(snap[u], u)'
  <2>1. /\ pc'[u] = pc[u] /\ snap'[u] = snap[u] /\ floor'[u] = floor[u]
        /\ tempDirs'[u] = tempDirs[u]
    BY <1>5
  <2>2. /\ pc[u] = "idle" => snap[u] = NoSnap
        /\ pc[u] = "load" /\ tempDirs[u] # Torn => Seen(tempDirs[u], u)
        /\ snap[u] # NoSnap => Seen(snap[u], u)
    BY DEF ReaderInv
  <2>3. pc[u] = "load" /\ tempDirs[u] # Torn =>
          /\ tempDirs[u] \in Seq(Changes) /\ IsPrefix(tempDirs[u], session')
          /\ \A v \in floor'[u] : \E i \in DOMAIN tempDirs[u] : tempDirs[u][i].by = v
    BY <2>1, <2>2, SeenStays
  <2>4. snap[u] # NoSnap =>
          /\ snap[u] \in Seq(Changes) /\ IsPrefix(snap[u], session')
          /\ \A v \in floor'[u] : \E i \in DOMAIN snap[u] : snap[u][i].by = v
    BY <2>1, <2>2, SeenStays
  <2> QED
    BY <2>1, <2>2, <2>3, <2>4 DEF Seen
<1>8. pc'[t] # "idle"
  BY <1>2 DEF Goes
<1>9. pc'[t] = "load" /\ tempDirs'[t] # Torn => Seen(tempDirs[t], t)'
  <2> SUFFICES ASSUME pc'[t] = "load", tempDirs'[t] # Torn PROVE Seen(tempDirs[t], t)'
    OBVIOUS
  <2>1. pc[t] = "copy"
    BY <1>2 DEF Goes
  <2>2. CopySession(t) /\ tempDirs[t] # NoDir
    <3>1. ~ CopyFails(t)
      BY DEF CopyFails, Goto, HistoryInv, TypeInv, TypeOK
    <3> QED
      BY <2>1, <3>1, StepsAt DEF CloneInv, HistoryInv, TypeInv, KindInv
  <2>3. tempDirs'[t] = delta /\ session' = session /\ floor' = floor
    BY <1>1, <1>3, <2>1, <2>2, CopiedWhole DEF CopySession
  <2>4. Seen(delta, t)
    BY <2>3, AckedSeen DEF ReaderInv
  <2> QED
    BY <2>3, <2>4 DEF Seen
<1>10. snap'[t] # NoSnap => Seen(snap[t], t)'
  <2> SUFFICES ASSUME snap'[t] # NoSnap PROVE Seen(snap[t], t)'
    OBVIOUS
  <2>1. CASE RunClone(t)
    <3>1. /\ snap'[t] = tempDirs[t] /\ session' = session /\ floor' = floor /\ pc[t] = "load"
          /\ tempDirs[t] # Torn
      BY <1>1, <1>3, <2>1 DEF RunClone
    <3> QED
      BY <3>1 DEF ReaderInv, Seen
  <2>2. CASE ReadSession(t)
    <3>1. snap'[t] = session /\ session' = session /\ floor' = floor
      BY <1>1, <2>2 DEF ReadSession
    <3>2. Seen(session, t)
      BY AckedSeen DEF ReaderInv
    <3> QED
      BY <3>1, <3>2 DEF Seen
  <2>3. CASE snap'[t] = snap[t]
    <3>1. pc[t] # "idle" /\ Seen(snap[t], t)
      BY <2>3 DEF ReaderInv
    <3>2. floor'[t] = floor[t]
      BY <1>4, <3>1
    <3>3. /\ snap[t] \in Seq(Changes) /\ IsPrefix(snap[t], session')
          /\ \A v \in floor'[t] : \E i \in DOMAIN snap[t] : snap[t][i].by = v
      BY <3>1, <3>2, SeenStays
    <3> QED
      BY <2>3, <3>3 DEF Seen
  <2> QED
    BY <1>4, <2>1, <2>2, <2>3
<1> QED
  BY <1>6, <1>7, <1>8, <1>9, <1>10 DEF ReaderInv

LEMMA InitReaders ==
  ASSUME ~ ChainOverride, Init
  PROVE  SavedInv /\ ReaderInv
<1>1. session = <<>> /\ delta = <<>> /\ <<>> \in Seq(Changes)
  BY EmptySeq DEF Init
<1>2. IsPrefix(<<>>, <<>>)
  <2>1. \A s \in Seq(Changes) : IsPrefix(s, s)
    BY PrefixElements, LenProperties
  <2> QED
    BY <1>1, <2>1
<1> QED
  BY <1>1, <1>2 DEF Init, SavedInv, ReaderInv, Acked

LEMMA ReadersGoal ==
  ASSUME ~ ChainOverride, ReaderInv
  PROVE  ReadersSeeSession
BY DEF ReaderInv, Seen, ReadersSeeSession, OnExpectedChain

\* What a dry run or a view ran on is a beginning of the session's changes, with
\* those of every request acknowledged before the reader began.  (Started with
\* --chain-id, a server may copy a session that does not have the override yet:
\* the chain_override run.)
THEOREM ReadersSeeASession ==
  ASSUME ~ SameTick, ~ ChainOverride
  PROVE  Spec => []ReadersSeeSession
<1>1. HistoryInv /\ HistoryInv' /\ SavedInv /\ [Next]_vars => SavedInv'
  <2>1. ASSUME SavedInv, UNCHANGED vars PROVE SavedInv'
    BY <2>1 DEF vars, SavedInv, Saved
  <2> QED
    BY <2>1, NextSavedInv DEF Next, Quiet
<1>2. HistoryInv /\ CloneInv /\ CloneInv' /\ SavedInv /\ ReaderInv /\ [Next]_vars => ReaderInv'
  <2>1. ASSUME ReaderInv, UNCHANGED vars PROVE ReaderInv'
    BY <2>1 DEF vars, ReaderInv, Seen, Acked
  <2> QED
    BY <2>1, NextReaderInv DEF Next, Quiet
<1> QED
  BY <1>1, <1>2, InitReaders, ReadersGoal, ClonesHeld, PTL DEF Spec

=============================================================================
