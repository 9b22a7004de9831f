------------------------------ MODULE ServerProofs ------------------------------
(***************************************************************************)
(* The server around the session, for any number of requests, permits and  *)
(* threads, and any budget of time: what it lets change the chain, what    *)
(* its answers and headers say, and how long it keeps a client waiting.    *)
(***************************************************************************)
EXTENDS Server, CloneProofs, LedgerProofs

-----------------------------------------------------------------------------
(* The session behind the server.                                          *)

\* A step of the server is a step of the session, a look that goes on, or none of
\* the session's business.
LEMMA TaskSteps ==
  ASSUME [ServerNext]_serverVars
  PROVE  (\E t \in Tasks : Step(t) \/ LookAgain(t)) \/ UNCHANGED vars
<1>1. ASSUME NEW t \in Tasks, Arrive(t) \/ Layers(t) \/ Closure(t)
      PROVE  Step(t) \/ LookAgain(t) \/ UNCHANGED vars
  BY <1>1 DEF Arrive, Layers, Admit, Answer, TimeOut, Closure, Start, Look, Work, Step, taskVars
<1>2. ASSUME Tick \/ Over \/ UNCHANGED serverVars PROVE UNCHANGED vars
  BY <1>2 DEF Tick, Over, serverVars, taskVars
<1> QED
  BY <1>1, <1>2 DEF ServerNext

\* A look that goes on gives the session back as it was.
LEMMA LookKeepsHistory ==
  ASSUME HistoryInv, NEW t \in Tasks, LookAgain(t)
  PROVE  HistoryInv'
<1>1. /\ pc[t] = "read" /\ inner' = NoTask /\ pc' = [pc EXCEPT ![t] = "acquire"]
      /\ pc \in [Tasks -> Labels]
      /\ UNCHANGED <<session, delta, opsCount, storeVars, request, verdict, version, path,
                     tempDirs, snap, floor, reply>>
  BY DEF LookAgain, Goto, HistoryInv, TypeInv, TypeOK
<1>2. TypeInv'
  <2>1. TxTypeOK' /\ QueueMatchesMap'
    BY <1>1 DEF HistoryInv, TypeInv, TypeOK, storeVars, TxTypeOK, QueueMatchesMap
  <2>2. TypeOK'
    BY <1>1, <2>1 DEF HistoryInv, TypeInv, TypeOK, Labels
  <2>3. KindInv'
    BY <1>1 DEF HistoryInv, TypeInv, KindInv, Kind
  <2> QED
    BY <2>1, <2>2, <2>3 DEF TypeInv
<1>3. LockInv'
  BY <1>1, TaskAssumption DEF HistoryInv, LockInv, InSession, Kind
<1>4. VersionInv' /\ CommitInv'
  BY <1>1 DEF HistoryInv, VersionInv, VersionsUnique, CommitInv, CommittedOnce, storeVars, Kind
<1>5. FlowInv'
  BY <1>1 DEF HistoryInv, FlowInv, Kind
<1>6. AuthorInv'
  BY <1>1, TaskAssumption DEF HistoryInv, AuthorInv, Past, Kind, Change
<1> QED
  BY <1>2, <1>3, <1>4, <1>5, <1>6 DEF HistoryInv

LEMMA NextServerHistory ==
  ASSUME HistoryInv, [ServerNext]_serverVars
  PROVE  HistoryInv'
BY TaskSteps, LookKeepsHistory, NextHistory DEF Next

LEMMA ServerHistoryHeld == ServerSpec => []HistoryInv
BY InitHistory, NextServerHistory, PTL DEF ServerSpec, ServerInit

-----------------------------------------------------------------------------
(* The layers.                                                             *)

\* What TypeOK leaves to the session, and what its conjunct on the queue rests
\* on: nobody waits twice.
LayersInv ==
  /\ phase \in [Tasks -> Phases]
  /\ call \in [Tasks -> Calls \cup {[route |-> "none", txn |-> NoTxn, flaws |-> {}]}]
  /\ queue \in Seq(Tasks)
  /\ \A i, j \in DOMAIN queue : queue[i] = queue[j] => i = j
  /\ \A t \in Tasks : phase[t] = "queued" <=> \E i \in DOMAIN queue : queue[i] = t
  /\ age \in [Tasks -> 0 .. Timeout]
  /\ waited \in [Tasks -> Nat]
  /\ looks \in [Tasks -> Seq(Seq(Changes))]
  /\ status \in [Tasks -> Statuses]
  /\ header \in [Tasks -> Nat]

LEMMA RefusalsAreStatuses == \A c : Refusal(c) \in Refusals
BY DEF Refusal, StatusOf, Refusals

\* A closure leaves everything of the layers alone, except for what it looks at.
LEMMA ClosureStep ==
  ASSUME NEW t \in Tasks, Closure(t)
  PROVE  /\ UNCHANGED <<phase, call, queue, age, waited, status, header>>
         /\ looks' = looks \/ (pc[t] = "read" /\ looks' = [looks EXCEPT ![t] = Append(@, session)])
BY DEF Closure, Start, LookAgain, Look, Looked, Work, httpVars, ReadSession

LEMMA ClosureKeepsLayers ==
  ASSUME HistoryInv, LayersInv, NEW t \in Tasks, Closure(t)
  PROVE  LayersInv'
<1>1. session \in Seq(Changes)
  BY DEF HistoryInv, TypeInv, TypeOK
<1>2. ASSUME NEW States, NEW now \in States, NEW s \in Seq(States) PROVE Append(s, now) \in Seq(States)
  BY AppendProperties
<1>3. \A s \in Seq(Seq(Changes)) : Append(s, session) \in Seq(Seq(Changes))
  BY <1>1, <1>2
<1>4. looks \in [Tasks -> Seq(Seq(Changes))]
  BY DEF LayersInv
<1>5. looks' \in [Tasks -> Seq(Seq(Changes))]
  BY <1>3, <1>4, ClosureStep
<1>6. UNCHANGED <<phase, call, queue, age, waited, status, header>>
  BY ClosureStep
<1> QED
  BY <1>5, <1>6 DEF LayersInv

LEMMA ArriveKeepsLayers ==
  ASSUME LayersInv, NEW t \in Tasks, Arrive(t)
  PROVE  LayersInv'
<1>1. /\ phase' = [phase EXCEPT ![t] = "queued"] /\ phase[t] = "idle"
      /\ queue' = Append(queue, t)
      /\ UNCHANGED <<age, waited, looks, status, header>>
      /\ \E c \in Calls : call' = [call EXCEPT ![t] = c]
  BY DEF Arrive
<1>2. /\ queue \in Seq(Tasks) /\ Len(queue) \in Nat /\ DOMAIN queue = 1 .. Len(queue)
      /\ phase \in [Tasks -> Phases]
  BY LenProperties DEF LayersInv
<1>3. /\ queue' \in Seq(Tasks) /\ Len(queue') = Len(queue) + 1
      /\ \A i \in 1 .. Len(queue) : queue'[i] = queue[i]
      /\ queue'[Len(queue) + 1] = t
  BY <1>1, <1>2, AppendProperties
<1>4. DOMAIN queue' = 1 .. Len(queue) + 1
  BY <1>3, LenProperties
<1>5. \A i \in DOMAIN queue : queue[i] # t
  BY <1>1 DEF LayersInv
<1>6. \A i, j \in DOMAIN queue' : queue'[i] = queue'[j] => i = j
  <2> SUFFICES ASSUME NEW i \in DOMAIN queue', NEW j \in DOMAIN queue', queue'[i] = queue'[j]
               PROVE  i = j
    OBVIOUS
  <2>1. CASE i \in DOMAIN queue /\ j \in DOMAIN queue
    BY <1>2, <1>3, <2>1 DEF LayersInv
  <2>2. CASE i \notin DOMAIN queue \/ j \notin DOMAIN queue
    <3>1. \A k \in DOMAIN queue' : IF k \in DOMAIN queue THEN queue'[k] # t
                                                       ELSE k = Len(queue) + 1 /\ queue'[k] = t
      BY <1>2, <1>3, <1>4, <1>5
    <3> QED
      BY <2>2, <3>1
  <2> QED
    BY <2>1, <2>2
<1>7. \A u \in Tasks : phase'[u] = "queued" <=> \E i \in DOMAIN queue' : queue'[i] = u
  <2>1. phase'[t] = "queued" /\ Len(queue) + 1 \in DOMAIN queue'
    BY <1>1, <1>2, <1>4
  <2>2. ASSUME NEW u \in Tasks, u # t
        PROVE  phase'[u] = "queued" <=> \E i \in DOMAIN queue' : queue'[i] = u
    <3>1. phase'[u] = phase[u]
      BY <1>1, <1>2, <2>2
    <3>2. (\E i \in DOMAIN queue' : queue'[i] = u) <=> \E i \in DOMAIN queue : queue[i] = u
      BY <1>2, <1>3, <1>4, <2>2
    <3> QED
      BY <3>1, <3>2 DEF LayersInv
  <2> QED
    BY <1>3, <2>1, <2>2
<1>8. /\ phase' \in [Tasks -> Phases]
      /\ call' \in [Tasks -> Calls \cup {[route |-> "none", txn |-> NoTxn, flaws |-> {}]}]
  BY <1>1 DEF LayersInv, Phases
<1> QED
  BY <1>1, <1>3, <1>6, <1>7, <1>8 DEF LayersInv

LEMMA AdmitKeepsLayers ==
  ASSUME LayersInv, NEW t \in Tasks, Admit(t)
  PROVE  LayersInv'
<1>1. /\ queue # <<>> /\ t = Head(queue) /\ queue' = Tail(queue)
      /\ phase' = [phase EXCEPT ![t] = "handling"]
      /\ UNCHANGED <<call, age, waited, looks, header>>
      /\ \E s \in Refusals \cup {"200", "none"} : status' = [status EXCEPT ![t] = s]
  BY RefusalsAreStatuses DEF Admit
<1>2. /\ queue \in Seq(Tasks) /\ Len(queue) \in Nat /\ DOMAIN queue = 1 .. Len(queue)
      /\ Len(queue) # 0 /\ phase \in [Tasks -> Phases]
  BY <1>1, LenProperties, EmptySeq DEF LayersInv
<1>3. /\ queue' \in Seq(Tasks) /\ Len(queue') = Len(queue) - 1
      /\ \A i \in 1 .. Len(queue) - 1 : queue'[i] = queue[i + 1]
  BY <1>1, <1>2, HeadTailProperties
<1>4. DOMAIN queue' = 1 .. Len(queue) - 1
  BY <1>3, LenProperties
<1>5. queue[1] = t
  BY <1>1
<1>6. \A i, j \in DOMAIN queue' : queue'[i] = queue'[j] => i = j
  <2> SUFFICES ASSUME NEW i \in DOMAIN queue', NEW j \in DOMAIN queue', queue'[i] = queue'[j]
               PROVE  i = j
    OBVIOUS
  <2>1. i + 1 \in DOMAIN queue /\ j + 1 \in DOMAIN queue /\ queue[i + 1] = queue[j + 1]
        /\ i \in Nat /\ j \in Nat
    BY <1>2, <1>3, <1>4
  <2>2. i + 1 = j + 1
    BY <2>1 DEF LayersInv
  <2> QED
    BY <2>1, <2>2
<1>7. \A u \in Tasks : phase'[u] = "queued" <=> \E i \in DOMAIN queue' : queue'[i] = u
  <2>1. phase'[t] = "handling" /\ 1 \in DOMAIN queue
    BY <1>1, <1>2
  <2>2. \A i \in DOMAIN queue' : queue'[i] # t
    <3> SUFFICES ASSUME NEW i \in DOMAIN queue', queue'[i] = t PROVE FALSE
      OBVIOUS
    <3>1. i + 1 \in DOMAIN queue /\ queue[i + 1] = queue[1] /\ i + 1 # 1
      BY <1>2, <1>3, <1>4, <1>5
    <3> QED
      BY <2>1, <3>1 DEF LayersInv
  <2>3. ASSUME NEW u \in Tasks, u # t
        PROVE  phase'[u] = "queued" <=> \E i \in DOMAIN queue' : queue'[i] = u
    <3>1. phase'[u] = phase[u]
      BY <1>1, <1>2, <2>3
    <3>2. ASSUME NEW i \in DOMAIN queue', queue'[i] = u PROVE \E j \in DOMAIN queue : queue[j] = u
      <4>1. i + 1 \in DOMAIN queue /\ queue[i + 1] = u
        BY <1>2, <1>3, <1>4, <3>2
      <4> QED
        BY <4>1
    <3>3. ASSUME NEW j \in DOMAIN queue, queue[j] = u PROVE \E i \in DOMAIN queue' : queue'[i] = u
      <4>1. j # 1
        BY <1>5, <2>3, <3>3
      <4>2. j - 1 \in 1 .. Len(queue) - 1 /\ (j - 1) + 1 = j
        BY <1>2, <4>1
      <4> QED
        BY <1>3, <1>4, <3>3, <4>2
    <3> QED
      BY <3>1, <3>2, <3>3 DEF LayersInv
  <2> QED
    BY <2>1, <2>2, <2>3
<1>8. phase' \in [Tasks -> Phases] /\ status' \in [Tasks -> Statuses]
  BY <1>1 DEF LayersInv, Phases, Statuses
<1> QED
  BY <1>1, <1>3, <1>6, <1>7, <1>8 DEF LayersInv

LEMMA RespondKeepsLayers ==
  ASSUME HistoryInv, LayersInv, NEW t \in Tasks, Answer(t) \/ TimeOut(t)
  PROVE  LayersInv'
<1>1. PICK s \in Statuses : phase[t] = "handling" /\ Respond(t, s)
  BY DEF Answer, TimeOut, Answers, Outcomes, Statuses, Refusals, LayersInv
<1>2. opsCount \in Nat
  BY DEF HistoryInv, TypeInv, TypeOK
<1>3. /\ phase' = [phase EXCEPT ![t] = "sent"] /\ status' = [status EXCEPT ![t] = s]
      /\ header' = [header EXCEPT ![t] = opsCount] /\ UNCHANGED <<call, queue, age, waited, looks>>
  BY <1>1 DEF Respond
<1>4. \A u \in Tasks : phase'[u] = "queued" <=> phase[u] = "queued"
  BY <1>1, <1>3 DEF LayersInv
<1>5. phase' \in [Tasks -> Phases] /\ status' \in [Tasks -> Statuses] /\ header' \in [Tasks -> Nat]
  BY <1>2, <1>3 DEF LayersInv, Phases
<1> QED
  BY <1>3, <1>4, <1>5 DEF LayersInv

LEMMA TickKeepsLayers ==
  ASSUME LayersInv, Tick
  PROVE  LayersInv'
<1>1. Timeout \in Nat /\ \A t \in Tasks : age[t] \in 0 .. Timeout /\ waited[t] \in Nat
  BY LimitAssumption DEF LayersInv
<1>2. \A t \in Handling : age[t] < Timeout
  BY DEF Tick, Settled
<1>3. age' \in [Tasks -> 0 .. Timeout] /\ waited' \in [Tasks -> Nat]
  BY <1>1, <1>2 DEF Tick
<1>4. UNCHANGED <<phase, call, queue, looks, status, header>>
  BY DEF Tick
<1> QED
  BY <1>3, <1>4 DEF LayersInv

\* The kinds of step of the server.
LEMMA ServerSteps ==
  ASSUME [ServerNext]_serverVars
  PROVE  \/ \E t \in Tasks : Arrive(t) \/ Admit(t) \/ Answer(t) \/ TimeOut(t) \/ Closure(t)
         \/ Tick
         \/ UNCHANGED serverVars
BY DEF ServerNext, Layers, Over

LEMMA NextLayersInv ==
  ASSUME HistoryInv, LayersInv, [ServerNext]_serverVars
  PROVE  LayersInv'
<1>1. ASSUME NEW t \in Tasks, Arrive(t) \/ Admit(t) \/ Answer(t) \/ TimeOut(t) \/ Closure(t)
      PROVE  LayersInv'
  BY <1>1, ArriveKeepsLayers, AdmitKeepsLayers, RespondKeepsLayers, ClosureKeepsLayers
<1>2. ASSUME UNCHANGED serverVars PROVE LayersInv'
  BY <1>2 DEF serverVars, httpVars, LayersInv
<1> QED
  BY <1>1, <1>2, TickKeepsLayers, ServerSteps

LEMMA LayersHeld == ServerSpec => [](HistoryInv /\ LayersInv)
<1>1. ServerInit => LayersInv
  <2> SUFFICES ASSUME ServerInit PROVE LayersInv
    OBVIOUS
  <2>1. queue \in Seq(Tasks) /\ DOMAIN queue = {} /\ <<>> \in Seq(Seq(Changes))
    BY EmptySeq DEF ServerInit
  <2> QED
    BY <2>1, LimitAssumption DEF ServerInit, LayersInv, Phases, Statuses
<1> QED
  BY <1>1, ServerHistoryHeld, NextLayersInv, PTL DEF ServerSpec

\* The layers keep to their types: a request has one place, and waits at most once
\* on the semaphore; a budget is never overdrawn.
THEOREM ServerTypeCorrect == ServerSpec => []ServerTypeOK
<1>1. HistoryInv /\ LayersInv => ServerTypeOK
  <2> SUFFICES ASSUME HistoryInv, LayersInv PROVE ServerTypeOK
    OBVIOUS
  <2>1. queue \in Seq(Tasks) /\ DOMAIN queue = 1 .. Len(queue) /\ Len(queue) \in Nat
    BY LenProperties DEF LayersInv
  <2>2. \A i \in 1 .. Len(queue) : queue[i] \in InPhase("queued")
    BY <2>1, ElementOfSeq DEF LayersInv, InPhase
  <2>3. queue \in Seq(InPhase("queued"))
    <3>1. queue \in [1 .. Len(queue) -> InPhase("queued")]
      BY <2>1, <2>2, LenProperties
    <3> QED
      BY <2>1, <3>1, SeqDef
  <2>4. ToSet(queue) = InPhase("queued")
    BY <2>1, <2>2 DEF ToSet, LayersInv, InPhase
  <2> QED
    BY <2>3, <2>4 DEF LayersInv, ServerTypeOK, HistoryInv, TypeInv
<1> QED
  BY <1>1, LayersHeld, PTL

-----------------------------------------------------------------------------
(* Waiting.                                                                *)

\* The requests that have had their permit for some time.
Old(n) == {u \in Handling : age[u] >= n}

\* The longest wait for a permit.
Turn == (Rounds - 1) * Timeout

\* No tick passes while there is a permit to give: behind a request that has waited
\* more than m budgets, Limit others were answered in each of them, or have held
\* their permits since the last began.
Passed(t, m) ==
  Cardinality(InPhase("sent")) + Cardinality(Old(waited[t] - m * Timeout)) >= (m + 1) * Limit

WaitInv ==
  \A t \in Tasks :
    /\ phase[t] = "idle" => waited[t] = 0
    /\ phase[t] \in {"idle", "queued"} => age[t] = 0
    /\ phase[t] = "queued" => \A m \in Nat : waited[t] > m * Timeout => Passed(t, m)
    /\ phase[t] \in {"handling", "sent"} => waited[t] <= Turn + age[t]

LEMMA Products ==
  \A m, x \in Nat : m * x \in Nat /\ (m + 1) * x = m * x + x
OBVIOUS

LEMMA RoundsCover ==
  ASSUME Tasks # {}
  PROVE  /\ Rounds \in Nat \ {0} /\ Rounds * Limit >= Cardinality(Tasks)
         /\ Turn \in Nat /\ Rounds * Timeout = Turn + Timeout
<1>1. /\ Cardinality(Tasks) \in Nat \ {0}
      /\ Limit \in Nat \ {0} /\ Timeout \in Nat \ {0}
  BY TaskAssumption, LimitAssumption, FS_CardinalityType, FS_EmptySet
<1>2. ASSUME NEW n \in Nat \ {0}, NEW l \in Nat \ {0}
      PROVE  (n + l - 1) \div l \in Nat \ {0} /\ ((n + l - 1) \div l) * l >= n
  <2> DEFINE q == (n + l - 1) \div l
  <2>1. q \in Int /\ q * l <= n + l - 1 /\ n + l - 1 < (q + 1) * l
    OBVIOUS
  <2>2. (q + 1) * l = q * l + l
    BY <2>1
  <2>3. q * l >= n
    BY <2>1, <2>2
  <2>4. q > 0
    BY <2>1, <2>3
  <2> QED
    BY <2>1, <2>3, <2>4
<1>3. Rounds \in Nat \ {0} /\ Rounds * Limit >= Cardinality(Tasks)
  BY <1>1, <1>2 DEF Rounds
<1>4. Turn \in Nat /\ Rounds * Timeout = Turn + Timeout
  BY <1>1, <1>3, Products DEF Turn
<1> QED
  BY <1>3, <1>4

LEMMA PhaseSets ==
  /\ IsFiniteSet(InPhase("sent")) /\ Cardinality(InPhase("sent")) \in Nat
  /\ \A n : IsFiniteSet(Old(n)) /\ Cardinality(Old(n)) \in Nat
<1>1. InPhase("sent") \in SUBSET Tasks /\ \A n : Old(n) \in SUBSET Tasks
  BY DEF InPhase, Old, Handling
<1> QED
  BY <1>1, TaskAssumption, FS_Subset, FS_CardinalityType

LEMMA PhaseSetsNext ==
  /\ Cardinality(InPhase("sent")') \in Nat
  /\ \A n : Cardinality(Old(n)') \in Nat
<1>1. InPhase("sent")' \in SUBSET Tasks /\ \A n : Old(n)' \in SUBSET Tasks
  BY DEF InPhase, Old, Handling
<1> QED
  BY <1>1, TaskAssumption, FS_Subset, FS_CardinalityType

\* A request gets its permit in its turn.
LEMMA TurnComes ==
  ASSUME LayersInv, WaitInv, NEW t \in Tasks, phase[t] = "queued"
  PROVE  waited[t] <= Turn
<1> DEFINE sent == InPhase("sent")
           old == Old(waited[t] - Turn)
<1>1. /\ Rounds \in Nat \ {0} /\ Rounds * Limit >= Cardinality(Tasks) /\ Turn \in Nat
      /\ waited[t] \in Nat /\ Cardinality(Tasks) \in Nat
  BY RoundsCover, TaskAssumption, FS_CardinalityType DEF LayersInv
<1> SUFFICES ASSUME waited[t] > Turn PROVE FALSE
  BY <1>1
<1>2. Cardinality(sent) + Cardinality(old) >= Rounds * Limit
  <2>1. Rounds - 1 \in Nat /\ (Rounds - 1) + 1 = Rounds
    BY <1>1
  <2> QED
    BY <2>1 DEF WaitInv, Passed, Turn
<1>3. sent \cap old = {} /\ sent \cup old \in SUBSET (Tasks \ {t})
  BY DEF InPhase, Old, Handling
<1>4. /\ IsFiniteSet(sent) /\ IsFiniteSet(old)
      /\ Cardinality(sent) \in Nat /\ Cardinality(old) \in Nat
  BY PhaseSets
<1>5. Cardinality(sent \cup old) = Cardinality(sent) + Cardinality(old)
  <2>1. Cardinality(sent \cap old) = 0
    BY <1>3, FS_EmptySet
  <2>2. Cardinality(sent \cup old) = Cardinality(sent) + Cardinality(old) - Cardinality(sent \cap old)
    BY <1>4, FS_Union
  <2> HIDE DEF sent, old
  <2> QED
    BY <1>4, <2>1, <2>2
<1>6. IsFiniteSet(Tasks \ {t}) /\ Cardinality(Tasks \ {t}) = Cardinality(Tasks) - 1
  BY TaskAssumption, FS_RemoveElement
<1>7. Cardinality(sent \cup old) <= Cardinality(Tasks) - 1
  BY <1>3, <1>6, FS_Subset
<1>8. Rounds * Limit \in Nat
  BY <1>1, LimitAssumption, Products
<1> HIDE DEF sent, old
<1> QED
  BY <1>1, <1>2, <1>4, <1>5, <1>7, <1>8

\* Between ticks nobody's wait changes, and the requests that stand before another
\* go on to be answered, but do not go back.
LEMMA WaitInvBetweenTicks ==
  ASSUME LayersInv, WaitInv, NEW t \in Tasks,
         Arrive(t) \/ Admit(t) \/ Answer(t) \/ TimeOut(t) \/ Closure(t)
  PROVE  WaitInv'
<1>1. phase \in [Tasks -> Phases] /\ age' = age /\ waited' = waited
  BY ClosureStep DEF Arrive, Admit, Answer, TimeOut, Respond, LayersInv
<1>2. \/ phase' = phase
      \/ phase[t] = "idle" /\ phase' = [phase EXCEPT ![t] = "queued"]
      \/ phase[t] = "queued" /\ phase' = [phase EXCEPT ![t] = "handling"]
      \/ phase[t] = "handling" /\ phase' = [phase EXCEPT ![t] = "sent"]
  <2>1. CASE Admit(t)
    <3>1. queue \in Seq(Tasks) /\ queue # <<>> /\ t = Head(queue)
      BY <2>1 DEF Admit, LayersInv
    <3>2. 1 \in DOMAIN queue /\ t = queue[1]
      BY <3>1, LenProperties, EmptySeq
    <3> QED
      BY <2>1, <3>2 DEF Admit, LayersInv
  <2> QED
    BY <2>1, ClosureStep DEF Arrive, Answer, TimeOut, Respond
<1>3. ASSUME NEW n
      PROVE  Cardinality(InPhase("sent"))' + Cardinality(Old(n))'
               >= Cardinality(InPhase("sent")) + Cardinality(Old(n))
  <2> DEFINE sent == InPhase("sent")
             old == Old(n)
  <2>1. /\ IsFiniteSet(sent) /\ IsFiniteSet(old)
        /\ Cardinality(sent) \in Nat /\ Cardinality(old) \in Nat
    BY PhaseSets
  <2>2. CASE phase[t] = "handling" /\ phase' = [phase EXCEPT ![t] = "sent"]
    <3>1. sent' = sent \cup {t} /\ t \notin sent /\ old' = old \ {t}
      BY <1>1, <2>2 DEF InPhase, Old, Handling
    <3>2. Cardinality(sent \cup {t}) = Cardinality(sent) + 1
      BY <2>1, <3>1, FS_AddElement
    <3>3. Cardinality(old \ {t}) \in {Cardinality(old), Cardinality(old) - 1}
      BY <2>1, FS_RemoveElement
    <3>4. Cardinality(sent') = Cardinality(sent) + 1
      BY <3>1, <3>2
    <3>5. Cardinality(old') \in {Cardinality(old), Cardinality(old) - 1}
      BY <3>1, <3>3
    <3> QED
      BY <2>1, <3>4, <3>5
  <2>3. CASE ~ (phase[t] = "handling" /\ phase' = [phase EXCEPT ![t] = "sent"])
    <3>1. sent' = sent /\ old \subseteq old' /\ old' \subseteq old \cup {t}
      BY <1>1, <1>2, <2>3 DEF InPhase, Old, Handling
    <3>2. old' = old \/ old' = old \cup {t}
      BY <3>1
    <3>3. Cardinality(old') \in {Cardinality(old), Cardinality(old) + 1}
      BY <2>1, <3>2, FS_AddElement
    <3> QED
      BY <2>1, <3>1, <3>3
  <2> QED
    BY <2>2, <2>3
<1>4. ASSUME NEW u \in Tasks PROVE
        /\ phase'[u] = "idle" => waited'[u] = 0
        /\ phase'[u] \in {"idle", "queued"} => age'[u] = 0
        /\ phase'[u] \in {"handling", "sent"} => waited'[u] <= Turn + age'[u]
  <2>1. phase[u] = "queued" => waited[u] <= Turn + age[u]
    <3> SUFFICES ASSUME phase[u] = "queued" PROVE waited[u] <= Turn + age[u]
      OBVIOUS
    <3>1. waited[u] <= Turn /\ age[u] = 0 /\ Turn \in Nat
      BY TurnComes, RoundsCover DEF WaitInv
    <3>2. waited[u] \in Nat
      BY DEF LayersInv
    <3> QED
      BY <3>1, <3>2
  <2> QED
    BY <1>1, <1>2, <2>1 DEF WaitInv
<1>5. ASSUME NEW u \in Tasks, phase'[u] = "queued", NEW m \in Nat, waited'[u] > m * Timeout
      PROVE  Passed(u, m)'
  <2>1. Timeout \in Nat /\ Limit \in Nat /\ m * Timeout \in Nat /\ waited[u] \in Nat
    BY Products, LimitAssumption DEF LayersInv
  <2>2. phase[u] = "queued"
    <3> SUFFICES ASSUME phase[u] # "queued" PROVE FALSE
      OBVIOUS
    <3>1. phase[u] = "idle"
      BY <1>1, <1>2, <1>5
    <3> QED
      BY <1>1, <1>5, <2>1, <3>1 DEF WaitInv
  <2>3. Passed(u, m)
    BY <1>1, <1>5, <2>2 DEF WaitInv
  <2>4. PICK n : n = waited[u] - m * Timeout
    OBVIOUS
  <2>5. Cardinality(InPhase("sent")) + Cardinality(Old(n)) >= (m + 1) * Limit
    BY <2>3, <2>4 DEF Passed
  <2>6. (m + 1) * Limit \in Nat
    BY <2>1
  <2>7. /\ Cardinality(InPhase("sent")) \in Nat /\ Cardinality(Old(n)) \in Nat
        /\ Cardinality(InPhase("sent")') \in Nat /\ Cardinality(Old(n)') \in Nat
    BY PhaseSets, PhaseSetsNext
  <2>8. Cardinality(InPhase("sent")') + Cardinality(Old(n)') >= (m + 1) * Limit
    BY <1>3, <2>5, <2>6, <2>7
  <2>9. Old(n)' = Old(waited[u] - m * Timeout)'
    BY <1>1, <2>4 DEF Old
  <2> QED
    BY <2>8, <2>9 DEF Passed
<1> QED
  BY <1>4, <1>5 DEF WaitInv, Turn, Rounds

\* A tick passes only while Limit requests have their permits and none has used up
\* its budget: who has waited for whole budgets until now sees Limit others answered
\* in each, and Limit more with a permit.
LEMMA WaitInvOverTick ==
  ASSUME LayersInv, WaitInv, Tick
  PROVE  WaitInv'
<1>1. /\ phase' = phase
      /\ \A t \in Tasks : age'[t] = IF phase[t] = "handling" THEN age[t] + 1 ELSE age[t]
      /\ \A t \in Tasks : waited'[t] = IF phase[t] \in {"handling", "queued"}
                                       THEN waited[t] + 1 ELSE waited[t]
  BY DEF Tick, Handling, InPhase
<1>2. /\ Limit \in Nat /\ Timeout \in Nat \ {0}
      /\ \A t \in Tasks : age[t] \in Nat /\ waited[t] \in Nat
  BY LimitAssumption DEF LayersInv
<1>3. ASSUME NEW t \in Tasks
      PROVE  /\ phase'[t] = "idle" => waited'[t] = 0
             /\ phase'[t] \in {"idle", "queued"} => age'[t] = 0
             /\ phase'[t] \in {"handling", "sent"} => waited'[t] <= Turn + age'[t]
  <2>1. Turn \in Nat
    BY RoundsCover
  <2> QED
    BY <1>1, <1>2, <2>1 DEF WaitInv
<1>4. ASSUME NEW t \in Tasks, phase'[t] = "queued", NEW m \in Nat, waited'[t] > m * Timeout
      PROVE  Passed(t, m)'
  <2>1. phase[t] = "queued" /\ waited'[t] = waited[t] + 1 /\ m * Timeout \in Nat
    BY <1>1, <1>2, <1>4, Products
  <2>2. Cardinality(Handling) >= Limit
    <3>1. queue # <<>>
      <4>1. PICK i \in DOMAIN queue : queue[i] = t
        BY <2>1 DEF LayersInv
      <4>2. queue # <<>>
        BY <4>1, LenProperties, EmptySeq DEF LayersInv
      <4> QED
        BY <4>2
    <3> QED
      BY <3>1 DEF Tick, Settled, PermitHolders
  <2>3. PICK n : n = waited[t] - m * Timeout
    OBVIOUS
  <2>4. n \in Int /\ Old(waited[t] - m * Timeout)' = Old(n + 1)'
    <3>1. waited'[t] - m * Timeout = n + 1
      BY <1>2, <2>1, <2>3
    <3> QED
      BY <1>2, <2>1, <2>3, <3>1 DEF Old
  <2>5. Old(n + 1)' = Old(n) /\ InPhase("sent")' = InPhase("sent")
    BY <1>1, <1>2, <2>4 DEF Old, Handling, InPhase
  <2>6. Cardinality(InPhase("sent")) + Cardinality(Old(n)) >= (m + 1) * Limit
    <3>1. CASE waited[t] > m * Timeout
      BY <2>1, <2>3, <3>1 DEF WaitInv, Passed
    <3>2. CASE waited[t] = m * Timeout
      <4>1. Old(n) = Handling
        BY <1>2, <2>3, <3>2 DEF Old, Handling, InPhase
      <4>2. /\ Cardinality(InPhase("sent")) \in Nat /\ Cardinality(Handling) \in Nat
            /\ (m + 1) * Limit = m * Limit + Limit /\ m * Limit \in Nat
        BY <1>2, <4>1, PhaseSets, Products
      <4>3. Cardinality(InPhase("sent")) >= m * Limit
        <5>1. CASE m = 0
          BY <1>2, <4>2, <5>1
        <5>2. CASE m # 0
          <6>1. m - 1 \in Nat /\ (m - 1) + 1 = m
            BY <5>2
          <6>2. m * Timeout = (m - 1) * Timeout + Timeout /\ (m - 1) * Timeout \in Nat
            BY <1>2, <6>1, Products
          <6>3. waited[t] > (m - 1) * Timeout /\ waited[t] - (m - 1) * Timeout = Timeout
            BY <1>2, <3>2, <6>2
          <6>4. Passed(t, m - 1)
            BY <2>1, <6>1, <6>3 DEF WaitInv
          <6>5. Old(Timeout) = {}
            BY <1>2 DEF Tick, Settled, Old, Handling, InPhase
          <6>6. Cardinality(Old(waited[t] - (m - 1) * Timeout)) = 0
            BY <6>3, <6>5, FS_EmptySet
          <6> QED
            BY <4>2, <6>1, <6>4, <6>6 DEF Passed
        <5> QED
          BY <5>1, <5>2
      <4> QED
        BY <1>2, <2>2, <4>1, <4>2, <4>3
    <3> QED
      BY <1>2, <1>4, <2>1, <3>1, <3>2
  <2> QED
    BY <2>4, <2>5, <2>6 DEF Passed
<1> QED
  BY <1>3, <1>4 DEF WaitInv, Turn, Rounds

LEMMA NextWaitInv ==
  ASSUME LayersInv, WaitInv, [ServerNext]_serverVars
  PROVE  WaitInv'
<1>1. ASSUME UNCHANGED serverVars PROVE WaitInv'
  BY <1>1 DEF serverVars, httpVars, WaitInv, Passed, Old, Handling, InPhase, Turn, Rounds
<1> QED
  BY <1>1, ServerSteps, WaitInvBetweenTicks, WaitInvOverTick

\* However many requests hang, and however long, with the session locked or not, no
\* request is with the server for longer than one budget for each Limit requests
\* there are, its own included: the permits of requests that time out come back.
THEOREM NobodyWaitsLonger == ServerSpec => []WaitBounded
<1>1. ServerInit => WaitInv
  <2> SUFFICES ASSUME ServerInit, NEW t \in Tasks
               PROVE  phase[t] = "idle" /\ waited[t] = 0 /\ age[t] = 0
    BY DEF WaitInv
  <2> QED
    BY DEF ServerInit
<1>2. LayersInv /\ WaitInv => WaitBounded
  <2> SUFFICES ASSUME LayersInv, WaitInv, NEW t \in Tasks
               PROVE  waited[t] <= Rounds * Timeout
    BY DEF WaitBounded
  <2>1. /\ Turn \in Nat /\ Rounds * Timeout = Turn + Timeout /\ Timeout \in Nat
        /\ waited[t] \in Nat /\ age[t] \in 0 .. Timeout
        /\ phase[t] \in Phases
    BY RoundsCover, LimitAssumption DEF LayersInv
  <2>2. CASE phase[t] = "queued"
    BY <2>1, <2>2, TurnComes
  <2>3. CASE phase[t] # "queued"
    BY <2>1, <2>3 DEF WaitInv, Phases
  <2> QED
    BY <2>2, <2>3
<1> QED
  BY <1>1, <1>2, LayersHeld, NextWaitInv, PTL DEF ServerSpec

-----------------------------------------------------------------------------
(* What reaches the session.                                               *)

\* A closure is started with the session's first step and goes on with others, or
\* with a look that is not the last.
LEMMA ClosureTask ==
  ASSUME NEW t \in Tasks, Closure(t)
  PROVE  \/ pc[t] = "idle" /\ Start(t) /\ Step(t)
         \/ pc[t] # "idle" /\ Step(t)
         \/ LookAgain(t)
BY DEF Closure, Start, Begin, Look, Work, Step, ReadSession, VmFails

\* What a closure leaves to the others, and keeps of its own.
LEMMA ClosureFrame ==
  ASSUME HistoryInv, NEW t \in Tasks, Closure(t)
  PROVE  /\ \A u \in Tasks \ {t} : /\ pc'[u] = pc[u] /\ request'[u] = request[u]
                                   /\ reply'[u] = reply[u] /\ floor'[u] = floor[u]
         /\ pc[t] # "idle" => request' = request
         /\ pc'[t] # "idle"
<1>1. pc \in [Tasks -> Labels]
  BY DEF HistoryInv, TypeInv, TypeOK
<1>2. CASE Step(t)
  BY <1>2, OthersUnchanged, Moves DEF HistoryInv, Goes
<1>3. CASE LookAgain(t)
  BY <1>1, <1>3 DEF LookAgain, Goto
<1> QED
  BY <1>2, <1>3, ClosureTask

\* How far a request is with its checks.  One that fails a check, or that needs no
\* closure, never gets one, also when its client is sent away.
AccessInv ==
  \A t \in Tasks :
    /\ phase[t] \in {"idle", "queued"} => pc[t] = "idle" /\ status[t] = "none"
    /\ phase[t] # "idle" => call[t] \in Calls
    /\ phase[t] = "handling" =>
         CASE Failed(call[t]) # {} -> status[t] \in Refusals
           [] Failed(call[t]) = {} /\ AnsweredInline(call[t]) -> status[t] = "200"
           [] Failed(call[t]) = {} /\ ~ AnsweredInline(call[t]) -> status[t] = "none"
    /\ status[t] = "408" \/ pc[t] # "idle" => Failed(call[t]) = {} /\ ~ AnsweredInline(call[t])
    /\ pc[t] # "idle" => request[t] = [kind |-> KindOf(call[t].route), txn |-> call[t].txn]

\* A layer's step is about one request, and leaves the session alone.
LEMMA LayerStep ==
  ASSUME LayersInv, NEW t \in Tasks, Arrive(t) \/ Admit(t) \/ Answer(t) \/ TimeOut(t)
  PROVE  /\ UNCHANGED vars /\ looks' = looks
         /\ \A u \in Tasks \ {t} : /\ phase'[u] = phase[u] /\ call'[u] = call[u]
                                   /\ status'[u] = status[u] /\ header'[u] = header[u]
         /\ Arrive(t) => /\ phase[t] = "idle" /\ phase'[t] = "queued" /\ call'[t] \in Calls
                         /\ status'[t] = status[t]
         /\ Admit(t) => /\ phase[t] = "queued" /\ phase'[t] = "handling" /\ call' = call
                        /\ status'[t] = IF Failed(call[t]) # {} THEN Refusal(call[t])
                                        ELSE IF AnsweredInline(call[t]) THEN "200" ELSE "none"
         /\ Answer(t) => /\ phase[t] = "handling" /\ phase'[t] = "sent" /\ call' = call
                         /\ Ready(t) /\ header'[t] = opsCount
                         /\ status'[t] \in Answers(t)
         /\ TimeOut(t) => /\ phase[t] = "handling" /\ phase'[t] = "sent" /\ call' = call
                          /\ ~ Ready(t) /\ status'[t] = "408"
<1>1. /\ phase \in [Tasks -> Phases] /\ status \in [Tasks -> Statuses] /\ header \in [Tasks -> Nat]
      /\ call \in [Tasks -> Calls \cup {[route |-> "none", txn |-> NoTxn, flaws |-> {}]}]
  BY DEF LayersInv
<1>2. CASE Arrive(t)
  <2>1. PICK c \in Calls : call' = [call EXCEPT ![t] = c]
    BY <1>2 DEF Arrive
  <2>2. /\ phase[t] = "idle" /\ phase' = [phase EXCEPT ![t] = "queued"]
        /\ UNCHANGED <<vars, looks, status, header>>
    BY <1>2 DEF Arrive, taskVars
  <2>3. ~ Admit(t) /\ ~ Answer(t) /\ ~ TimeOut(t)
    BY <1>1, <2>2 DEF Admit, Answer, TimeOut, Respond
  <2> QED
    BY <1>1, <2>1, <2>2, <2>3
<1>3. CASE Admit(t)
  <2>1. phase[t] = "queued"
    <3>1. queue \in Seq(Tasks) /\ queue # <<>> /\ t = Head(queue)
      BY <1>3 DEF Admit, LayersInv
    <3>2. 1 \in DOMAIN queue /\ t = queue[1]
      BY <3>1, LenProperties, EmptySeq
    <3> QED
      BY <3>2 DEF LayersInv
  <2>2. /\ phase' = [phase EXCEPT ![t] = "handling"] /\ UNCHANGED <<vars, call, looks, header>>
        /\ \E s : status' = [status EXCEPT ![t] = s]
        /\ status'[t] = IF Failed(call[t]) # {} THEN Refusal(call[t])
                        ELSE IF AnsweredInline(call[t]) THEN "200" ELSE "none"
    BY <1>1, <1>3 DEF Admit, taskVars
  <2>3. ~ Arrive(t) /\ ~ Answer(t) /\ ~ TimeOut(t)
    BY <2>1 DEF Arrive, Answer, TimeOut
  <2> QED
    BY <1>1, <2>1, <2>2, <2>3
<1>4. CASE Answer(t) \/ TimeOut(t)
  <2>1. phase[t] = "handling" /\ phase' = [phase EXCEPT ![t] = "sent"]
        /\ header' = [header EXCEPT ![t] = opsCount] /\ UNCHANGED <<vars, call, looks>>
        /\ \E s : status' = [status EXCEPT ![t] = s]
    BY <1>4 DEF Answer, TimeOut, Respond, taskVars
  <2>2. Answer(t) => Ready(t) /\ status'[t] \in Answers(t)
    BY <1>1 DEF Answer, Respond
  <2>3. TimeOut(t) => ~ Ready(t) /\ status'[t] = "408"
    BY <1>1 DEF TimeOut, Respond
  <2>4. ~ Arrive(t) /\ ~ Admit(t)
    <3>1. Admit(t) => phase' = [phase EXCEPT ![t] = "handling"]
      BY DEF Admit
    <3> QED
      BY <1>1, <2>1, <3>1 DEF Arrive
  <2> QED
    BY <1>1, <2>1, <2>2, <2>3, <2>4
<1> QED
  BY <1>2, <1>3, <1>4

LEMMA NextAccessInv ==
  ASSUME HistoryInv, LayersInv, AccessInv, [ServerNext]_serverVars
  PROVE  AccessInv'
<1>1. ASSUME NEW t \in Tasks, Arrive(t) \/ Admit(t) \/ Answer(t) \/ TimeOut(t)
      PROVE  AccessInv'
  <2>1. /\ pc' = pc /\ request' = request
        /\ \A u \in Tasks \ {t} :
             phase'[u] = phase[u] /\ call'[u] = call[u] /\ status'[u] = status[u]
    BY <1>1, LayerStep DEF vars
  <2>2. CASE Arrive(t)
    <3>1. /\ phase[t] = "idle" /\ phase'[t] = "queued" /\ call'[t] \in Calls
          /\ status'[t] = status[t]
      BY <2>2, LayerStep
    <3>2. pc[t] = "idle" /\ status[t] = "none"
      BY <3>1 DEF AccessInv
    <3> QED
      BY <2>1, <3>1, <3>2 DEF AccessInv, Failed, AnsweredInline
  <2>3. CASE Admit(t)
    <3>1. /\ phase[t] = "queued" /\ phase'[t] = "handling" /\ call' = call
          /\ status'[t] = IF Failed(call[t]) # {} THEN Refusal(call[t])
                          ELSE IF AnsweredInline(call[t]) THEN "200" ELSE "none"
      BY <2>3, LayerStep
    <3>2. pc[t] = "idle" /\ Refusal(call[t]) \in Refusals /\ "408" \notin Refusals
      BY <3>1, RefusalsAreStatuses DEF AccessInv, Refusals
    <3>3. Failed(call[t])' = Failed(call[t]) /\ AnsweredInline(call[t])' = AnsweredInline(call[t])
      BY <3>1 DEF Failed, AnsweredInline
    <3> QED
      BY <2>1, <3>1, <3>2, <3>3 DEF AccessInv, Failed, AnsweredInline
  <2>4. CASE Answer(t) \/ TimeOut(t)
    <3>1. /\ phase[t] = "handling" /\ phase'[t] = "sent" /\ call' = call
          /\ status'[t] = "408" => status[t] \in {"none", "408"}
      <4>1. "408" \notin Outcomes(t)
        BY DEF Outcomes
      <4> QED
        BY <2>4, <4>1, LayerStep DEF Ready, Answers
    <3>2. "408" \notin Refusals /\ "none" \notin Refusals
      BY DEF Refusals
    <3> QED
      BY <2>1, <3>1, <3>2 DEF AccessInv, Failed, AnsweredInline
  <2> QED
    BY <1>1, <2>2, <2>3, <2>4
<1>2. ASSUME NEW t \in Tasks, Closure(t) PROVE AccessInv'
  <2>1. UNCHANGED <<phase, call, status>>
    BY <1>2, ClosureStep
  <2>2. /\ \A u \in Tasks \ {t} : pc'[u] = pc[u] /\ request'[u] = request[u]
        /\ pc[t] # "idle" => request' = request
        /\ pc'[t] # "idle"
    BY <1>2, ClosureFrame
  <2>3. CASE pc[t] = "idle"
    <3>1. Start(t)
      BY <1>2, <2>3, ClosureTask DEF LookAgain
    <3>2. /\ phase[t] \notin {"idle", "queued"} /\ Failed(call[t]) = {}
          /\ ~ AnsweredInline(call[t])
          /\ request'[t] = [kind |-> KindOf(call[t].route), txn |-> call[t].txn]
      BY <3>1 DEF Start, AccessInv, Refusals
    <3> QED
      BY <2>1, <2>2, <3>2 DEF AccessInv, Failed, AnsweredInline
  <2>4. CASE pc[t] # "idle"
    BY <2>1, <2>2, <2>4 DEF AccessInv, Failed, AnsweredInline
  <2> QED
    BY <2>3, <2>4
<1>3. ASSUME Tick \/ UNCHANGED serverVars PROVE AccessInv'
  <2>1. UNCHANGED <<pc, request, phase, call, status>>
    BY <1>3 DEF Tick, serverVars, httpVars, taskVars, vars
  <2> QED
    BY <2>1 DEF AccessInv, Failed, AnsweredInline
<1> QED
  BY <1>1, <1>2, <1>3, ServerSteps

LEMMA AccessHeld == ServerSpec => [](HistoryInv /\ LayersInv /\ AccessInv)
<1>1. ServerInit => AccessInv
  BY DEF ServerInit, Init, AccessInv
<1> QED
  BY <1>1, LayersHeld, NextAccessInv, PTL DEF ServerSpec

Within(s, x) == \E i \in DOMAIN s : s[i] = x

LEMMA FirstOrSecond ==
  ASSUME NEW S, NEW a \in Seq(S), NEW b \in Seq(S), NEW x, Within(a, x) \/ Within(b, x)
  PROVE  Within(a \o b, x)
<1>1. /\ Len(a) \in Nat /\ DOMAIN a = 1 .. Len(a)
      /\ Len(b) \in Nat /\ DOMAIN b = 1 .. Len(b)
      /\ DOMAIN (a \o b) = 1 .. Len(a) + Len(b)
      /\ \A i \in 1 .. Len(a) + Len(b) :
           (a \o b)[i] = IF i <= Len(a) THEN a[i] ELSE b[i - Len(a)]
  BY LenProperties, ConcatProperties
<1>2. CASE Within(a, x)
  BY <1>1, <1>2 DEF Within
<1>3. CASE Within(b, x)
  <2>1. PICK i \in 1 .. Len(b) : b[i] = x
    BY <1>1, <1>3 DEF Within
  <2>2. Len(a) + i \in 1 .. Len(a) + Len(b) /\ ~ (Len(a) + i <= Len(a)) /\ (Len(a) + i) - Len(a) = i
    BY <1>1, <2>1
  <2> QED
    BY <1>1, <2>1, <2>2 DEF Within
<1> QED
  BY <1>2, <1>3

\* Where the token is asked for, it is among the checks of the handler.
LEMMA TokenChecked ==
  ASSUME NEW route \in {"submit", "traceCommit", "mint"}, TokenSet, Strict \/ route = "mint"
  PROVE  Within(Checks(route), "token")
<1>1. Gate(route) = <<"token">>
  BY DEF Gate
<1>2. <<"token">> \in Seq(Flaws) /\ Within(<<"token">>, "token")
  BY DEF Flaws, Within
<1>3. /\ <<"size", "media", "accept">> \in Seq(Flaws) /\ <<"body">> \in Seq(Flaws)
      /\ <<"query", "size", "media", "accept", "body">> \in Seq(Flaws)
      /\ <<"query">> \in Seq(Flaws) /\ <<"address">> \in Seq(Flaws)
  BY DEF Flaws
<1>4. ASSUME NEW before \in Seq(Flaws), NEW after \in Seq(Flaws)
      PROVE  /\ Within(before \o <<"token">>, "token")
             /\ Within(before \o <<"token">> \o after, "token")
  BY <1>2, FirstOrSecond, ConcatProperties
<1>5. CASE route = "submit"
  <2>1. Checks(route) = <<"size", "media", "accept">> \o <<"token">> \o <<"body">>
    BY <1>1, <1>5 DEF Checks, ReadRoutes
  <2> QED
    BY <1>3, <1>4, <2>1
<1>6. CASE route = "traceCommit"
  <2>1. Checks(route) = <<"query", "size", "media", "accept", "body">> \o <<"token">>
    BY <1>1, <1>6 DEF Checks, ReadRoutes
  <2> QED
    BY <1>3, <1>4, <2>1
<1>7. CASE route = "mint"
  <2>1. Checks(route) = <<"query">> \o <<"token">> \o <<"address">>
    BY <1>1, <1>7 DEF Checks, ReadRoutes
  <2> QED
    BY <1>3, <1>4, <2>1
<1> QED
  BY <1>5, <1>6, <1>7

\* The author of a change, at its endpoint.
LEMMA AuthorsRoute ==
  ASSUME HistoryInv, AccessInv, NEW i \in DOMAIN session, session[i].by # NoTask
  PROVE  /\ session[i].by \in Tasks /\ pc[session[i].by] \in Past
         /\ Kind(session[i].by) = call[session[i].by].route
         /\ call[session[i].by].route \in {"submit", "traceCommit", "mint"}
         /\ Failed(call[session[i].by]) = {}
<1> DEFINE u == session[i].by
<1>1. u \in Tasks
  <2>1. session[i] \in Changes
    BY SessionFacts, ElementOfSeq DEF HistoryInv
  <2> QED
    BY <2>1 DEF Changes
<1>2. pc[u] \in Past /\ Kind(u) \in TxnKinds \cup {"mint"}
  BY <1>1 DEF HistoryInv, AuthorInv
<1>3. Kind(u) = KindOf(call[u].route) /\ Failed(call[u]) = {}
  <2>1. pc[u] # "idle"
    BY <1>2 DEF Past
  <2>2. /\ request[u] = [kind |-> KindOf(call[u].route), txn |-> call[u].txn]
        /\ Failed(call[u]) = {}
    BY <1>1, <2>1 DEF AccessInv
  <2> QED
    BY <2>2 DEF Kind
<1>4. Kind(u) # "view"
  BY <1>2 DEF TxnKinds
<1> QED
  BY <1>1, <1>2, <1>3, <1>4 DEF KindOf, TxnKinds

\* Only a request that brought the token where it is asked for changes the chain,
\* through whichever endpoint and in whichever order closures run: also one whose
\* client was answered 408 before its closure began.
THEOREM OnlyAuthorizedChanges == ServerSpec => []ChangesAuthorized
<1>1. HistoryInv /\ AccessInv => ChangesAuthorized
  <2> SUFFICES ASSUME HistoryInv, AccessInv, NEW i \in DOMAIN session, session[i].by # NoTask
               PROVE  /\ call[session[i].by].route \in {"submit", "traceCommit", "mint"}
                      /\ TokenSet /\ (Strict \/ call[session[i].by].route = "mint")
                           => "token" \notin call[session[i].by].flaws
    BY DEF ChangesAuthorized
  <2> DEFINE c == call[session[i].by]
  <2>1. c.route \in {"submit", "traceCommit", "mint"} /\ Failed(c) = {}
    BY AuthorsRoute
  <2>2. ASSUME TokenSet, Strict \/ c.route = "mint" PROVE "token" \notin c.flaws
    <3>1. PICK k \in DOMAIN Checks(c.route) : Checks(c.route)[k] = "token"
      BY <2>1, <2>2, TokenChecked DEF Within
    <3> QED
      BY <2>1, <3>1 DEF Failed
  <2> QED
    BY <2>1, <2>2
<1> QED
  BY <1>1, AccessHeld, PTL

-----------------------------------------------------------------------------
(* Looks.                                                                  *)

\* An author of changes that are seen is done with them, or has only a mint to count.
Settling(u) == pc[u] = "done" \/ (pc[u] = "increment" /\ Kind(u) = "mint")

LookInv ==
  /\ LooksAdvance
  /\ \A t \in Tasks : floor[t] \subseteq Acked /\ (pc[t] = "idle" => looks[t] = <<>>)

\* What goes on for everybody else while a closure takes a step.
LEMMA ClosureAdvances ==
  ASSUME HistoryInv, NEW t \in Tasks, Closure(t)
  PROVE  /\ session' \in Seq(Changes)
         /\ Acked \subseteq Acked'
         /\ \A s \in Seq(Changes) : IsPrefix(s, session) => IsPrefix(s, session')
         /\ \A i \in DOMAIN session : i \in DOMAIN session' /\ session'[i] = session[i]
         /\ \A u \in Tasks : Settling(u) => Settling(u)'
         /\ floor'[t] = floor[t] \/ (pc[t] = "idle" /\ floor'[t] = Acked)
         /\ pc[t] = "read" => session' = session
<1>1. CASE LookAgain(t)
  <2>1. UNCHANGED <<session, reply, request, floor>> /\ pc[t] = "read"
        /\ \A u \in Tasks \ {t} : pc'[u] = pc[u]
    BY <1>1, ClosureFrame DEF LookAgain
  <2> QED
    BY <2>1 DEF HistoryInv, TypeInv, TypeOK, Acked, Settling, Kind
<1>2. CASE Step(t)
  <2>1. pc \in [Tasks -> Labels] /\ floor \in [Tasks -> SUBSET Tasks] /\ session \in Seq(Changes)
    BY DEF HistoryInv, TypeInv, TypeOK
  <2>2. Goes(t) /\ (pc[t] # "idle" => request' = request)
        /\ (pc[t] \notin {"apply", "fund"} => session' = session)
    BY <1>2, Moves DEF HistoryInv
  <2>3. floor'[t] = floor[t] \/ (pc[t] = "idle" /\ floor'[t] = Acked)
    BY <1>2, <2>1 DEF Step, Begin, Acquire, RunVm, VmFails, ApplyWriteSet, FundAccount, Persist,
       PersistFails, Bump, IncrementOps, ReadOps, StoreRecord, MakeTemp, MakeTempFails,
       CopySession, CopyFails, RunClone, CloneFails, ClonePanics, Cleanup, CleanupFails,
       ReadSession
  <2>4. ASSUME NEW u \in Tasks, Settling(u) PROVE Settling(u)'
    <3>1. CASE u # t
      BY <1>2, <2>4, <3>1, OthersUnchanged DEF HistoryInv, Settling, Kind
    <3>2. CASE u = t
      <4>1. pc[t] = "increment" /\ Kind(t) = "mint"
        BY <2>2, <2>4, <3>2 DEF Goes, Settling
      <4>2. IncrementOps(t)
        BY <1>2, <4>1, StepsAt
      <4> QED
        BY <2>1, <3>2, <4>1, <4>2 DEF IncrementOps, Goto, Settling
    <3> QED
      BY <3>1, <3>2
  <2>5. /\ session' \in Seq(Changes)
        /\ \A i \in DOMAIN session : i \in DOMAIN session' /\ session'[i] = session[i]
    <3>1. ASSUME NEW change \in Changes, session' = Append(session, change)
          PROVE  /\ session' \in Seq(Changes)
                 /\ \A i \in DOMAIN session : i \in DOMAIN session' /\ session'[i] = session[i]
      BY <2>1, <3>1, Growth, AppendProperties DEF HistoryInv
    <3> QED
      BY <1>2, <2>1, <3>1, SessionStep DEF HistoryInv
  <2> QED
    BY <1>2, <2>2, <2>3, <2>4, <2>5, AckedGrows, PrefixStays DEF HistoryInv
<1> QED
  BY <1>1, <1>2, ClosureTask

\* While a closure looks, no change is under way.
LEMMA NothingUnderWay ==
  ASSUME HistoryInv, NEW t \in Tasks, pc[t] = "read",
         NEW i \in DOMAIN session, session[i].by # NoTask
  PROVE  session[i].by \in Tasks \ {t} /\ Settling(session[i].by)
<1> DEFINE u == session[i].by
<1>1. u \in Tasks
  <2>1. session[i] \in Changes
    BY SessionFacts, ElementOfSeq DEF HistoryInv
  <2> QED
    BY <2>1 DEF Changes
<1>2. pc[u] \in Past /\ Kind(u) \in TxnKinds \cup {"mint"}
  BY <1>1 DEF HistoryInv, AuthorInv
<1>3. u # t /\ ~ InSession(u)
  BY <1>1, <1>2 DEF HistoryInv, LockInv, InSession, Past
<1>4. pc[u] = "done" \/ (pc[u] = "increment" /\ Kind(u) # "traceCommit")
  BY <1>2, <1>3 DEF InSession, Past
<1>5. pc[u] = "increment" => Kind(u) \in {"traceCommit", "mint"}
  BY <1>1 DEF HistoryInv, TypeInv, KindInv
<1> QED
  BY <1>1, <1>3, <1>4, <1>5 DEF Settling

\* Looks that were taken stay what they were.
LEMMA OldLooksStay ==
  ASSUME HistoryInv, LayersInv, LookInv, NEW t \in Tasks, Closure(t),
         NEW u \in Tasks, looks'[u] = looks[u], looks[u] # <<>>
  PROVE  /\ \A i \in 1 .. Len(looks'[u]) - 1 : IsPrefix(looks'[u][i], looks'[u][i + 1])
         /\ IsPrefix(Last(looks'[u]), session')
         /\ \A v \in floor'[u] : \E i \in DOMAIN looks'[u][1] : looks'[u][1][i].by = v
         /\ \A i \in DOMAIN Last(looks'[u]) :
              session'[i].by # NoTask => Settling(session[i].by)'
<1> DEFINE seen == Last(looks[u])
<1>1. /\ looks[u] \in Seq(Seq(Changes)) /\ Len(looks[u]) \in Nat \ {0}
      /\ seen \in Seq(Changes) /\ IsPrefix(seen, session)
  <2>1. looks[u] \in Seq(Seq(Changes))
    BY DEF LayersInv
  <2>2. Len(looks[u]) \in Nat \ {0}
    BY <2>1, EmptySeq
  <2>3. seen \in Seq(Changes)
    BY <2>1, <2>2, ElementOfSeq DEF Last
  <2> QED
    BY <2>1, <2>2, <2>3 DEF LookInv, LooksAdvance
<1>2. floor'[u] = floor[u]
  <2>1. pc[u] # "idle"
    BY DEF LookInv
  <2> QED
    BY <2>1, ClosureAdvances, ClosureFrame
<1>3. /\ session \in Seq(Changes)
      /\ \A i \in DOMAIN seen : i \in DOMAIN session /\ session'[i] = session[i]
  <2>1. /\ session \in Seq(Changes) /\ DOMAIN session = 1 .. Len(session) /\ Len(session) \in Nat
    BY SessionFacts DEF HistoryInv
  <2>2. DOMAIN seen = 1 .. Len(seen) /\ Len(seen) \in Nat /\ Len(seen) <= Len(session)
    BY <1>1, <2>1, PrefixElements, LenProperties
  <2>3. \A i \in DOMAIN seen : i \in DOMAIN session
    BY <2>1, <2>2
  <2> QED
    BY <2>1, <2>3, ClosureAdvances
<1>4. ASSUME NEW i \in DOMAIN seen, session'[i].by # NoTask PROVE Settling(session[i].by)'
  <2>1. session'[i] = session[i] /\ i \in DOMAIN session /\ session[i].by # NoTask
    BY <1>3, <1>4
  <2>2. session[i].by \in Tasks
    <3>1. session[i] \in Changes
      BY <1>3, <2>1, LenProperties, ElementOfSeq
    <3> QED
      BY <2>1, <3>1 DEF Changes
  <2>3. Settling(session[i].by)
    BY <2>1 DEF LookInv, LooksAdvance, Settling
  <2>4. PICK v \in Tasks : v = session[i].by
    BY <2>2
  <2>5. Settling(v)'
    BY <2>3, <2>4, ClosureAdvances
  <2> QED
    BY <2>1, <2>4, <2>5 DEF Settling, Kind
<1>5. IsPrefix(seen, session')
  BY <1>1, ClosureAdvances
<1> QED
  BY <1>2, <1>4, <1>5 DEF LookInv, LooksAdvance

\* A look shows the session as it is, with what was acknowledged when the closure
\* began.
LEMMA LookTaken ==
  ASSUME HistoryInv, LayersInv, LookInv, NEW t \in Tasks, Closure(t), pc[t] = "read",
         looks' = [looks EXCEPT ![t] = Append(@, session)]
  PROVE  /\ \A i \in 1 .. Len(looks'[t]) - 1 : IsPrefix(looks'[t][i], looks'[t][i + 1])
         /\ IsPrefix(Last(looks'[t]), session')
         /\ \A v \in floor'[t] : \E i \in DOMAIN looks'[t][1] : looks'[t][1][i].by = v
         /\ \A i \in DOMAIN Last(looks'[t]) :
              session'[i].by # NoTask => Settling(session[i].by)'
<1> DEFINE old == looks[t]
           new == looks'[t]
           n == Len(old)
<1>1. /\ session \in Seq(Changes) /\ old \in Seq(Seq(Changes)) /\ n \in Nat
      /\ session' = session /\ floor'[t] = floor[t]
      /\ pc[t] = "read"
  <2>1. session \in Seq(Changes) /\ old \in Seq(Seq(Changes))
    BY DEF HistoryInv, TypeInv, TypeOK, LayersInv
  <2> QED
    BY <2>1, LenProperties, ClosureAdvances
<1>2. ASSUME NEW States, NEW now \in States, NEW s \in Seq(States)
      PROVE  /\ Append(s, now) \in Seq(States) /\ Len(Append(s, now)) = Len(s) + 1
             /\ \A i \in 1 .. Len(s) : Append(s, now)[i] = s[i]
             /\ Append(s, now)[Len(s) + 1] = now
  BY AppendProperties
<1>3. new = Append(old, session)
  BY DEF LayersInv
<1>4. /\ Len(new) = n + 1 /\ new[n + 1] = session
      /\ \A i \in 1 .. n : new[i] = old[i]
  BY <1>1, <1>2, <1>3
<1>5. Last(new) = session
  BY <1>4 DEF Last
<1>6. IsPrefix(session, session)
  BY <1>1, PrefixElements, LenProperties
<1>7. n # 0 => old # <<>> /\ Last(old) = old[n] /\ IsPrefix(old[n], session)
  <2>1. n # 0 => old # <<>>
    BY <1>1, EmptySeq
  <2> QED
    BY <2>1 DEF LookInv, LooksAdvance, Last
<1>8. ASSUME NEW i \in 1 .. n PROVE IsPrefix(new[i], new[i + 1])
  <2>1. CASE i = n
    BY <1>1, <1>4, <1>7, <1>8, <2>1
  <2>2. CASE i # n
    <3>1. i \in 1 .. n - 1 /\ i + 1 \in 1 .. n /\ n # 0
      BY <1>1, <1>8, <2>2
    <3>2. IsPrefix(old[i], old[i + 1])
      BY <1>7, <3>1 DEF LookInv, LooksAdvance
    <3> QED
      BY <1>4, <3>1, <3>2
  <2> QED
    BY <2>1, <2>2
<1>9. ASSUME NEW v \in floor[t] PROVE \E i \in DOMAIN new[1] : new[1][i].by = v
  <2>1. CASE n = 0
    <3>1. new[1] = session
      BY <1>4, <2>1
    <3>2. v \in Acked
      BY DEF LookInv
    <3> QED
      BY <3>1, <3>2 DEF Acked
  <2>2. CASE n # 0
    <3>1. new[1] = old[1]
      BY <1>1, <1>4, <2>2
    <3> QED
      BY <1>7, <2>2, <3>1 DEF LookInv, LooksAdvance
  <2> QED
    BY <2>1, <2>2
<1>10. ASSUME NEW i \in DOMAIN session, session[i].by # NoTask PROVE Settling(session[i].by)'
  <2>1. PICK u \in Tasks : u = session[i].by /\ Settling(u)
    BY <1>1, <1>10, NothingUnderWay
  <2>2. Settling(u)'
    BY <2>1, ClosureAdvances
  <2> QED
    BY <1>1, <2>1, <2>2 DEF Settling, Kind
<1>11. \A i \in 1 .. Len(new) - 1 : IsPrefix(new[i], new[i + 1])
  <2>1. Len(new) - 1 = n
    BY <1>1, <1>4
  <2> QED
    BY <1>8, <2>1
<1> QED
  BY <1>1, <1>5, <1>6, <1>9, <1>10, <1>11

LEMMA ClosureKeepsLooks ==
  ASSUME HistoryInv, LayersInv, LookInv, NEW t \in Tasks, Closure(t)
  PROVE  LookInv'
<1>1. looks \in [Tasks -> Seq(Seq(Changes))]
  BY DEF LayersInv
<1>2. /\ \A u \in Tasks \ {t} : pc'[u] = pc[u] /\ floor'[u] = floor[u] /\ looks'[u] = looks[u]
      /\ pc'[t] # "idle"
  BY <1>1, ClosureFrame, ClosureStep
<1>3. ASSUME NEW u \in Tasks PROVE floor'[u] \subseteq Acked' /\ (pc'[u] = "idle" => looks'[u] = <<>>)
  BY <1>2, ClosureAdvances DEF LookInv
<1>4. ASSUME NEW u \in Tasks, looks'[u] # <<>>
      PROVE  /\ \A i \in 1 .. Len(looks'[u]) - 1 : IsPrefix(looks'[u][i], looks'[u][i + 1])
             /\ IsPrefix(Last(looks'[u]), session')
             /\ \A v \in floor'[u] : \E i \in DOMAIN looks'[u][1] : looks'[u][1][i].by = v
             /\ \A i \in DOMAIN Last(looks'[u]) :
                  session'[i].by # NoTask => Settling(session[i].by)'
  <2>1. CASE looks'[u] = looks[u]
    BY <1>4, <2>1, OldLooksStay
  <2>2. CASE looks'[u] # looks[u]
    BY <1>2, <2>2, ClosureStep, LookTaken
  <2> QED
    BY <2>1, <2>2
<1> QED
  BY <1>3, <1>4 DEF LookInv, LooksAdvance, Settling, Kind

LEMMA NextLookInv ==
  ASSUME HistoryInv, LayersInv, LookInv, [ServerNext]_serverVars
  PROVE  LookInv'
<1>1. ASSUME UNCHANGED vars, looks' = looks PROVE LookInv'
  BY <1>1 DEF vars, LookInv, LooksAdvance, Acked, Kind
<1>2. ASSUME NEW t \in Tasks, Arrive(t) \/ Admit(t) \/ Answer(t) \/ TimeOut(t)
      PROVE  UNCHANGED vars /\ looks' = looks
  BY <1>2, LayerStep
<1>3. ASSUME Tick \/ UNCHANGED serverVars PROVE UNCHANGED vars /\ looks' = looks
  BY <1>3 DEF Tick, serverVars, httpVars, taskVars
<1> QED
  BY <1>1, <1>2, <1>3, ClosureKeepsLooks, ServerSteps

LEMMA LooksHeld == ServerSpec => [](HistoryInv /\ LayersInv /\ AccessInv /\ LookInv)
<1>1. ServerInit => LookInv
  BY DEF ServerInit, Init, LookInv, LooksAdvance
<1> QED
  BY <1>1, AccessHeld, NextLookInv, PTL DEF ServerSpec

\* An answer made of several looks, with the lock given back in between, shows one
\* history going forward: each look continues the one before, the first shows what
\* was acknowledged before the request, and none shows a change that may yet fail.
THEOREM LooksGoForward == ServerSpec => []LooksAdvance
<1>1. LookInv => LooksAdvance
  BY DEF LookInv
<1> QED
  BY <1>1, LooksHeld, PTL

-----------------------------------------------------------------------------
(* Answers.                                                                *)

\* A closure that has ended has an outcome, and a request that was answered keeps to
\* its answer: only one answered 408 may still start a closure, or end it.
AnswerInv ==
  \A t \in Tasks :
    /\ pc[t] = "done" => reply[t] # "none"
    /\ phase[t] = "sent" =>
         /\ status[t] # "none"
         /\ status[t] = "200" => \/ pc[t] = "idle" /\ AnsweredInline(call[t])
                                 \/ pc[t] = "done" /\ reply[t] = "ok"
         /\ status[t] = "500" =>
              /\ pc[t] = "done"
              /\ \/ reply[t] \in {"error", "left", "panicked"}
                 \/ reply[t] = "ok" /\ call[t].route \in Rendering
         /\ status[t] \in Refusals =>
              pc[t] = "idle" \/ (pc[t] = "done" /\ call[t].route = "view")

\* No closure moves that is done, or whose request has its answer and is not 408.
LEMMA ClosureMovesOn ==
  ASSUME HistoryInv, LayersInv, AnswerInv, NEW t \in Tasks, Closure(t)
  PROVE  /\ pc[t] # "done"
         /\ phase[t] = "sent" => status[t] = "408"
         /\ pc'[t] = "done" => reply'[t] # "none"
<1>1. pc \in [Tasks -> Labels] /\ reply \in [Tasks -> Replies] /\ status[t] \in Statuses
  BY DEF HistoryInv, TypeInv, TypeOK, LayersInv
<1>2. pc[t] # "done" /\ (pc'[t] = "done" => reply'[t] # "none")
  <2>1. CASE LookAgain(t)
    BY <1>1, <2>1 DEF LookAgain, Goto
  <2>2. CASE Step(t)
    <3>1. Goes(t)
      BY <2>2, Moves DEF HistoryInv
    <3>2. pc'[t] = "done" => reply'[t] # "none"
      BY <1>1, <2>2, <3>1, StepsAt DEF Goes, RunVm, VmFails, FundAccount, ApplyWriteSet, Persist,
         PersistFails, IncrementOps, StoreRecord, MakeTemp, MakeTempFails, RunClone, CloneFails,
         ClonePanics, Cleanup, CleanupFails, ReadSession, Goto, ReleaseAnd
    <3> QED
      BY <3>1, <3>2 DEF Goes
  <2> QED
    BY <2>1, <2>2, ClosureTask
<1>3. pc[t] = "idle" => Start(t)
  BY ClosureTask DEF LookAgain
<1>4. phase[t] = "sent" => status[t] = "408"
  BY <1>1, <1>2, <1>3 DEF Start, AnswerInv, Statuses
<1> QED
  BY <1>2, <1>4

LEMMA NextAnswerInv ==
  ASSUME HistoryInv, LayersInv, AccessInv, AnswerInv, [ServerNext]_serverVars
  PROVE  AnswerInv'
<1>1. \A t \in Tasks : status[t] \in Statuses /\ reply[t] \in Replies
  BY DEF LayersInv, HistoryInv, TypeInv, TypeOK
<1>2. ASSUME NEW t \in Tasks, Arrive(t) \/ Admit(t) \/ Answer(t) \/ TimeOut(t)
      PROVE  AnswerInv'
  <2>1. /\ UNCHANGED <<pc, reply>>
        /\ \A u \in Tasks \ {t} :
             phase'[u] = phase[u] /\ call'[u] = call[u] /\ status'[u] = status[u]
    BY <1>2, LayerStep DEF vars
  <2>2. CASE Arrive(t) \/ Admit(t)
    <3>1. phase'[t] # "sent"
      BY <2>2, LayerStep
    <3> QED
      BY <2>1, <3>1 DEF AnswerInv, AnsweredInline
  <2>3. CASE TimeOut(t)
    <3>1. status'[t] = "408" /\ "408" \notin Refusals
      BY <2>3, LayerStep DEF Refusals
    <3> QED
      BY <2>1, <3>1 DEF AnswerInv, AnsweredInline
  <2>4. CASE Answer(t)
    <3>1. /\ phase[t] = "handling" /\ call' = call /\ Ready(t)
          /\ status'[t] \in Answers(t)
      BY <2>4, LayerStep
    <3>2. CASE status[t] # "none"
      <4>1. pc[t] = "idle" /\ (status[t] = "200" => AnsweredInline(call[t]))
            /\ status[t] \in Refusals \cup {"200"}
        BY <3>1, <3>2 DEF AccessInv, Refusals
      <4> QED
        BY <2>1, <3>1, <3>2, <4>1 DEF Answers, AnswerInv, AnsweredInline, Refusals
    <3>3. CASE status[t] = "none"
      <4>1. /\ pc[t] = "done" /\ reply[t] \in {"ok", "error", "left", "panicked"}
            /\ status'[t] \in Outcomes(t)
        BY <1>1, <3>1, <3>3 DEF Ready, Answers, AnswerInv, Replies
      <4>2. /\ status'[t] \in {"200", "400", "500"}
            /\ status'[t] = "200" => reply[t] = "ok"
            /\ status'[t] = "400" => call[t].route = "view"
            /\ status'[t] = "500" => reply[t] # "ok" \/ call[t].route \in Rendering
        BY <4>1 DEF Outcomes
      <4>3. {"200", "500"} \cap Refusals = {}
        BY DEF Refusals
      <4> QED
        BY <2>1, <3>1, <4>1, <4>2, <4>3 DEF AnswerInv, AnsweredInline
    <3> QED
      BY <3>2, <3>3
  <2> QED
    BY <1>2, <2>2, <2>3, <2>4
<1>3. ASSUME NEW t \in Tasks, Closure(t) PROVE AnswerInv'
  <2>1. UNCHANGED <<phase, call, status>>
        /\ \A u \in Tasks \ {t} : pc'[u] = pc[u] /\ reply'[u] = reply[u]
    BY <1>3, ClosureStep, ClosureFrame
  <2>2. /\ phase[t] = "sent" => status[t] = "408"
        /\ pc'[t] = "done" => reply'[t] # "none"
        /\ "408" \notin Refusals
    BY <1>3, ClosureMovesOn DEF Refusals
  <2> QED
    BY <2>1, <2>2 DEF AnswerInv, AnsweredInline
<1>4. ASSUME Tick \/ UNCHANGED serverVars PROVE AnswerInv'
  <2>1. UNCHANGED <<pc, reply, phase, call, status>>
    BY <1>4 DEF Tick, serverVars, httpVars, taskVars, vars
  <2> QED
    BY <2>1 DEF AnswerInv, AnsweredInline
<1> QED
  BY <1>2, <1>3, <1>4, ServerSteps

\* A look that goes on counts nothing.
LEMMA NextServerCount ==
  ASSUME HistoryInv, CountInv, [ServerNext]_serverVars
  PROVE  CountInv'
<1>1. ASSUME NEW t \in Tasks, LookAgain(t) PROVE CountInv'
  <2>1. /\ UNCHANGED <<opsCount, request, verdict, reply>> /\ pc[t] = "read"
        /\ pc' = [pc EXCEPT ![t] = "acquire"] /\ pc \in [Tasks -> Labels]
    BY <1>1 DEF LookAgain, Goto, HistoryInv, TypeInv, TypeOK
  <2>2. Counted' = Counted
    BY <2>1 DEF Counted, Reached, Kind
  <2> QED
    BY <2>1, <2>2 DEF CountInv
<1> QED
  BY <1>1, TaskSteps, NextCountInv DEF Next

LEMMA AnswersHeld ==
  ServerSpec => [](HistoryInv /\ LayersInv /\ AccessInv /\ LookInv /\ AnswerInv /\ CountInv)
<1>1. ServerInit => AnswerInv /\ CountInv
  <2> SUFFICES ASSUME ServerInit PROVE AnswerInv /\ CountInv
    OBVIOUS
  <2>1. Counted = {}
    BY DEF ServerInit, Init, Counted
  <2> QED
    BY <2>1, FS_EmptySet DEF ServerInit, Init, AnswerInv, CountInv
<1> QED
  BY <1>1, LooksHeld, NextAnswerInv, NextServerCount, PTL DEF ServerSpec

-----------------------------------------------------------------------------
(* Headers.                                                                *)

\* The changes an answer knows of that it has to count.
Known(t) == {i \in 1 .. Horizon(t) :
               \/ session[i].by = t
               \/ session[i].txn # NoTxn /\ reply[session[i].by] = "ok"}

LEMMA UpTo ==
  ASSUME NEW a \in Nat, NEW b \in Nat, NEW c \in Nat, 1 <= a, a <= b, b <= c
  PROVE  a \in 1 .. c /\ (a = c => a = b)
OBVIOUS

\* They are in the session, and the requests that made them are done.
LEMMA KnownDone ==
  ASSUME HistoryInv, LayersInv, LookInv, NEW t \in Tasks, pc[t] \in {"idle", "done"},
         NEW i \in 1 .. Horizon(t)
  PROVE  /\ i \in DOMAIN session
         /\ session[i].txn # NoTxn => session[i].by \in Tasks /\ pc[session[i].by] = "done"
<1>1. session \in Seq(Changes) /\ Len(session) \in Nat /\ DOMAIN session = 1 .. Len(session)
  BY SessionFacts DEF HistoryInv
<1>2. ASSUME session[i].txn # NoTxn, i \in DOMAIN session
      PROVE  /\ session[i].by \in Tasks /\ session[i].by # NoTask /\ Kind(session[i].by) \in TxnKinds
             /\ pc[session[i].by] = "done" \/ (inner = session[i].by /\ i = Len(session))
  BY <1>2, AuthorsDone, TaskAssumption DEF HistoryInv, AuthorInv
<1>3. CASE looks[t] # <<>>
  <2> DEFINE seen == Last(looks[t])
  <2>1. seen \in Seq(Changes) /\ Len(seen) \in Nat /\ DOMAIN seen = 1 .. Len(seen)
    <3>1. looks[t] \in Seq(Seq(Changes)) /\ Len(looks[t]) \in Nat \ {0}
      BY <1>3, EmptySeq DEF LayersInv
    <3> QED
      BY <3>1, ElementOfSeq, LenProperties DEF Last
  <2>2. IsPrefix(seen, session) /\ i \in DOMAIN seen
    BY <1>3, <2>1 DEF LookInv, LooksAdvance, Horizon
  <2>3. i \in DOMAIN session
    <3>1. Len(seen) <= Len(session)
      BY <1>1, <2>1, <2>2, PrefixElements
    <3> QED
      BY <1>1, <2>1, <2>2, <3>1
  <2>4. session[i].txn # NoTxn => pc[session[i].by] = "done"
    <3> SUFFICES ASSUME session[i].txn # NoTxn PROVE pc[session[i].by] = "done"
      OBVIOUS
    <3>1. session[i].by # NoTask /\ Kind(session[i].by) # "mint"
      BY <1>2, <2>3 DEF TxnKinds
    <3> QED
      BY <1>3, <2>2, <3>1 DEF LookInv, LooksAdvance
  <2> QED
    BY <1>2, <2>3, <2>4
<1>4. CASE looks[t] = <<>> /\ Changed(t)
  <2>1. PICK h \in DOMAIN session : h = Horizon(t) /\ session[h].by = t
    BY <1>4 DEF Horizon, Changed
  <2>2. i \in DOMAIN session /\ (i = Len(session) => i = h)
    <3>1. i \in 1 .. h /\ h \in 1 .. Len(session)
      BY <1>1, <2>1
    <3>2. i \in Nat /\ h \in Nat /\ 1 <= i /\ i <= h /\ h <= Len(session)
      BY <1>1, <3>1
    <3>3. i \in 1 .. Len(session) /\ (i = Len(session) => i = h)
      BY <1>1, <3>2, UpTo
    <3> QED
      BY <1>1, <3>3
  <2>3. session[h].by = t /\ pc[t] \in Past
    BY <2>1 DEF HistoryInv, AuthorInv
  <2>4. pc[t] = "done"
    BY <2>3 DEF Past
  <2> QED
    BY <1>2, <2>1, <2>2, <2>4
<1>5. CASE looks[t] = <<>> /\ ~ Changed(t)
  <2>1. Horizon(t) = 0
    BY <1>5 DEF Horizon
  <2> QED
    BY <2>1
<1> QED
  BY <1>3, <1>4, <1>5

\* The version counts them all when the answer goes out.
LEMMA KnownCounted ==
  ASSUME HistoryInv, LayersInv, LookInv, CountInv, NEW t \in Tasks,
         pc[t] = "idle" \/ (pc[t] = "done" /\ reply[t] = "ok")
  PROVE  Cardinality(Known(t)) <= opsCount
<1>1. ASSUME NEW i \in Known(t) PROVE i \in DOMAIN session /\ session[i].by \in Counted
  <2>1. /\ i \in DOMAIN session
        /\ session[i].txn # NoTxn => session[i].by \in Tasks /\ pc[session[i].by] = "done"
    BY <1>1, KnownDone DEF Known
  <2>2. CASE session[i].txn # NoTxn
    <3>1. reply[session[i].by] = "ok"
      <4>1. CASE session[i].by = t
        BY <2>1, <2>2, <4>1
      <4>2. CASE session[i].by # t
        BY <1>1, <4>2 DEF Known
      <4> QED
        BY <4>1, <4>2
    <3>2. session[i].by \in Acked
      BY <2>1, <2>2, <3>1 DEF Acked
    <3> QED
      BY <2>1, <2>2, <3>2, AckedCounted
  <2>3. CASE session[i].txn = NoTxn
    <3>1. session[i].by = t
      BY <1>1, <2>3 DEF Known
    <3>2. pc[t] \in Past /\ Kind(t) = "mint"
      BY <2>1, <2>3, <3>1 DEF HistoryInv, AuthorInv
    <3>3. pc[t] = "done" /\ reply[t] = "ok"
      BY <3>2 DEF Past
    <3> QED
      BY <2>1, <3>1, <3>2, <3>3 DEF Counted, Reached
  <2> QED
    BY <2>1, <2>2, <2>3
<1> DEFINE f == [i \in Known(t) |-> session[i].by]
<1>2. f \in [Known(t) -> Counted] /\ \A i, j \in Known(t) : f[i] = f[j] => i = j
  BY <1>1 DEF HistoryInv, AuthorInv
<1>3. f \in Injection(Known(t), Counted)
  BY <1>2 DEF Injection, IsInjective
<1> QED
  BY <1>3, CountedFinite, FS_Injection DEF CountInv

\* What an answer that is out knows of stays the same.
LEMMA KnownStays ==
  ASSUME HistoryInv, HistoryInv', LayersInv, LookInv, AnswerInv, NEW t \in Tasks, Closure(t),
         NEW u \in Tasks, phase[u] = "sent", status[u] = "200"
  PROVE  Known(u)' = Known(u)
<1>1. /\ u # t /\ pc[u] \in {"idle", "done"} /\ looks'[u] = looks[u]
      /\ pc[t] # "done"
  <2>1. u # t /\ pc[u] \in {"idle", "done"} /\ pc[t] # "done"
    BY ClosureMovesOn DEF AnswerInv
  <2> QED
    BY <2>1, ClosureStep DEF LayersInv
<1>2. \A i \in DOMAIN session : i \in DOMAIN session' /\ session'[i] = session[i]
  BY ClosureAdvances
<1>3. \A i \in DOMAIN session' : session'[i].by = u => i \in DOMAIN session
  <2>1. CASE session' = session
    BY <2>1
  <2>2. ASSUME NEW change \in Changes, change.by = t, session' = Append(session, change)
        PROVE  \A i \in DOMAIN session' : session'[i].by = u => i \in DOMAIN session
    <3>1. /\ DOMAIN session' = DOMAIN session \cup {Len(session')}
          /\ session'[Len(session')] = change
      BY <2>2, Growth DEF HistoryInv
    <3> QED
      BY <1>1, <2>2, <3>1
  <2>3. LookAgain(t) => session' = session
    BY DEF LookAgain
  <2> QED
    BY <2>1, <2>2, <2>3, ClosureTask, SessionStep DEF HistoryInv
<1>4. Horizon(u)' = Horizon(u)
  <2>1. CASE looks[u] # <<>>
    BY <1>1, <2>1 DEF Horizon
  <2>2. CASE looks[u] = <<>> /\ Changed(u)
    <3>1. PICK h \in DOMAIN session : session[h].by = u
      BY <2>2 DEF Changed
    <3>2. /\ h \in DOMAIN session' /\ session'[h].by = u
          /\ \A i \in DOMAIN session : session[i].by = u => i = h
          /\ \A i \in DOMAIN session' : session'[i].by = u => i = h
      BY <1>2, <1>3, <3>1 DEF HistoryInv, AuthorInv
    <3>3. (CHOOSE i \in DOMAIN session : session[i].by = u) = h
      BY <3>1, <3>2
    <3>4. (CHOOSE i \in DOMAIN session' : session'[i].by = u) = h
      BY <3>2
    <3>5. Changed(u)'
      BY <3>2 DEF Changed
    <3> QED
      BY <1>1, <2>2, <3>3, <3>4, <3>5 DEF Horizon
  <2>3. CASE looks[u] = <<>> /\ ~ Changed(u)
    <3>1. ~ Changed(u)'
      BY <1>2, <1>3, <2>3 DEF Changed
    <3> QED
      BY <1>1, <2>3, <3>1 DEF Horizon
  <2> QED
    BY <2>1, <2>2, <2>3
<1>5. ASSUME NEW i \in 1 .. Horizon(u)
      PROVE  /\ session'[i] = session[i]
             /\ session[i].txn # NoTxn => reply'[session[i].by] = reply[session[i].by]
  <2>1. /\ i \in DOMAIN session
        /\ session[i].txn # NoTxn => session[i].by \in Tasks /\ pc[session[i].by] = "done"
    BY <1>1, KnownDone
  <2> QED
    BY <1>1, <1>2, <2>1, ClosureFrame
<1> QED
  BY <1>4, <1>5 DEF Known

HeaderInv ==
  \A t \in Tasks : phase[t] = "sent" /\ status[t] = "200" => Cardinality(Known(t)) <= header[t]

LEMMA NextHeaderInv ==
  ASSUME HistoryInv, HistoryInv', LayersInv, AccessInv, LookInv, AnswerInv, AnswerInv', CountInv,
         HeaderInv, [ServerNext]_serverVars
  PROVE  HeaderInv'
<1>1. ASSUME UNCHANGED vars, looks' = looks, NEW t \in Tasks PROVE Known(t)' = Known(t)
  BY <1>1 DEF vars, Known, Horizon, Changed
<1>2. ASSUME NEW t \in Tasks, Arrive(t) \/ Admit(t) \/ Answer(t) \/ TimeOut(t)
      PROVE  HeaderInv'
  <2>1. /\ UNCHANGED vars /\ looks' = looks
        /\ \A u \in Tasks \ {t} :
             phase'[u] = phase[u] /\ status'[u] = status[u] /\ header'[u] = header[u]
    BY <1>2, LayerStep
  <2>2. \A u \in Tasks : Known(u)' = Known(u)
    BY <1>1, <2>1
  <2>3. CASE phase'[t] # "sent" \/ status'[t] # "200"
    BY <2>1, <2>2, <2>3 DEF HeaderInv
  <2>4. CASE phase'[t] = "sent" /\ status'[t] = "200"
    <3>1. Answer(t) /\ header'[t] = opsCount
      BY <1>2, <2>4, LayerStep
    <3>2. pc[t] = "idle" \/ (pc[t] = "done" /\ reply[t] = "ok")
      BY <2>1, <2>4 DEF AnswerInv, vars
    <3>3. Cardinality(Known(t)) <= opsCount
      BY <3>2, KnownCounted
    <3> QED
      BY <2>1, <2>2, <3>1, <3>3 DEF HeaderInv
  <2> QED
    BY <2>3, <2>4
<1>3. ASSUME NEW t \in Tasks, Closure(t) PROVE HeaderInv'
  <2>1. UNCHANGED <<phase, status, header>>
    BY <1>3, ClosureStep
  <2> QED
    BY <1>3, <2>1, KnownStays DEF HeaderInv
<1>4. ASSUME Tick \/ UNCHANGED serverVars PROVE HeaderInv'
  <2>1. UNCHANGED <<vars, looks, phase, status, header>>
    BY <1>4 DEF Tick, serverVars, httpVars, taskVars
  <2>2. \A u \in Tasks : Known(u)' = Known(u)
    BY <1>1, <2>1
  <2> QED
    BY <2>1, <2>2 DEF HeaderInv
<1> QED
  BY <1>2, <1>3, <1>4, ServerSteps

\* The version in the headers is not older than the answer, for any number of
\* requests: it counts the request's own change and every transaction before it,
\* and every transaction the answer shows.
THEOREM HeadersNotOlder == ServerSpec => []HeadersReflectAnswer
<1>1. ServerInit => HeaderInv
  BY DEF ServerInit, HeaderInv
<1>2. HeaderInv => HeadersReflectAnswer
  BY DEF HeaderInv, HeadersReflectAnswer, Known
<1> QED
  BY <1>1, <1>2, AnswersHeld, NextHeaderInv, PTL DEF ServerSpec

-----------------------------------------------------------------------------
(* Answers.                                                                *)

\* As long as the store has room for every transaction, it gives up no record.
LEMMA RecordsStay ==
  ASSUME IsFiniteSet(Txns), Cardinality(Txns) <= Cap, HistoryInv, NEW t \in Tasks, Step(t)
  PROVE  /\ DOMAIN txMap \subseteq DOMAIN txMap'
         /\ pc[t] = "record" => request[t].txn \in DOMAIN txMap'
<1>1. CASE pc[t] = "record"
  <2> DEFINE x == request[t].txn
             value == [status |-> verdict[t], version |-> version[t]]
  <2>1. x \in Txns /\ value \in Records /\ Insert(x, value)
    <3>1. x \in Txns /\ verdict[t] \in Verdicts /\ version[t] \in Nat
      BY <1>1, SessionFacts DEF HistoryInv, TypeInv, TypeOK, KindInv
    <3> QED
      BY <1>1, <3>1, StepsAt DEF StoreRecord, Records
  <2>2. Cardinality(DOMAIN txMap \cup {x}) <= Cap
    <3>1. DOMAIN txMap \cup {x} \subseteq Txns
      BY <2>1 DEF HistoryInv, TypeInv, TypeOK, TxTypeOK
    <3>2. /\ Cardinality(DOMAIN txMap \cup {x}) <= Cardinality(Txns)
          /\ Cardinality(DOMAIN txMap \cup {x}) \in Nat /\ Cardinality(Txns) \in Nat
      BY <3>1, FS_Subset, FS_CardinalityType
    <3> QED
      BY <3>2, StoreAssumption
  <2> HIDE DEF x, value
  <2>3. DOMAIN txMap' = DOMAIN txMap \cup {x}
    BY <2>1, <2>2, InsertHolds DEF HistoryInv, TypeInv, TypeOK
  <2> QED
    BY <2>3 DEF x
<1>2. CASE pc[t] # "record"
  BY <1>2, Moves DEF HistoryInv, storeVars
<1> QED
  BY <1>1, <1>2

\* The requests whose success is recorded.
ToRecord(t) == Kind(t) = "submit" \/ (Kind(t) = "traceCommit" /\ verdict[t] \in Kept)

\* What a request that has succeeded leaves behind: a mint its change, which is made
\* before it is counted, and a transaction its record.
ReplyInv ==
  \A t \in Tasks :
    /\ Kind(t) = "mint" /\ (pc[t] \in {"persist", "increment"} \/ reply[t] = "ok") => Changed(t)
    /\ ToRecord(t) /\ reply[t] = "ok" => request[t].txn \in DOMAIN txMap

\* A change once made stays the session's.
LEMMA ChangedStays ==
  ASSUME HistoryInv, NEW t \in Tasks, Step(t), NEW u \in Tasks, Changed(u)
  PROVE  Changed(u)'
<1>1. PICK i \in DOMAIN session : session[i].by = u
  BY DEF Changed
<1>2. i \in DOMAIN session' /\ session'[i] = session[i]
  <2>1. session' = session \/ \E change \in Changes : session' = Append(session, change)
    BY SessionStep DEF HistoryInv
  <2> QED
    BY <1>1, <2>1, Growth DEF HistoryInv
<1> QED
  BY <1>1, <1>2 DEF Changed

\* How a request comes to its success.
LEMMA Successes ==
  ASSUME HistoryInv, NEW t \in Tasks, Step(t)
  PROVE  /\ Kind(t)' = "mint" /\ pc'[t] \in {"persist", "increment"} =>
              Kind(t) = "mint" /\ pc[t] \in {"fund", "persist"}
         /\ Kind(t)' = "mint" /\ reply'[t] = "ok" => Kind(t) = "mint" /\ pc[t] = "increment"
         /\ ToRecord(t)' /\ reply'[t] = "ok" => pc[t] = "record" /\ request'[t] = request[t]
<1>1. Goes(t) /\ (pc[t] # "idle" => request' = request)
  BY Moves DEF HistoryInv
<1>2. /\ pc \in [Tasks -> Labels] /\ reply \in [Tasks -> Replies]
      /\ pc[t] \in {"run", "apply", "record"} => Kind(t) \in TxnKinds
      /\ pc[t] = "increment" => Kind(t) \in {"traceCommit", "mint"}
      /\ pc[t] \in {"mktemp", "cleanup", "load", "copy"} => Kind(t) \in CloneKinds
      /\ pc[t] = "read" => Kind(t) = "view"
      /\ reply[t] = "ok" => pc[t] = "done"
      /\ verdict \in [Tasks -> Verdicts]
  BY DEF HistoryInv, TypeInv, TypeOK, KindInv, FlowInv
<1>3. ASSUME reply'[t] = "ok"
      PROVE  \/ pc[t] = "run" /\ Kind(t) = "traceCommit" /\ verdict'[t] = "discard"
             \/ pc[t] = "increment" /\ Kind(t) = "mint"
             \/ pc[t] \in {"record", "cleanup", "read"}
  BY <1>1, <1>2, <1>3, StepsAt DEF Goes, Begin, Acquire, RunVm, VmFails, ApplyWriteSet,
     FundAccount, Persist, PersistFails, Bump, IncrementOps, ReadOps, MakeTemp, MakeTempFails,
     CopySession, CopyFails, RunClone, CloneFails, ClonePanics, Goto, ReleaseAnd
<1>4. pc[t] # "idle" => Kind(t)' = Kind(t)
  BY <1>1 DEF Kind
<1>5. ToRecord(t)' => Kind(t)' \in {"submit", "traceCommit"}
                      /\ (Kind(t)' = "traceCommit" => verdict'[t] # "discard")
  BY DEF ToRecord, Kept
<1> QED
  BY <1>1, <1>2, <1>3, <1>4, <1>5 DEF Goes, TxnKinds, CloneKinds

LEMMA StepKeepsReplyInv ==
  ASSUME IsFiniteSet(Txns), Cardinality(Txns) <= Cap, HistoryInv, ReplyInv,
         NEW t \in Tasks, Step(t)
  PROVE  ReplyInv'
<1>1. DOMAIN txMap \subseteq DOMAIN txMap' /\ (pc[t] = "record" => request[t].txn \in DOMAIN txMap')
  BY RecordsStay
<1>2. \A u \in Tasks : Changed(u) => Changed(u)'
  BY ChangedStays
<1>3. ASSUME NEW u \in Tasks \ {t}
      PROVE  /\ Kind(u)' = "mint" /\ (pc'[u] \in {"persist", "increment"} \/ reply'[u] = "ok")
                  => Changed(u)'
             /\ ToRecord(u)' /\ reply'[u] = "ok" => request'[u].txn \in DOMAIN txMap'
  <2>1. pc'[u] = pc[u] /\ request'[u] = request[u] /\ reply'[u] = reply[u] /\ Kind(u)' = Kind(u)
        /\ ToRecord(u)' = ToRecord(u)
    BY OthersUnchanged DEF HistoryInv, Kind, ToRecord
  <2> QED
    BY <1>1, <1>2, <2>1 DEF ReplyInv
<1>4. ToRecord(t)' /\ reply'[t] = "ok" => request'[t].txn \in DOMAIN txMap'
  BY <1>1, Successes
<1>5. ASSUME Kind(t)' = "mint", pc'[t] \in {"persist", "increment"} \/ reply'[t] = "ok"
      PROVE  Changed(t)'
  <2>1. Kind(t) = "mint" /\ (pc[t] \in {"fund", "persist", "increment"})
    BY <1>5, Successes
  <2>2. CASE pc[t] = "fund"
    <3>1. FundAccount(t)
      <4>1. pc[t] = "fund" /\ VmFails(t) => pc'[t] = "done" /\ reply'[t] = "error"
        BY DEF VmFails, ReleaseAnd, Goto, HistoryInv, TypeInv, TypeOK
      <4> QED
        BY <1>5, <2>2, <4>1, StepsAt
    <3> DEFINE change == [txn |-> NoTxn, status |-> "success", by |-> t]
    <3>2. change \in Changes /\ change.by = t /\ session' = Append(session, change)
      BY <3>1 DEF FundAccount, Changes, Kept
    <3>3. Len(session') \in DOMAIN session' /\ session'[Len(session')].by = t
      BY <3>2, Growth DEF HistoryInv
    <3> QED
      BY <3>3 DEF Changed
  <2>3. CASE pc[t] \in {"persist", "increment"}
    BY <1>2, <2>1, <2>3 DEF ReplyInv
  <2> QED
    BY <2>1, <2>2, <2>3
<1> QED
  BY <1>3, <1>4, <1>5 DEF ReplyInv

LEMMA NextReplyInv ==
  ASSUME IsFiniteSet(Txns), Cardinality(Txns) <= Cap, HistoryInv, ReplyInv,
         [ServerNext]_serverVars
  PROVE  ReplyInv'
<1>1. ASSUME NEW t \in Tasks, LookAgain(t) PROVE ReplyInv'
  <2>1. /\ UNCHANGED <<session, txMap, request, verdict, reply>>
        /\ pc' = [pc EXCEPT ![t] = "acquire"] /\ pc \in [Tasks -> Labels]
    BY <1>1 DEF LookAgain, Goto, storeVars, HistoryInv, TypeInv, TypeOK
  <2> QED
    BY <2>1 DEF ReplyInv, ToRecord, Kind, Changed
<1>2. CASE UNCHANGED vars
  BY <1>2 DEF vars, ReplyInv, ToRecord, Kind, Changed
<1> QED
  BY <1>1, <1>2, TaskSteps, StepKeepsReplyInv

\* What a client may conclude from its answer, for any number of requests, as long
\* as the store has room for their transactions.  A 200 comes after a closure that
\* succeeded; a 500 after one that did not, or while a module or a trace is
\* rendered; a refusal of a request that changed nothing.  A submit, a committing
\* trace that executed or a mint whose closure succeeded left its record or its
\* change, whatever its client was told.
THEOREM AnswersTellTheTruth ==
  ASSUME IsFiniteSet(Txns), Cardinality(Txns) <= Cap
  PROVE  ServerSpec => []AnswersAreTrue
<1>1. ServerInit => ReplyInv
  BY DEF ServerInit, Init, ReplyInv, Kind
<1>2. HistoryInv /\ LayersInv /\ AccessInv /\ AnswerInv /\ ReplyInv => AnswersAreTrue
  <2> SUFFICES ASSUME HistoryInv, LayersInv, AccessInv, AnswerInv, ReplyInv,
                      NEW t \in Tasks, phase[t] = "sent"
               PROVE  /\ status[t] = "200" /\ ~AnsweredInline(call[t]) =>
                           pc[t] = "done" /\ reply[t] = "ok"
                      /\ status[t] = "500" => \/ reply[t] \in {"error", "left", "panicked"}
                                              \/ reply[t] = "ok" /\ call[t].route \in Rendering
                      /\ status[t] \in Refusals =>
                           ~Changed(t) /\ (pc[t] = "idle" \/ call[t].route = "view")
                      /\ reply[t] = "ok" /\ Recorded(t) => call[t].txn \in DOMAIN txMap
                      /\ reply[t] = "ok" /\ call[t].route = "mint" => Changed(t)
    BY DEF AnswersAreTrue
  <2>1. /\ status[t] = "200" /\ ~AnsweredInline(call[t]) => pc[t] = "done" /\ reply[t] = "ok"
        /\ status[t] = "500" => \/ reply[t] \in {"error", "left", "panicked"}
                                \/ reply[t] = "ok" /\ call[t].route \in Rendering
        /\ status[t] \in Refusals => pc[t] = "idle" \/ call[t].route = "view"
    BY DEF AnswerInv
  <2>2. ASSUME status[t] \in Refusals PROVE ~ Changed(t)
    <3> SUFFICES ASSUME NEW i \in DOMAIN session, session[i].by = t PROVE FALSE
      BY DEF Changed
    <3>1. pc[t] # "idle" /\ call[t].route # "view"
      BY TaskAssumption, AuthorsRoute DEF Past
    <3> QED
      BY <2>1, <2>2, <3>1
  <2>3. reply[t] = "ok" => /\ Kind(t) = KindOf(call[t].route)
                           /\ request[t].txn = call[t].txn
    <3>1. reply[t] = "ok" => pc[t] # "idle"
      BY DEF HistoryInv, FlowInv
    <3>2. pc[t] # "idle" => request[t] = [kind |-> KindOf(call[t].route), txn |-> call[t].txn]
      BY DEF AccessInv
    <3> QED
      BY <3>1, <3>2 DEF Kind
  <2>4. /\ reply[t] = "ok" /\ Recorded(t) => call[t].txn \in DOMAIN txMap
        /\ reply[t] = "ok" /\ call[t].route = "mint" => Changed(t)
    BY <2>3 DEF ReplyInv, Recorded, ToRecord, KindOf, AllKinds
  <2> QED
    BY <2>1, <2>2, <2>4
<1> QED
  BY <1>1, <1>2, AnswersHeld, NextReplyInv, PTL DEF ServerSpec

-----------------------------------------------------------------------------
(* The session's own guarantees, behind the server.                        *)

\* What a look that goes on does to the session: it gives it back.
LEMMA LookReleases ==
  ASSUME HistoryInv, NEW t \in Tasks, LookAgain(t)
  PROVE  /\ pc \in [Tasks -> Labels] /\ pc[t] = "read" /\ pc' = [pc EXCEPT ![t] = "acquire"]
         /\ Kind(t) = "view" /\ inner = t /\ inner' = NoTask
         /\ UNCHANGED <<session, delta, opsCount, storeVars, request, verdict, version, path,
                        tempDirs, snap, floor, reply>>
BY DEF LookAgain, Goto, HistoryInv, TypeInv, TypeOK, FlowInv, LockInv, InSession

LEMMA LookKeepsRecords ==
  ASSUME HistoryInv, NEW t \in Tasks, LookAgain(t)
  PROVE  /\ RecordInv => RecordInv'
         /\ CoverInv => CoverInv'
         /\ MintInv => MintInv'
<1>1. /\ UNCHANGED <<session, txMap, request, verdict, version, reply>>
      /\ pc \in [Tasks -> Labels] /\ pc[t] = "read" /\ pc' = [pc EXCEPT ![t] = "acquire"]
  BY LookReleases DEF storeVars
<1>2. RecordInv => RecordInv'
  BY <1>1 DEF RecordInv, RecordsReportOutcomes, VersionsFollowCommits, Positions, Kind
<1>3. CoverInv => CoverInv'
  BY <1>1 DEF CoverInv, VersionCountsTransactionsBefore, Before, Acked, Positions
<1>4. MintInv => MintInv'
  BY <1>1 DEF MintInv, Funding, Kind
<1> QED
  BY <1>2, <1>3, <1>4

LEMMA LookKeepsReaders ==
  ASSUME HistoryInv, NEW t \in Tasks, LookAgain(t)
  PROVE  /\ CloneInv => CloneInv'
         /\ SavedInv => SavedInv'
         /\ ReaderInv => ReaderInv'
<1>1. /\ UNCHANGED <<session, delta, request, verdict, path, tempDirs, snap, floor, reply>>
      /\ pc \in [Tasks -> Labels] /\ pc[t] = "read" /\ pc' = [pc EXCEPT ![t] = "acquire"]
      /\ Kind(t) \notin CloneKinds
  BY LookReleases DEF CloneKinds
<1>2. CloneInv => CloneInv'
  BY <1>1 DEF CloneInv, SaveFailed, Kind
<1>3. SavedInv => SavedInv'
  BY <1>1 DEF SavedInv, Saved, Kind
<1>4. ReaderInv => ReaderInv'
  BY <1>1 DEF ReaderInv, Seen, Acked
<1> QED
  BY <1>2, <1>3, <1>4

LEMMA LookKeepsLedger ==
  ASSUME HistoryInv, NEW t \in Tasks, LookAgain(t)
  PROVE  UNCHANGED (ToLedger!ledgerVars)
<1>1. /\ UNCHANGED <<session, opsCount, txMap, txOrder, request, verdict, version>>
      /\ pc \in [Tasks -> Labels] /\ pc[t] = "read" /\ pc' = [pc EXCEPT ![t] = "acquire"]
      /\ inner = t /\ inner' = NoTask
  BY LookReleases DEF storeVars
<1>2. LedgerHistory' = LedgerHistory
  <2>1. Unversioned = {} /\ Unversioned' = {}
    BY <1>1, TaskAssumption DEF Unversioned
  <2> QED
    BY <1>1, <2>1 DEF LedgerHistory
<1>3. LedgerVersion' = LedgerVersion /\ LedgerUncounted' = LedgerUncounted
  <2>1. /\ {u \in Tasks : pc'[u] = "readOps"} = {u \in Tasks : pc[u] = "readOps"}
        /\ {u \in Tasks : Kind(u)' = "mint" /\ pc'[u] = "increment"}
             = {u \in Tasks : Kind(u) = "mint" /\ pc[u] = "increment"}
    BY <1>1 DEF Kind
  <2> QED
    BY <1>1, <2>1 DEF LedgerVersion, LedgerUncounted
<1>4. LedgerRecords' = LedgerRecords
  <2>1. \A u \in Tasks : pc'[u] = "record" <=> pc[u] = "record"
    BY <1>1
  <2> QED
    BY <1>1, <2>1 DEF LedgerRecords, RecordList, ListAfter, Get, Holds
<1> QED
  BY <1>2, <1>3, <1>4 DEF ToLedger!ledgerVars

\* The invariants of the session, all together.
SessionInv == LedgerInv /\ RecordInv /\ CountInv /\ CoverInv

LEMMA SessionInvHeld == ServerSpec => []SessionInv
<1>1. ServerInit => SessionInv
  <2> SUFFICES ASSUME ServerInit PROVE SessionInv
    OBVIOUS
  <2>1. Init /\ HistoryInv /\ CoverInv
    BY InitHistory, InitCover DEF ServerInit
  <2>2. MintInv /\ RecordInv
    BY <2>1 DEF Init, MintInv, WithCapacity, RecordInv, RecordsReportOutcomes,
         VersionsFollowCommits
  <2>3. CountInv
    <3>1. Counted = {} /\ opsCount = 0
      BY <2>1 DEF Init, Counted
    <3> QED
      BY <3>1, FS_EmptySet DEF CountInv
  <2> QED
    BY <2>1, <2>2, <2>3 DEF SessionInv, LedgerInv
<1>2. SessionInv /\ [ServerNext]_serverVars => SessionInv'
  <2> SUFFICES ASSUME HistoryInv, MintInv, RecordInv, CountInv, CoverInv,
                      [ServerNext]_serverVars
               PROVE  SessionInv'
    BY DEF SessionInv, LedgerInv
  <2>1. HistoryInv' /\ CountInv'
    BY NextServerHistory, NextServerCount
  <2>2. CASE \E t \in Tasks : LookAgain(t)
    BY <2>1, <2>2, LookKeepsRecords DEF SessionInv, LedgerInv
  <2>3. CASE \E t \in Tasks : Step(t)
    <3>1. RecordInv' /\ CoverInv'
      BY <2>1, <2>3, NextRecordInv, NextCover DEF Next
    <3>2. MintInv'
      BY <2>3, NextMintInv
    <3> QED
      BY <2>1, <3>1, <3>2 DEF SessionInv, LedgerInv
  <2>4. CASE UNCHANGED vars
    <3>1. RecordInv' /\ CoverInv'
      BY <2>1, <2>4, NextRecordInv, NextCover
    <3>2. MintInv'
      BY <2>4 DEF vars, MintInv, Funding, Kind
    <3> QED
      BY <2>1, <3>1, <3>2 DEF SessionInv, LedgerInv
  <2> QED
    BY <2>2, <2>3, <2>4, TaskSteps
<1> QED
  BY <1>1, <1>2, PTL DEF ServerSpec

\* What the session promises is kept behind the layers of the server, where a
\* closure outlives its request when that is answered 408, a request may be refused
\* before it has a closure, and a closure takes the lock for each of its looks:
\* transactions are committed once, recorded with what became of them, and
\* versioned uniquely, in the order of the commits.
THEOREM ServerKeepsLedgerSafe ==
  ServerSpec => [](/\ CommittedOnce /\ RecordsReportOutcomes /\ VersionsUnique
                   /\ VersionsFollowCommits /\ VersionCountsTransactionsBefore)
<1>1. SessionInv => /\ CommittedOnce /\ RecordsReportOutcomes /\ VersionsUnique
                    /\ VersionsFollowCommits /\ VersionCountsTransactionsBefore
  BY DEF SessionInv, LedgerInv, HistoryInv, CommitInv, VersionInv, RecordInv, CoverInv
<1> QED
  BY <1>1, SessionInvHeld, PTL

\* To its clients the server is the ledger too: no time-out, refusal or closure
\* left running makes a transaction look executed without having been versioned and
\* recorded in the same step.
THEOREM ServerImplementsLedger == ServerSpec => ImplementsLedger
<1>1. ServerInit => ToLedger!Init
  BY LedgerStarts DEF ServerInit
<1>2. SessionInv /\ SessionInv' /\ [ServerNext]_serverVars
        => [ToLedger!Next]_(ToLedger!ledgerVars)
  <2> SUFFICES ASSUME LedgerInv, LedgerInv', [ServerNext]_serverVars
               PROVE  [ToLedger!Next]_(ToLedger!ledgerVars)
    BY DEF SessionInv
  <2> QED
    BY TaskSteps, StepImplements, LookKeepsLedger, LedgerRests DEF LedgerInv
<1> QED
  BY <1>1, <1>2, SessionInvHeld, PTL DEF ServerSpec, ImplementsLedger, ToLedger!Spec

\* Behind the server too, a dry run loads a whole clone and what a reader sees is a
\* state that the session was in, with all that was acknowledged before.
THEOREM ServerReadersSeeASession ==
  ASSUME ~ SameTick, ~ ChainOverride
  PROVE  ServerSpec => [](ClonesLoad /\ ReadersSeeSession)
<1>1. ServerInit => CloneInv /\ SavedInv /\ ReaderInv
  BY InitClones, InitReaders DEF ServerInit
<1>2. HistoryInv /\ HistoryInv' /\ CloneInv /\ SavedInv /\ ReaderInv /\ [ServerNext]_serverVars
        => CloneInv' /\ SavedInv' /\ ReaderInv'
  <2> SUFFICES ASSUME HistoryInv, HistoryInv', CloneInv, SavedInv, ReaderInv,
                      [ServerNext]_serverVars
               PROVE  CloneInv' /\ SavedInv' /\ ReaderInv'
    OBVIOUS
  <2>1. CASE UNCHANGED vars
    BY <2>1 DEF vars, CloneInv, SaveFailed, Kind, SavedInv, Saved, ReaderInv, Seen, Acked
  <2> QED
    BY <2>1, TaskSteps, LookKeepsReaders, NextCloneInv, NextSavedInv, NextReaderInv
<1>3. HistoryInv /\ CloneInv /\ ReaderInv => ClonesLoad /\ ReadersSeeSession
  BY ClonesLoadGoal, ReadersGoal
<1> QED
  BY <1>1, <1>2, <1>3, ServerHistoryHeld, PTL DEF ServerSpec

\* A closure of a dry run removes its directory behind the server too, also when its
\* request was answered 408 long before, and whoever shares the directory.
THEOREM ServerLeavesNothing == ServerSpec => []ClonesRemoved
<1>1. ServerInit => LeftoverInv
  BY DEF ServerInit, Init, LeftoverInv
<1>2. HistoryInv /\ LeftoverInv /\ [ServerNext]_serverVars => LeftoverInv'
  <2> SUFFICES ASSUME HistoryInv, LeftoverInv, [ServerNext]_serverVars
               PROVE  LeftoverInv'
    OBVIOUS
  <2>1. CASE UNCHANGED vars
    BY <2>1 DEF vars, LeftoverInv, Kind
  <2>2. ASSUME NEW t \in Tasks, LookAgain(t)
        PROVE  LeftoverInv'
    <3>1. /\ UNCHANGED <<request, path, tempDirs, reply>>
          /\ pc \in [Tasks -> Labels] /\ pc[t] = "read" /\ pc' = [pc EXCEPT ![t] = "acquire"]
      BY <2>2, LookReleases
    <3> QED
      BY <3>1 DEF LeftoverInv, Kind
  <2> QED
    BY <2>1, <2>2, TaskSteps, NextLeftoverInv
<1>3. LeftoverInv => ClonesRemoved
  BY DEF LeftoverInv, Leaves, ClonesRemoved, AllDone
<1> QED
  BY <1>1, <1>2, <1>3, ServerHistoryHeld, PTL DEF ServerSpec

=============================================================================
