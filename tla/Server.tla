-------------------------------- MODULE Server --------------------------------
(***************************************************************************)
(* The HTTP server of src/src/server.rs around the session: the life of a  *)
(* request through the layers of `run`, outermost first,                   *)
(*                                                                         *)
(*   inject_ledger_headers   reads the version once the rest has answered  *)
(*   TimeoutLayer            answers 408; does not stop the VM             *)
(*   GlobalConcurrencyLimit  one semaphore for all connections, FIFO       *)
(*   the handler             its checks, then an answer at once or a       *)
(*                           closure for the blocking pool (run_blocking)  *)
(*                                                                         *)
(* What the closure does to the session is SessionWrapper, whose tasks are *)
(* the requests of this module.  Time is counted in ticks of which Timeout *)
(* make the 30 seconds; the server's own work takes none.                  *)
(***************************************************************************)
EXTENDS SessionWrapper

CONSTANTS
  Calls,        \* what clients may send: route, transaction, and its flaws
  Limit,        \* MAX_CONCURRENT_REQUESTS
  Pool,         \* the threads of the blocking pool
  Timeout,      \* REQUEST_TIMEOUT
  KnownTypes,   \* how many resource types get_account_resources looks up
  Creating,     \* the transactions that create the account that is asked for
  NoAuth,       \* --no-auth
  Strict        \* strict_local_auth

InlineRoutes == {"ledgerInfo", "estimateGasPrice", "byHash"}

ReadRoutes == {"account", "resources", "resource", "module"}

Routes == AllKinds \cup ReadRoutes \cup InlineRoutes

Flaws == {"query", "size", "media", "accept", "token", "body", "address"}

ASSUME CallAssumption == Calls \subseteq [route : Routes, txn : Txns \cup {NoTxn},
                                          flaws : SUBSET Flaws]
ASSUME LimitAssumption == {Limit, Pool, Timeout, KnownTypes} \subseteq Nat \ {0}
ASSUME OptionAssumption == Creating \subseteq Txns /\ {NoAuth, Strict} \subseteq BOOLEAN

VARIABLES
  phase,     \* how far a request is
  call,      \* what it asks for
  queue,     \* the requests waiting for a permit, oldest first
  age,       \* ticks since Timeout began to count for it
  waited,    \* ticks since it arrived
  looks,     \* the states of the session its answer is made of
  status,    \* its answer
  header     \* x-aptos-ledger-version of the answer

httpVars == <<phase, call, queue, age, waited, looks, status, header>>
taskVars == vars
serverVars == <<vars, httpVars>>

-----------------------------------------------------------------------------
(* What a handler checks before it does anything, in its order.  The       *)
(* extractors come first.                                                  *)

\* Without --no-auth there is a token, the operator's or a random one.
TokenSet == ~NoAuth

\* A variant that forgets that a committing trace is a submit.
GateTraceOpen(route) ==
  IF TokenSet /\ (route = "mint" \/ (Strict /\ route = "submit")) THEN <<"token">> ELSE <<>>

\* Where require_auth is called, and can fail.
Gate(route) ==
  IF TokenSet /\ (route = "mint" \/ (Strict /\ route \in {"submit", "traceCommit"}))
  THEN <<"token">> ELSE <<>>

Checks(route) ==
  CASE route = "submit" -> <<"size", "media", "accept">> \o Gate(route) \o <<"body">>
    [] route = "simulate" -> <<"size", "media", "accept", "body">>
    [] route \in {"traceDry", "traceCommit"} ->
         <<"query", "size", "media", "accept", "body">> \o Gate(route)
    [] route = "mint" -> <<"query">> \o Gate(route) \o <<"address">>
    [] route = "view" -> <<"size", "body">>
    [] route \in ReadRoutes -> <<"address">>
    [] OTHER -> <<>>

StatusOf(flaw) ==
  CASE flaw = "size" -> "413" [] flaw = "media" -> "415" [] flaw = "accept" -> "406"
    [] flaw = "token" -> "401" [] OTHER -> "400"

\* The places of the checks a call fails; the first decides its answer.
Failed(c) == {i \in DOMAIN Checks(c.route) : Checks(c.route)[i] \in c.flaws}

Refusal(c) == StatusOf(Checks(c.route)[Min(Failed(c))])

Refusals == {"413", "415", "406", "401", "400"}
Statuses == Refusals \cup {"none", "200", "408", "500"}

\* Handlers that never wait: they read the counter or the record store.
AnsweredInline(c) == c.route \in InlineRoutes

\* The closure of a route, as a request of SessionWrapper.
KindOf(route) == IF route \in AllKinds THEN route ELSE "view"

-----------------------------------------------------------------------------

Phases == {"idle", "queued", "handling", "sent"}

InPhase(p) == {t \in Tasks : phase[t] = p}

Handling == InPhase("handling")

\* A variant that hands the permit to the closure.
PermitHoldersClosures == Handling \cup {t \in Tasks : pc[t] \notin {"idle", "done"}}

PermitHolders == Handling

ServerTypeOK ==
  /\ TypeOK
  /\ phase \in [Tasks -> Phases]
  /\ call \in [Tasks -> Calls \cup {[route |-> "none", txn |-> NoTxn, flaws |-> {}]}]
  /\ queue \in Seq(InPhase("queued")) /\ ToSet(queue) = InPhase("queued")
  /\ age \in [Tasks -> 0 .. Timeout]
  /\ waited \in [Tasks -> Nat]
  /\ looks \in [Tasks -> Seq(Seq(Changes))]
  /\ status \in [Tasks -> Statuses]
  /\ header \in [Tasks -> Nat]

ServerInit ==
  /\ Init
  /\ phase = [t \in Tasks |-> "idle"]
  /\ call = [t \in Tasks |-> [route |-> "none", txn |-> NoTxn, flaws |-> {}]]
  /\ queue = <<>>
  /\ age = [t \in Tasks |-> 0]
  /\ waited = [t \in Tasks |-> 0]
  /\ looks = [t \in Tasks |-> <<>>]
  /\ status = [t \in Tasks |-> "none"]
  /\ header = [t \in Tasks |-> 0]

\* A request comes in and asks the semaphore for a permit.
Arrive(t) ==
  /\ phase[t] = "idle"
  /\ \E c \in Calls : call' = [call EXCEPT ![t] = c]
  /\ phase' = [phase EXCEPT ![t] = "queued"]
  /\ queue' = Append(queue, t)
  /\ UNCHANGED <<taskVars, age, waited, looks, status, header>>

\* A variant in which the waiter stays on the semaphore's list.
AdmitKeeping(t) ==
  /\ queue # <<>> /\ t = Head(queue)
  /\ Cardinality(PermitHolders) < Limit
  /\ phase' = [phase EXCEPT ![t] = "handling"]
  /\ UNCHANGED <<taskVars, call, queue, age, waited, looks, status, header>>

\* The oldest waiting request gets a permit.  Only now is Timeout::call reached,
\* and with it the handler, up to the first point where it waits: it may have
\* its answer by then.
Admit(t) ==
  /\ queue # <<>> /\ t = Head(queue)
  /\ Cardinality(PermitHolders) < Limit
  /\ queue' = Tail(queue)
  /\ phase' = [phase EXCEPT ![t] = "handling"]
  /\ status' = [status EXCEPT ![t] =
                  IF Failed(call[t]) # {} THEN Refusal(call[t])
                  ELSE IF AnsweredInline(call[t]) THEN "200" ELSE "none"]
  /\ UNCHANGED <<taskVars, call, age, waited, looks, header>>

\* A thread of the pool takes up the closure: also when nobody waits for it any
\* more, since dropping the handler does not cancel it.
Start(t) ==
  /\ call[t] \in Calls /\ ~AnsweredInline(call[t])
  /\ \/ phase[t] = "handling" /\ status[t] = "none"
     \/ status[t] = "408"
  /\ Cardinality({u \in Tasks : pc[u] \notin {"idle", "done"}}) < Pool
  /\ Begin(t)
  /\ request'[t] = [kind |-> KindOf(call[t].route), txn |-> call[t].txn]
  /\ UNCHANGED httpVars

\* get_account asks for the feature flag only when there is no account;
\* get_account_resources looks up every type.
HasAccount == \E i \in DOMAIN session : session[i].txn \in Creating

LastLook(t) ==
  CASE call[t].route = "account" -> HasAccount \/ looks[t] # <<>>
    [] call[t].route = "resources" -> Len(looks[t]) = KnownTypes - 1
    [] OTHER -> TRUE

Looked(t) == looks' = [looks EXCEPT ![t] = Append(@, session)]

\* One look at the session of a closure that takes several: each takes the lock
\* anew.
LookAgain(t) ==
  /\ pc[t] = "read"
  /\ ~LastLook(t)
  /\ Looked(t)
  /\ inner' = NoTask
  /\ Goto(t, "acquire")
  /\ UNCHANGED <<session, delta, opsCount, storeVars, request, verdict, version, path,
                 tempDirs, snap, floor, reply>>
  /\ UNCHANGED <<phase, call, queue, age, waited, status, header>>

Look(t) ==
  /\ LastLook(t)
  /\ ReadSession(t)
  /\ Looked(t)
  /\ UNCHANGED <<phase, call, queue, age, waited, status, header>>

\* Every other step of a closure, which knows nothing of the layers above it.
Work(t) ==
  /\ \/ pc[t] \notin {"idle", "read"} /\ Step(t)
     \/ pc[t] = "read" /\ VmFails(t)
  /\ UNCHANGED httpVars

\* The response leaves the limit and the time-out, which frees the permit, and
\* inject_ledger_headers, which holds no lock of the session, adds the version.
Respond(t, answer) ==
  /\ status' = [status EXCEPT ![t] = answer]
  /\ header' = [header EXCEPT ![t] = opsCount]
  /\ phase' = [phase EXCEPT ![t] = "sent"]
  /\ UNCHANGED <<call, queue, age, waited, looks>>

\* The routes whose handler may still fail to render what its closure returned: the
\* ABI of a module, the JSON of a trace.
Rendering == {"module", "traceDry", "traceCommit"}

\* What the handler may make of its closure's end.  A view that returns an Err is
\* the client's fault, one that panics is not.  A 404 is an answer like a 200.
Outcomes(t) ==
  CASE reply[t] = "ok" /\ call[t].route \in Rendering -> {"200", "500"}
    [] reply[t] = "ok" /\ call[t].route \notin Rendering -> {"200"}
    [] reply[t] = "error" /\ call[t].route = "view" -> {"400", "500"}
    [] OTHER -> {"500"}

\* From Admit, or because the closure has returned or panicked.
Answers(t) == IF status[t] # "none" THEN {status[t]} ELSE Outcomes(t)

Ready(t) == status[t] # "none" \/ pc[t] = "done"

\* A variant that answers before the bookkeeping.
AnswerEarly(t) ==
  /\ phase[t] = "handling"
  /\ status[t] # "none" \/ pc[t] \in {"bump", "increment", "done"}
  /\ \E answer \in IF pc[t] \in {"bump", "increment"} THEN {"200"} ELSE Answers(t) :
       Respond(t, answer)
  /\ UNCHANGED taskVars

\* The handler has its answer.
Answer(t) ==
  /\ phase[t] = "handling"
  /\ Ready(t)
  /\ \E answer \in Answers(t) : Respond(t, answer)
  /\ UNCHANGED taskVars

\* A variant that takes the closure for dead and the session for free.
TimeOutFreeing(t) ==
  /\ phase[t] = "handling"
  /\ age[t] = Timeout /\ ~Ready(t)
  /\ Respond(t, "408")
  /\ inner' = IF inner = t THEN NoTask ELSE inner
  /\ UNCHANGED <<session, delta, opsCount, storeVars, pc, request, verdict, version, path,
                 tempDirs, snap, floor, reply>>

\* A variant whose clock the closure has to look at.
TimeOutOnceStarted(t) ==
  /\ phase[t] = "handling"
  /\ age[t] = Timeout /\ ~Ready(t) /\ pc[t] # "idle"
  /\ Respond(t, "408")
  /\ UNCHANGED taskVars

\* The budget is spent and the handler has not answered: it is dropped, and the
\* permit with it.  The closure goes on.
TimeOut(t) ==
  /\ phase[t] = "handling"
  /\ age[t] = Timeout /\ ~Ready(t)
  /\ Respond(t, "408")
  /\ UNCHANGED taskVars

\* What the server does by itself takes no time: no tick passes while it can do
\* something.  It may well pass while closures can.
Settled ==
  /\ queue = <<>> \/ Cardinality(PermitHolders) >= Limit
  /\ \A t \in Handling : ~Ready(t) /\ age[t] < Timeout

Tick ==
  /\ Settled
  /\ Handling \cup InPhase("queued") # {}
  /\ age' = [t \in Tasks |-> IF t \in Handling THEN age[t] + 1 ELSE age[t]]
  /\ waited' = [t \in Tasks |-> IF t \in Handling \cup InPhase("queued")
                                THEN waited[t] + 1 ELSE waited[t]]
  /\ UNCHANGED <<taskVars, phase, call, queue, looks, status, header>>

\* Every client has its answer: whatever the closures still do, the server waits.
Over == InPhase("sent") = Tasks /\ UNCHANGED serverVars

Closure(t) == Start(t) \/ LookAgain(t) \/ Look(t) \/ Work(t)

Layers(t) == Admit(t) \/ Answer(t) \/ TimeOut(t)

ServerNext ==
  \/ \E t \in Tasks : Arrive(t) \/ Layers(t) \/ Closure(t)
  \/ Tick \/ Over

ServerSpec == ServerInit /\ [][ServerNext]_serverVars

\* The runtime polls what is ready and time passes.  Nothing is assumed of the
\* closures: a VM call may hang for ever, with the session locked.
ServerFairness == (\A t \in Tasks : WF_serverVars(Layers(t))) /\ WF_serverVars(Tick)

FairServerSpec == ServerSpec /\ ServerFairness
-----------------------------------------------------------------------------
(* Answers.                                                                *)

Changed(t) == \E i \in DOMAIN session : session[i].by = t

\* The requests whose success is recorded: a trace of a rejected transaction is not.
Recorded(t) ==
  \/ call[t].route = "submit"
  \/ call[t].route = "traceCommit" /\ verdict[t] \in Kept

\* What a client may conclude from its answer.  A 200 comes after the closure has
\* returned, with success; a 500 after it failed or panicked, or while rendering
\* its result; a request that is refused changed nothing, and did not reach the
\* session unless it was a view.  A closure that succeeded, whatever its client was
\* told (200, 500 or 408), leaves the record of its transaction for by_hash, or
\* its mint in the session.  Nothing is said of a 408 whose closure fails later:
\* no record tells of it.
AnswersAreTrue ==
  \A t \in Tasks : phase[t] = "sent" =>
    /\ status[t] = "200" /\ ~AnsweredInline(call[t]) => pc[t] = "done" /\ reply[t] = "ok"
    /\ status[t] = "500" => \/ reply[t] \in {"error", "left", "panicked"}
                            \/ reply[t] = "ok" /\ call[t].route \in Rendering
    /\ status[t] \in Refusals =>
         ~Changed(t) /\ (pc[t] = "idle" \/ call[t].route = "view")
    /\ reply[t] = "ok" /\ Recorded(t) => call[t].txn \in DOMAIN txMap
    /\ reply[t] = "ok" /\ call[t].route = "mint" => Changed(t)

\* Only requests that bring the token where it is asked for change the chain:
\* every mint, and under --strict-local-auth every commit, through whichever
\* endpoint ("auth-gated like submit", trace_transaction).
ChangesAuthorized ==
  \A i \in DOMAIN session : session[i].by # NoTask =>
    LET c == call[session[i].by]
    IN  /\ c.route \in {"submit", "traceCommit", "mint"}
        /\ TokenSet /\ (Strict \/ c.route = "mint") => "token" \notin c.flaws

\* How many of the session's changes an answer knows of: those it saw, or those
\* up to its own.
Horizon(t) ==
  IF looks[t] # <<>> THEN Len(Last(looks[t]))
  ELSE IF Changed(t) THEN CHOOSE i \in DOMAIN session : session[i].by = t
  ELSE 0

\* The version in the headers "reflects any state change" the answer knows of
\* (inject_ledger_headers): it counts the request's own change, and every
\* transaction committed before that or seen in the body.  A mint of somebody
\* else may be seen before it is counted.
HeadersReflectAnswer ==
  \A t \in Tasks : phase[t] = "sent" /\ status[t] = "200" =>
    Cardinality({i \in 1 .. Horizon(t) :
                   \/ session[i].by = t
                   \/ session[i].txn # NoTxn /\ reply[session[i].by] = "ok"}) <= header[t]

\* The looks an answer is made of (one per lock of the session) may be of several
\* states, but of states the session was in, in that order, with every change
\* acknowledged before the first, and with none that was still being made: an
\* account get_account finds missing was missing when it began, and the list of
\* get_account_resources neither goes back in time nor shows what may yet fail.
LooksAdvance ==
  \A t \in Tasks : looks[t] # <<>> =>
    /\ \A i \in 1 .. Len(looks[t]) - 1 : IsPrefix(looks[t][i], looks[t][i + 1])
    /\ IsPrefix(Last(looks[t]), session)
    /\ \A u \in floor[t] : \E i \in DOMAIN looks[t][1] : looks[t][1][i].by = u
    /\ \A i \in DOMAIN Last(looks[t]) :
         LET u == session[i].by
         IN  u # NoTask => \/ pc[u] = "done"
                           \/ pc[u] = "increment" /\ Kind(u) = "mint"

-----------------------------------------------------------------------------
(* Time.                                                                   *)

Rounds == (Cardinality(Tasks) + Limit - 1) \div Limit

\* "one slow/hung VM call must not wedge every other request": even when every
\* VM call hangs, with the session locked, a request is answered within one
\* budget of its own and one for each Limit requests that came before it.
WaitBounded == \A t \in Tasks : waited[t] <= Rounds * Timeout

\* ... so every request is answered, without any fairness of the VM.
EveryRequestSent == \A t \in Tasks : phase[t] = "queued" ~> phase[t] = "sent"

\* Where closures that can take a step do, no closure is stuck, neither for a
\* thread nor for a lock: each that was handed to the pool ends, also when its
\* client was sent away with a 408, whatever fails or panics on the way.
EveryClosureEnds ==
  (\A t \in Tasks : WF_serverVars(Closure(t)))
    => \A t \in Tasks : (phase[t] = "handling" /\ status[t] = "none") ~> pc[t] = "done"

\* "the 30s budget also cover[s] time spent queued on the semaphore" (run): no
\* request waits longer than the budget.
BudgetCoversQueue == \A t \in Tasks : waited[t] <= Timeout

=============================================================================
