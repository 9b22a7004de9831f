-------------------------------- MODULE Tracer --------------------------------
(***************************************************************************)
(* The execution trace: TracerMeter of src/src/trace.rs, which wraps the   *)
(* production gas meter and rebuilds the tree of calls of one transaction  *)
(* from the callbacks the Move VM makes to its meter, and trace_on of      *)
(* src/src/session_wrapper.rs, which makes the response of it.             *)
(*                                                                         *)
(* The meter sees calls, charges and returns, but is not told that a call  *)
(* is to a native function until that native is charged for, nor when a    *)
(* frame is left by a failure.  The VM (external: the VM's callbacks as    *)
(* the meter and patches/aptos-core/0001 use them) keeps its own call      *)
(* stack, `running`; what the tracer must get right is that its frames,    *)
(* their gas, events and nesting are those of that stack.                  *)
(*                                                                         *)
(* A frame is a number: its place in `nodes`, in the order of the calls,   *)
(* the root being 1.  The tree is in the nodes' `children`.  A call has    *)
(* the number of its frame, but for the entries: the payload's is call 1,  *)
(* any other entry is call 0, and for each the tracer has the root only.   *)
(***************************************************************************)
EXTENDS Naturals, Sequences, SequencesExt

CONSTANTS
  Functions,    \* functions (or the script), named with their modules
  Module,       \* the module of a function
  EventModule,  \* 0x1::event
  Natives,      \* the native functions
  Entries,      \* what the interpreter enters with this meter, in order
  Root,         \* the entry the transaction's payload names
  ArgsOf,       \* the arguments an entry is given, leading signers included
  UserArgCount, \* how many of the root's are in the payload
  Values,       \* decoded values
  Returns,      \* what a call may return: sequences of values
  Unit,         \* "()", shown for a call that returns nothing
  Budget,       \* the gas the base meter starts with
  Costs,        \* what a charge may cost
  MaxCalls,     \* bound on the calls of a transaction
  MaxEvents,    \* bound on its events
  MaxOps        \* bound on the storage operations of a call

EntryFunctions == {Entries[i] : i \in DOMAIN Entries}

ASSUME FunctionAssumption ==
  /\ Functions \subseteq DOMAIN Module
  /\ Natives \subseteq Functions
  /\ Entries \in Seq(Functions \ Natives)
  /\ \E main \in DOMAIN Entries : Entries[main] = Root
  /\ \A i, j \in DOMAIN Entries : Entries[i] = Entries[j] => i = j
ASSUME ArgsAssumption ==
  /\ EntryFunctions \subseteq DOMAIN ArgsOf
  /\ \A f \in EntryFunctions : ArgsOf[f] \in Seq(Values)
  /\ UserArgCount \in Nat
ASSUME GasAssumption == Budget \in Nat /\ Costs \subseteq Nat
ASSUME ReturnAssumption == Returns \subseteq Seq(Values) /\ Unit \notin Values
ASSUME BoundAssumption == {MaxCalls, MaxEvents, MaxOps} \subseteq Nat

VARIABLES
  (* the VM *)
  running,   \* the calls under way, outermost first
  caller,    \* the call that made each call
  spent,     \* by frame: the execution gas spent while its call was the innermost
  emitters,  \* the calls under way when each event was emitted
  performed, \* by frame: the storage operations that its call did
  entered,   \* how many of the entries have begun
  status,    \* how far the execution is, at last the VMStatus
  balance,   \* base: the production meter's balance
  (* the tracer *)
  frames,    \* frames: the frames not folded into their parents
  nodes,     \* the node of every frame
  rootArgs,  \* frames[0].node.args
  abort      \* the abort stack of the response, once there is one

vars == <<running, caller, spent, emitters, performed, entered, status, balance,
          frames, nodes, rootArgs, abort>>

Going == {"between", "running", "nativeOut"}
Failures == {"MoveAbort", "ExecutionFailure", "Error"}
Outcomes == {"Executed", "Discarded"} \cup Failures

None == <<>>

StorageOps == {"borrow_global", "move_from", "move_to", "load_resource"}

-----------------------------------------------------------------------------
(* The tree.                                                               *)

\* FrameBuilder::function, ::script.
Frame(f) ==
  [kind |-> "function", function |-> f, ret |-> None, self |-> 0, native |-> 0,
   events |-> <<>>, storage |-> <<>>, children |-> <<>>]

Active == Last(frames)

\* A variant that makes every frame a child of the root.
PopIntoRoot(tree, stack) ==
  IF Len(stack) > 1 THEN [tree EXCEPT ![1].children = Append(@, Last(stack))] ELSE tree

\* pop_into_parent: the active frame, unless it is the root, becomes the last
\* child of the one below it.
PopIntoParent(tree, stack) ==
  IF Len(stack) > 1
  THEN [tree EXCEPT ![stack[Len(stack) - 1]].children = Append(@, Last(stack))]
  ELSE tree

\* A variant without the guard that keeps the root.
PoppedAlways(stack) == Front(stack)

Popped(stack) == IF Len(stack) > 1 THEN Front(stack) ELSE stack

\* A variant of the event sink without its exception.
ActiveSink == Active

\* event_sink_index: the deepest frame outside of the event module, the root if
\* there is none.
EventSink ==
  LET outside == {k \in DOMAIN frames : Module[nodes[frames[k]].function] # EventModule}
  IN  IF outside = {} THEN frames[1]
      ELSE frames[CHOOSE k \in outside : \A j \in outside : j <= k]

-----------------------------------------------------------------------------
(* The meter underneath and the VM around.                                 *)

\* A charge is paid, or it takes what is left and fails.
Pays(cost) == cost <= balance
Left(cost) == IF Pays(cost) THEN balance - cost ELSE 0

\* delegate_charge: what the base meter's balance went down by.
Consumed(cost) == balance - Left(cost)

\* charge_to_active
Charged(cost) == [nodes EXCEPT ![Active].self = @ + Consumed(cost)]

\* The frame of a call: new_function and new_script make one for the payload,
\* and no callback makes one for another entry.
ShownAs(c) == IF c = 0 THEN 1 ELSE c
Shown(calls) == [k \in DOMAIN calls |-> ShownAs(calls[k])]

\* The frames of the calls under way; of each caller; of each event's calls.
Open == Shown(running)
CalledBy == Shown(caller)
Emitting == [e \in DOMAIN emitters |-> Shown(emitters[e])]

\* Of the function the VM is in, what matters is whether it is a native: no
\* entry is, nor is the root.
Top == Last(Open)
TopFunction == nodes[Top].function
InMove == status = "running" /\ TopFunction \notin Natives
InNative == status = "running" /\ TopFunction \in Natives
MainEntered == \E i \in 1 .. entered : Entries[i] = Root

\* What the VM makes of a failure.  Until the prologue is over the transaction is
\* discarded; a failure between it and the payload, of a function that is not
\* found or does not take its arguments, may be kept; a later one is.
MainIsNext ==
  status = "between" /\ entered < Len(Entries) /\ Entries[entered + 1] = Root

Failing(failure) ==
  \/ (MainEntered \/ MainIsNext) /\ status' = failure
  \/ ~ MainEntered /\ status' = "Discarded"

Spend(cost) == spent' = [spent EXCEPT ![Top] = @ + Consumed(cost)]

OutOfGas(cost) ==
  IF Pays(cost) THEN status' = status ELSE Failing("ExecutionFailure")

-----------------------------------------------------------------------------

Calls == 1 .. Len(nodes)

\* "frames is never empty", until finish consumes it.
TypeOK ==
  /\ nodes \in Seq([kind : {"function", "native"}, function : Functions,
                    ret : Returns \cup {None, <<Unit>>},
                    self : Nat, native : Nat, events : Seq(Nat),
                    storage : Seq(StorageOps), children : Seq(Nat)])
  /\ frames \in Seq(Calls)
  /\ frames = <<>> => status \in Outcomes
  /\ running \in Seq(Nat) /\ caller \in Seq(Nat) /\ spent \in Seq(Nat)
  /\ emitters \in Seq(Seq(Nat))
  /\ performed \in Seq(Seq(StorageOps))
  /\ entered \in 0 .. Len(Entries)
  /\ status \in Going \cup Outcomes
  /\ balance \in 0 .. Budget
  /\ rootArgs \in Seq(Values)
  /\ abort \in Seq([function : Functions, offset : BOOLEAN])

\* TracerMeter::new_function, ::new_script: the root is there before the VM
\* enters anything.
Init ==
  /\ running = <<>>
  /\ caller = <<1>>
  /\ spent = <<0>>
  /\ emitters = <<>>
  /\ performed = <<<<>>>>
  /\ entered = 0
  /\ status = "between"
  /\ balance = Budget
  /\ frames = <<1>>
  /\ nodes = <<Frame(Root)>>
  /\ rootArgs = <<>>
  /\ abort = <<>>

-----------------------------------------------------------------------------
(* The callbacks.                                                          *)

\* A variant that takes the arguments of whatever is entered first.
AnyEntry(f) == TRUE

\* record_entry_args: is this the entry the tracer was seeded with?
MatchesRoot(f) == nodes[frames[1]].function = f

\* The user's arguments: the signers in front are not in the payload.
WithoutSigners(args) ==
  LET skip == IF Len(args) > UserArgCount THEN Len(args) - UserArgCount ELSE 0
  IN  SubSeq(args, skip + 1, Len(args))

\* The interpreter is entered (prologue, payload, epilogue) and says so.
RecordEntryArgs ==
  /\ status = "between" /\ entered < Len(Entries)
  /\ LET f == Entries[entered + 1]
     IN  rootArgs' = IF Len(frames) = 1 /\ rootArgs = <<>> /\ MatchesRoot(f)
                     THEN WithoutSigners(ArgsOf[f]) ELSE rootArgs
  /\ running' = <<IF Entries[entered + 1] = Root THEN 1 ELSE 0>>
  /\ entered' = entered + 1
  /\ status' = "running"
  /\ UNCHANGED <<caller, spent, emitters, performed, balance, frames, nodes, abort>>

\* A charge of no call: intrinsic gas, a dependency, I/O, storage.
DelegateOnly(cost) ==
  /\ status \in {"between", "running"}
  /\ balance' = Left(cost)
  /\ OutOfGas(cost)
  /\ UNCHANGED <<running, caller, spent, emitters, performed, entered, frames, nodes,
                 rootArgs, abort>>

\* Every callback of charge_active!: an instruction of the active frame.
ChargeActive(cost) ==
  /\ InMove
  /\ balance' = Left(cost)
  /\ nodes' = Charged(cost)
  /\ Spend(cost)
  /\ OutOfGas(cost)
  /\ UNCHANGED <<running, caller, emitters, performed, entered, frames, rootArgs, abort>>

\* A variant that notes the operations that need no success only.
ChargeStorageUnnoted(op, succeeds, cost) ==
  LET noted == op \in {"move_from", "load_resource"}
      done  == succeeds \/ op = "load_resource"
  IN  /\ InMove
      /\ Len(performed[Top]) < MaxOps
      /\ balance' = Left(cost)
      /\ nodes' = IF noted THEN [Charged(cost) EXCEPT ![Active].storage = Append(@, op)]
                           ELSE Charged(cost)
      /\ Spend(cost)
      /\ IF done THEN OutOfGas(cost) ELSE Failing("ExecutionFailure")
      /\ performed' = IF done /\ Pays(cost)
                      THEN [performed EXCEPT ![Top] = Append(@, op)] ELSE performed
      /\ UNCHANGED <<running, caller, emitters, entered, frames, rootArgs, abort>>

\* charge_borrow_global, charge_move_from, charge_move_to, charge_load_resource.
\* The operation is noted even when its charge fails; a borrow or a move_to
\* only if it succeeds.  The VM fails without, unless it only looked (a load).
ChargeStorage(op, succeeds, cost) ==
  LET noted == succeeds \/ op \in {"move_from", "load_resource"}
      done  == succeeds \/ op = "load_resource"
  IN  /\ InMove
      /\ Len(performed[Top]) < MaxOps
      /\ balance' = Left(cost)
      /\ nodes' = IF noted THEN [Charged(cost) EXCEPT ![Active].storage = Append(@, op)]
                           ELSE Charged(cost)
      /\ Spend(cost)
      /\ IF done THEN OutOfGas(cost) ELSE Failing("ExecutionFailure")
      /\ performed' = IF done /\ Pays(cost)
                      THEN [performed EXCEPT ![Top] = Append(@, op)] ELSE performed
      /\ UNCHANGED <<running, caller, emitters, entered, frames, rootArgs, abort>>

\* A variant that pushes the callee before it knows that the call is paid.
ChargeCallPhantom(f, cost) ==
  LET callee == Len(nodes) + 1
  IN  /\ InMove
      /\ Len(nodes) < MaxCalls
      /\ balance' = Left(cost)
      /\ nodes' = Append(Charged(cost), Frame(f))
      /\ frames' = Append(frames, callee)
      /\ caller' = Append(caller, Last(running))
      /\ performed' = Append(performed, <<>>)
      /\ spent' = Append([spent EXCEPT ![Top] = @ + Consumed(cost)], 0)
      /\ running' = IF Pays(cost) THEN Append(running, callee) ELSE running
      /\ OutOfGas(cost)
      /\ UNCHANGED <<emitters, entered, rootArgs, abort>>

\* A variant that charges the CALL to the callee.
ChargeCallToCallee(f, cost) ==
  LET callee == Len(nodes) + 1
  IN  /\ InMove /\ Pays(cost)
      /\ Len(nodes) < MaxCalls
      /\ balance' = Left(cost)
      /\ nodes' = Append(nodes, [Frame(f) EXCEPT !.self = cost])
      /\ frames' = Append(frames, callee)
      /\ running' = Append(running, callee)
      /\ caller' = Append(caller, Last(running))
      /\ performed' = Append(performed, <<>>)
      /\ spent' = Append([spent EXCEPT ![Top] = @ + cost], 0)
      /\ UNCHANGED <<emitters, entered, status, rootArgs, abort>>

\* charge_call, charge_call_generic: the caller pays; the callee's frame is
\* pushed only if it can.
ChargeCall(f, cost) ==
  LET callee == Len(nodes) + 1
  IN  /\ InMove
      /\ Len(nodes) < MaxCalls
      /\ balance' = Left(cost)
      /\ IF Pays(cost)
         THEN /\ nodes' = Append(Charged(cost), Frame(f))
              /\ frames' = Append(frames, callee)
              /\ running' = Append(running, callee)
              /\ caller' = Append(caller, Last(running))
              /\ performed' = Append(performed, <<>>)
              /\ spent' = Append([spent EXCEPT ![Top] = @ + Consumed(cost)], 0)
         ELSE /\ nodes' = Charged(cost)
              /\ Spend(cost)
              /\ UNCHANGED <<frames, running, caller, performed>>
      /\ OutOfGas(cost)
      /\ UNCHANGED <<emitters, entered, rootArgs, abort>>

\* charge_native_execution: the amount is added before the base meter is asked.
\* If it cannot pay, the native gives up.
ChargeNativeExecution(amount) ==
  /\ InNative
  /\ nodes' = [nodes EXCEPT ![Active].native = @ + amount]
  /\ balance' = Left(amount)
  /\ Spend(amount)
  /\ status' = IF Pays(amount) THEN status ELSE "nativeOut"
  /\ UNCHANGED <<running, caller, emitters, performed, entered, frames, rootArgs, abort>>

\* record_event, called by the natives of the event module.
RecordEvent ==
  /\ InNative /\ Module[TopFunction] = EventModule
  /\ Len(emitters) < MaxEvents
  /\ emitters' = Append(emitters, running)
  /\ nodes' = [nodes EXCEPT ![EventSink].events = Append(@, Len(emitters) + 1)]
  /\ UNCHANGED <<running, caller, spent, performed, entered, status, balance, frames,
                 rootArgs, abort>>

\* charge_native_function with the values the native returns.
NativeReturns(cost, ret) ==
  LET marked == [Charged(cost) EXCEPT ![Active].kind = "native", ![Active].ret = ret]
  IN  /\ InNative
      /\ balance' = Left(cost)
      /\ nodes' = PopIntoParent(marked, frames)
      /\ frames' = Popped(frames)
      /\ Spend(cost)
      /\ running' = IF Pays(cost) THEN Front(running) ELSE running
      /\ OutOfGas(cost)
      /\ UNCHANGED <<caller, emitters, performed, entered, rootArgs, abort>>

\* charge_native_function without: the native has aborted or run out of gas.
NativeAborts(cost) ==
  LET marked == [Charged(cost) EXCEPT ![Active].kind = "native", ![Active].ret = None]
  IN  /\ InNative \/ status = "nativeOut"
      /\ balance' = Left(cost)
      /\ nodes' = PopIntoParent(marked, frames)
      /\ frames' = Popped(frames)
      /\ Spend(cost)
      /\ IF status = "nativeOut" \/ ~ Pays(cost) THEN Failing("ExecutionFailure")
                                                 ELSE Failing("MoveAbort")
      /\ UNCHANGED <<running, caller, emitters, performed, entered, rootArgs, abort>>

\* A variant that keeps the frame until the transaction ends.
RecordMoveReturnKeeping(ret) ==
  /\ InMove
  /\ nodes' = [nodes EXCEPT ![Active].ret = IF ret = <<>> THEN <<Unit>> ELSE ret]
  /\ running' = Front(running)
  /\ status' = IF Len(running) = 1 THEN "between" ELSE status
  /\ UNCHANGED <<caller, spent, emitters, performed, entered, balance, frames, rootArgs,
                 abort>>

\* record_move_return, in the interpreter's Return.
RecordMoveReturn(ret) ==
  LET shown == IF ret = <<>> THEN <<Unit>> ELSE ret
  IN  /\ InMove
      /\ nodes' = PopIntoParent([nodes EXCEPT ![Active].ret = shown], frames)
      /\ frames' = Popped(frames)
      /\ running' = Front(running)
      /\ status' = IF Len(running) = 1 THEN "between" ELSE status
      /\ UNCHANGED <<caller, spent, emitters, performed, entered, balance, rootArgs, abort>>

\* A failure of which the meter hears nothing: an abort or an error of Move
\* code, of a native, or of the VM between two entries.
FailUnseen ==
  /\ status \in {"between", "running"}
  /\ \E failure \in IF status = "between" THEN {"Error"} ELSE Failures :
       Failing(failure)
  /\ UNCHANGED <<running, caller, spent, emitters, performed, entered, balance, frames,
                 nodes, rootArgs, abort>>

Succeed ==
  /\ status = "between" /\ entered = Len(Entries)
  /\ status' = "Executed"
  /\ UNCHANGED <<running, caller, spent, emitters, performed, entered, balance, frames,
                 nodes, rootArgs, abort>>

-----------------------------------------------------------------------------
(* The response.                                                           *)

\* finish's loop: every frame left becomes the last child of the one below.
Collapsed ==
  [i \in DOMAIN nodes |->
    IF \E k \in 1 .. Len(frames) - 1 : frames[k] = i
    THEN LET k == CHOOSE k \in 1 .. Len(frames) - 1 : frames[k] = i
         IN  [nodes[i] EXCEPT !.children = Append(@, frames[k + 1])]
    ELSE nodes[i]]

\* finish's chain, innermost frame first, where build_abort puts the offset of
\* an ExecutionFailure.
AbortStack ==
  LET chain == Reverse(frames)
  IN  [k \in DOMAIN chain |->
        [function |-> nodes[chain[k]].function,
         offset   |-> k = 1 /\ status = "ExecutionFailure"]]

\* meter.finish and build_response, or entry_stub and build_response for a
\* transaction that was discarded.
Respond ==
  /\ status \in Outcomes
  /\ frames # <<>>
  /\ IF status = "Discarded"
     THEN nodes' = <<Frame(Root)>> /\ rootArgs' = <<>> /\ abort' = <<>>
     ELSE /\ nodes' = Collapsed
          /\ rootArgs' = rootArgs
          /\ abort' = IF status = "Executed" THEN <<>> ELSE AbortStack
  /\ frames' = <<>>
  /\ UNCHANGED <<running, caller, spent, emitters, performed, entered, status, balance>>

-----------------------------------------------------------------------------

\* The response is sent.
Finished == frames = <<>> /\ UNCHANGED vars

Callable == Functions \ EntryFunctions

Next ==
  \/ RecordEntryArgs
  \/ \E cost \in Costs :
       \/ DelegateOnly(cost)
       \/ ChargeActive(cost)
       \/ \E op \in StorageOps, succeeds \in BOOLEAN : ChargeStorage(op, succeeds, cost)
       \/ \E f \in Callable : ChargeCall(f, cost)
       \/ ChargeNativeExecution(cost)
       \/ \E ret \in Returns : NativeReturns(cost, ret)
       \/ NativeAborts(cost)
  \/ RecordEvent
  \/ \E ret \in Returns : RecordMoveReturn(ret)
  \/ FailUnseen
  \/ Succeed
  \/ Respond
  \/ Finished

Spec == Init /\ [][Next]_vars

-----------------------------------------------------------------------------
(* Safety.                                                                 *)

Answered == frames = <<>>
Traced == Answered /\ status # "Discarded"
IsMove(i) == nodes[i].function \notin Natives

\* While the VM runs, the tracer's frames are those of the VM's calls, the root
\* being any entry's, though the VM tells the meter of no native before it is
\* over and of no entry which it is.  Between entries the root is
\* left: "frames is never empty ... so the expect/unwrap below cannot fire".
FramesFollowVm ==
  /\ status \in {"running", "nativeOut"} => frames = Open
  /\ status = "between" => frames = <<1>> /\ running = <<>>

\* A call that is over is a child of the call that made it (of the root if that
\* is an entry), once, in the order of the calls; in the response every call is,
\* but the entries.
TreeIsCallTree ==
  status # "Discarded" =>
    \A p \in DOMAIN nodes :
      LET over == {i \in 2 .. Len(nodes) : CalledBy[i] = p /\ i \notin ToSet(frames)}
      IN  /\ ToSet(nodes[p].children) = over
          /\ \A j, k \in DOMAIN nodes[p].children :
               j < k => nodes[p].children[j] < nodes[p].children[k]

\* A frame shows the gas that was spent while its call was the innermost, its
\* callees left out (the root: while an entry was, whichever); only the native that
\* used the budget up, and fails, may show more.
SelfGas(i) == nodes[i].self + nodes[i].native

GasOfItsCall ==
  status # "Discarded" =>
    \A i \in DOMAIN nodes :
      \/ SelfGas(i) = spent[i]
      \/ /\ status \in Failures \cup {"nativeOut"} /\ balance = 0
         /\ i = Top /\ ~ IsMove(i) /\ spent[i] < SelfGas(i)

\* An event is with the nearest call outside of the event module among those
\* that led to it (with the root if there is none), once, after the events
\* emitted there before.
EventsWithTheirCaller ==
  status # "Discarded" =>
    /\ \A e \in DOMAIN Emitting : \E i \in ToSet(Emitting[e]) :
         /\ e \in ToSet(nodes[i].events)
         /\ i = 1 \/ Module[nodes[i].function] # EventModule
         /\ \A j \in ToSet(Emitting[e]) : j > i => Module[nodes[j].function] = EventModule
    /\ \A i \in DOMAIN nodes : \A j, k \in DOMAIN nodes[i].events :
         j < k => nodes[i].events[j] < nodes[i].events[k]
    /\ \A h, i \in DOMAIN nodes :
         h # i => ToSet(nodes[h].events) \cap ToSet(nodes[i].events) = {}

\* A frame shows the storage operations its call did, in their order (the root:
\* those the entries did); the call that was the innermost when the VM failed may
\* show one more, which was not done.
StorageOfItsCall ==
  status # "Discarded" =>
    \A i \in DOMAIN nodes :
      \/ nodes[i].storage = performed[i]
      \/ /\ status \in Failures /\ i = Top
         /\ \E op \in StorageOps : nodes[i].storage = Append(performed[i], op)

\* The root shows the user's arguments of the payload, and no other entry's.
PayloadArgs == WithoutSigners(ArgsOf[Root])

RootArgsAreUsers ==
  status # "Discarded" => rootArgs = IF MainEntered THEN PayloadArgs ELSE <<>>

\* The functions the VM was in when it failed, innermost first; an entry, or the
\* VM itself between two, is put down to the payload's.
OpenCalls ==
  LET open == IF running = <<>> THEN <<1>> ELSE Reverse(Open)
  IN  [k \in DOMAIN open |-> nodes[open[k]].function]

ShownCalls == [k \in DOMAIN abort |-> abort[k].function]

\* The abort stack lists the calls that were open, no other, and their order;
\* at most the native that failed is not on it.
AbortStackHasOpenCalls ==
  Traced /\ status \in Failures =>
    \/ ShownCalls = OpenCalls
    \/ OpenCalls[1] \in Natives /\ ShownCalls = Tail(OpenCalls)

\* How many entries have returned.
EntriesOver == IF running = <<>> THEN entered ELSE entered - 1

\* A Move call that is no entry shows a result exactly if it returned: a reader
\* tells by it which calls an abort cut short.  The root, in which every entry
\* returns (record_move_return writes the active frame), shows one as soon as the
\* first of them has: of the payload itself it says nothing.
ResultIffReturned ==
  status # "Discarded" =>
    /\ \A i \in 2 .. Len(nodes) :
         IsMove(i) => (nodes[i].ret # None <=> i \notin ToSet(running))
    /\ nodes[1].ret # None <=> EntriesOver > 0

=============================================================================
