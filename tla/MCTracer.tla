------------------------------- MODULE MCTracer -------------------------------
(* A prologue, a payload and an epilogue; a user function, and the Move and *)
(* the native function of the event module.                                *)
EXTENDS Tracer, TLC

CONSTANTS prologue, main, epilogue, helper, emit, write, user, framework

MCFunctions == {prologue, main, epilogue, helper, emit, write}
MCModule == prologue :> framework @@ epilogue :> framework @@ main :> user
              @@ helper :> user @@ emit :> EventModule @@ write :> EventModule
MCEntries == <<prologue, main, epilogue>>
MCArgsOf == prologue :> <<"signer", "gas">> @@ main :> <<"signer", "signer", "to", "amount">>
              @@ epilogue :> <<"signer">>
MCValues == {"signer", "gas", "to", "amount"}
\* Calls that return nothing: the result that is easily taken for none.
MCReturns == {<<>>}
=============================================================================
