----------------------------- MODULE MCSessionDir -----------------------------
(* Two transactions, one network to fork from.                             *)
EXTENDS SessionDir, TLC

CONSTANTS genesis, testnet

MCBaseChain == genesis :> 4 @@ testnet :> 250
=============================================================================
