------------------------------ MODULE Protocol ------------------------------
(***************************************************************************)
(* What a client looks up before it sends a signed request: the nonce      *)
(* (NonceSupply), and the directory or a name (Lookups).  They share no    *)
(* state, so a behaviour is one of the two: `side` says which.             *)
(***************************************************************************)
EXTENDS NonceSupply, Lookups

VARIABLE side

protocolVars == <<vars, lookupVars, side>>

ProtocolInit == Init /\ LookupsInit /\ side \in {"nonces", "lookups"}

ProtocolNext ==
    /\ \/ side = "nonces" /\ Next /\ UNCHANGED lookupVars
       \/ side = "lookups" /\ LookupsNext /\ UNCHANGED vars
    /\ UNCHANGED side

ProtocolSpec == ProtocolInit /\ [][ProtocolNext]_protocolVars /\ Fairness
=============================================================================
