---------------------------- MODULE MCSessionMgmt ----------------------------
EXTENDS SessionMgmt
CONSTANTS rpcA, rpcB, rpcC
MCRpcs2 == {rpcA, rpcB}
MCRpcs3 == {rpcA, rpcB, rpcC}
\* rpcC is built for another transport than the others.
MCTransport == [r \in Rpcs |-> IF r = rpcC THEN "kRaw" ELSE "kInfiniBand"]
=============================================================================
