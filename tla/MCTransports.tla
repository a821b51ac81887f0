----------------------------- MODULE MCTransports -----------------------------
(***************************************************************************)
(* The components of the transports share no state, so one run explores    *)
(* them side by side: part says which of them moves, and the others stay   *)
(* in their initial states.  The reachable states are the sum of those of  *)
(* the components, not their product.                                      *)
(***************************************************************************)
EXTENDS SendQueue, IBRecv, RawRecv, DpdkOwnership, DpdkMbufs

VARIABLE part

transportvars == <<part, txvars, rxvars, rawvars, dpvars, dmvars>>

Init ==
    /\ part \in {"tx", "ib", "raw", "qps", "mbufs"}
    /\ TxInit /\ (part # "tx" => transport = "ib")
    /\ IBRxInit /\ (part # "ib" => use_fast_recv)
    /\ RawInit /\ DpInit /\ DmInit

Tx(A) == part = "tx" /\ A /\ UNCHANGED <<part, rxvars, rawvars, dpvars, dmvars>>
IBRx(A) == part = "ib" /\ A /\ UNCHANGED <<part, txvars, rawvars, dpvars, dmvars>>
Raw(A) == part = "raw" /\ A /\ UNCHANGED <<part, txvars, rxvars, dpvars, dmvars>>
Dp(A) == part = "qps" /\ A /\ UNCHANGED <<part, txvars, rxvars, rawvars, dmvars>>
Dm(A) == part = "mbufs" /\ A /\ UNCHANGED <<part, txvars, rxvars, rawvars, dpvars>>

Next == Tx(TxNext) \/ IBRx(IBRxNext) \/ Raw(RawNext) \/ Dp(DpNext) \/ Dm(DmNext)

\* The dispatch thread runs and the NIC works through its send queue.  A thread
\* that holds the mutex of the DPDK memzone runs or dies; the daemon comes back
\* for the mutex every second, and gets it some time if it keeps being released.
Fairness ==
    /\ WF_transportvars(Tx(TxThread)) /\ WF_transportvars(Tx(nic_send))
    /\ \A t \in Threads : WF_transportvars(Dp(dp_get_qp(t) \/ dp_free_qp(t)))
    /\ SF_transportvars(Dp(daemon_lock)) /\ WF_transportvars(Dp(daemon_scan))

Spec == Init /\ [][Next]_transportvars /\ Fairness
===============================================================================
