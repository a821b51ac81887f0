------------------------------ MODULE MCProcess ------------------------------
(***************************************************************************)
(* The components of one process that the session protocol does not        *)
(* depend on in detail.  They share no state, so one run explores them     *)
(* side by side: part says which of them moves, and the others stay in     *)
(* their initial states.                                                   *)
(***************************************************************************)
EXTENDS HeartbeatMgr, TimingWheel, HugeAlloc, CoroutineScheduler, RdmaAllocators, Nexus

VARIABLE part

processvars == <<part, hbvars, wheelvars, hugevars, corovars, allocvars, nxvars>>

Init ==
    /\ part \in {"heartbeats", "wheel", "huge", "coroutines", "regions", "nexus"}
    /\ HbInit /\ WheelInit /\ HugeInit /\ CoroInit /\ AllocInit /\ NexusInit

Hb(A) == /\ part = "heartbeats" /\ A
         /\ UNCHANGED <<part, wheelvars, hugevars, corovars, allocvars, nxvars>>
Wheel(A) == /\ part = "wheel" /\ A
            /\ UNCHANGED <<part, hbvars, hugevars, corovars, allocvars, nxvars>>
Huge(A) == /\ part = "huge" /\ A
           /\ UNCHANGED <<part, hbvars, wheelvars, corovars, allocvars, nxvars>>
Coro(A) == /\ part = "coroutines" /\ A
           /\ UNCHANGED <<part, hbvars, wheelvars, hugevars, allocvars, nxvars>>
Regions(A) == /\ part = "regions" /\ A
              /\ UNCHANGED <<part, hbvars, wheelvars, hugevars, corovars, nxvars>>
Nx(A) == /\ part = "nexus" /\ A
         /\ UNCHANGED <<part, hbvars, wheelvars, hugevars, corovars, allocvars>>

Next == \/ Hb(HbNext) \/ Wheel(WheelNext) \/ Huge(HugeNext)
        \/ Coro(CoroNext) \/ Regions(AllocNext) \/ Nx(NexusNext)

\* The fairness of CoroSpec and NexusSpec.
Fairness ==
    /\ \A q \in QPs : WF_processvars(Coro(nic_complete(q)))
    /\ WF_processvars(Coro(CoroThread))
    /\ WF_processvars(Nx(MainThread)) /\ WF_processvars(Nx(SmThread))
    /\ \A b \in Bg : WF_processvars(Nx(BgThread(b)))
    /\ \A f \in Fg : WF_processvars(Nx(EventLoop(f)))

Spec == Init /\ [][Next]_processvars /\ Fairness
==============================================================================
