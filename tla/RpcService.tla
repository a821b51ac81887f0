------------------------------ MODULE RpcService ------------------------------
(***************************************************************************)
(* What one eRPC session promises to the application at its two ends,      *)
(* whatever the network does: every request handed to enqueue_request()    *)
(* runs its handler at most once, on exactly the bytes of that request,    *)
(* and its continuation runs at most once, after the handler has called    *)
(* enqueue_response(), on exactly the bytes of that response.              *)
(*                                                                         *)
(* A message is the set of its packet-sized pieces; a piece <<p, r, i>> is *)
(* the i-th piece of the message of request r, found at position p.        *)
(***************************************************************************)
EXTENDS Integers, Sequences

CONSTANTS
    Req,       \* the requests the client application may issue
    ReqPkts,   \* number of packets of each request
    RespPkts   \* number of packets of the response to each request

VARIABLES
    issued,    \* requests given to enqueue_request()
    execs,     \* per request, the buffers its handler was invoked on, in order
    responded, \* requests whose handler has called enqueue_response()
    conts      \* per request, the buffers its continuation was invoked on

serviceVars == <<issued, execs, responded, conts>>

Message(r, n) == {<<i, r, i>> : i \in 0..(n - 1)}
ReqData(r)    == Message(r, ReqPkts[r])
RespData(r)   == Message(r, RespPkts[r])

Init ==
    /\ issued = {}
    /\ execs = [r \in Req |-> <<>>]
    /\ responded = {}
    /\ conts = [r \in Req |-> <<>>]

Issue(r) ==
    /\ r \notin issued
    /\ issued' = issued \cup {r}
    /\ UNCHANGED <<execs, responded, conts>>

Execute(r) ==
    /\ r \in issued
    /\ execs[r] = <<>>
    /\ execs' = [execs EXCEPT ![r] = <<ReqData(r)>>]
    /\ UNCHANGED <<issued, responded, conts>>

Respond(r) ==
    /\ execs[r] # <<>>
    /\ r \notin responded
    /\ responded' = responded \cup {r}
    /\ UNCHANGED <<issued, execs, conts>>

Complete(r) ==
    /\ r \in responded
    /\ conts[r] = <<>>
    /\ conts' = [conts EXCEPT ![r] = <<RespData(r)>>]
    /\ UNCHANGED <<issued, execs, responded>>

Next == \E r \in Req : Issue(r) \/ Execute(r) \/ Respond(r) \/ Complete(r)

Spec == Init /\ [][Next]_serviceVars
===============================================================================
