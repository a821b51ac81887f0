---------------------------- MODULE SessionMgmtInv ----------------------------
(***************************************************************************)
(* The inductive invariants behind the safety properties of SessionMgmt.   *)
(*                                                                         *)
(* The handlers look sessions up by number.  What makes that sound is that *)
(* a session number is never reused: a token, the endpoint of the client   *)
(* and the remote Rpc go together in every session and in every packet, as *)
(* long as the Rpcs live.  Two pieces of state remember what the sessions  *)
(* that are gone were: conn_req_token_map_, which only grows, and the      *)
(* callbacks that a session's client was given.                            *)
(***************************************************************************)
EXTENDS SessionMgmt

-------------------------------------------------------------------------------
(***************************************************************************)
(* Whatever Rpcs are deleted.                                              *)
(***************************************************************************)
\* Session numbers in packets and sessions are positions of a vector, except
\* that of the server as long as it has not accepted.
PacketNums(m) ==
    /\ m.client.num \in Nat \ {0}
    /\ \/ m.type \in {"kDisconnectReq", "kDisconnectResp"}
       \/ m.type = "kConnectResp" /\ m.err = "kNoError"
       => m.server.num \in Nat \ {0}

SessionNums(s) ==
    /\ s.client.num \in Nat \ {0}
    /\ s.state # "kConnectInProgress" => s.server.num \in Nat \ {0}

NumsValid ==
    /\ \A m \in udp : PacketNums(m)
    /\ \A r \in Rpcs : \A n \in Live(r) : SessionNums(vec[r][n])

\* The token map of an Rpc leads into its vector.
TokensInRange ==
    \A r \in Rpcs : hook[r] =>
        \A t \in DOMAIN tokens[r] : tokens[r][t] \in 1..Len(vec[r])

BaseInv == TypeOK /\ NumsValid /\ TokensInRange /\ RingsConserved

-------------------------------------------------------------------------------
(***************************************************************************)
(* While no Rpc is deleted.                                                *)
(***************************************************************************)
\* What a session and its packets have in common.
Origin(x) == [token |-> x.token, client |-> x.client, srv |-> x.server.rpc]

Sessions == UNION {{vec[r][n] : n \in Live(r)} : r \in Rpcs}

Origins == {Origin(x) : x \in udp \cup Sessions}

\* The client's session, or Null, and the server's.
ClientOf(o) == vec[o.client.rpc][o.client.num]
ServerOf(o) == vec[o.srv][tokens[o.srv][o.token]]
Accepted(o) == o.token \in DOMAIN tokens[o.srv]

\* A token and a client endpoint are given out once.
OriginsAgree ==
    /\ \A o \in Origins : /\ o.token \in 1..created
                          /\ o.client.num \in 1..Len(vec[o.client.rpc])
    /\ \A o, p \in Origins : o.token = p.token \/ o.client = p.client => o = p

\* An Rpc that is not there yet has no sessions.
NotBuilt == \A r \in Rpcs : ~hook[r] => vec[r] = <<>> /\ tokens[r] = <<>>

\* A session knows its own endpoint, and a server session is in the token map.
SlotNamed(r, n) ==
    LET s == vec[r][n]
    IN  \/ s.role = "kClient" /\ s.client = [rpc |-> r, num |-> n]
        \/ /\ s.role = "kServer" /\ s.state = "kConnected"
           /\ s.server = [rpc |-> r, num |-> n]
           /\ s.token \in DOMAIN tokens[r] /\ tokens[r][s.token] = n

SlotsNamed == \A r \in Rpcs : \A n \in Live(r) : SlotNamed(r, n)

\* The token map leads to the session accepted for the token, or to Null.
TokensNamed ==
    \A r \in Rpcs : \A t \in DOMAIN tokens[r] :
        /\ t \in 1..created
        /\ tokens[r][t] \in 1..Len(vec[r])
        /\ tokens[r][t] \in Live(r) =>
             vec[r][tokens[r][t]].role = "kServer" /\ vec[r][tokens[r][t]].token = t

\* The position of a client session is never taken by a server session.
ClientSlots ==
    \A o \in Origins : ClientOf(o) # Null => ClientOf(o).role = "kClient"

\* x names the server endpoint that was given to its token.
ServerNamed(x) == Accepted(Origin(x)) /\ x.server.num = tokens[x.server.rpc][x.token]

\* A packet of a disconnection means that the client gave the session up, and
\* its response that the server did, too.
PacketNamed(m) ==
    /\ m.type = "kConnectResp" /\ m.err = "kNoError" => ServerNamed(m)
    /\ m.type \in {"kDisconnectReq", "kDisconnectResp"} =>
         /\ ServerNamed(m)
         /\ ClientOf(Origin(m)) # Null =>
              ClientOf(Origin(m)).state = "kDisconnectInProgress"
    /\ m.type = "kDisconnectResp" => ServerOf(Origin(m)) = Null

PacketsNamed == \A m \in udp : PacketNamed(m)

\* The server does not give up a session before the client does.
ClientServed(s) ==
    s.role = "kClient" =>
      /\ s.state = "kConnectInProgress" => s.server.num = kInvalidSessionNum
      /\ s.state # "kConnectInProgress" => ServerNamed(s)
      /\ s.state # "kDisconnectInProgress" /\ Accepted(Origin(s)) =>
           ServerOf(Origin(s)) # Null

ClientsServed == \A r \in Rpcs : \A n \in Live(r) : ClientServed(vec[r][n])

\* The callbacks tell how a session ended that is gone.
EventTells(o) ==
    /\ ClientOf(o) = Null =>
         \/ events[o.token] = <<"kConnectFailed">>
         \/ Accepted(o) /\ ServerOf(o) = Null
    /\ ClientOf(o) # Null =>
         /\ events[o.token] \in {<<>>, <<"kConnected">>}
         /\ ClientOf(o).state = "kConnectInProgress" => events[o.token] = <<>>

EventsTell ==
    /\ \A t \in Token : t > created => events[t] = <<>>
    /\ \A o \in Origins : EventTells(o)

CoreInv ==
    /\ BaseInv
    /\ NotBuilt /\ OriginsAgree /\ SlotsNamed /\ TokensNamed /\ ClientSlots
    /\ PacketsNamed /\ ClientsServed /\ EventsTell

SmInv == CoreInv /\ PendingLive
===============================================================================
