-------------------------- MODULE SessionMgmtProofs --------------------------
(***************************************************************************)
(* Proofs of the safety properties of SessionMgmt.                         *)
(***************************************************************************)
EXTENDS SessionMgmtInv, FiniteSetTheorems, TLAPS

-------------------------------------------------------------------------------
(***************************************************************************)
(* The session vectors.                                                    *)
(***************************************************************************)
VecType == vec \in [Rpcs -> Seq(Session \cup {Null})]

\* What changes when a session is appended to the vector of r.
Appended(r, s) ==
    /\ VecType'
    /\ Len(vec'[r]) = Len(vec[r]) + 1
    /\ vec'[r][Len(vec[r]) + 1] = s
    /\ \A n \in 1..Len(vec[r]) : vec'[r][n] = vec[r][n]
    /\ \A q \in Rpcs \ {r} : vec'[q] = vec[q] /\ Live(q)' = Live(q)
    /\ Live(r)' = Live(r) \cup {Len(vec[r]) + 1}

\* What changes when entry n of the vector of r becomes v.
Updated(r, n, v) ==
    /\ VecType'
    /\ Len(vec'[r]) = Len(vec[r])
    /\ vec'[r][n] = v
    /\ \A k \in (1..Len(vec[r])) \ {n} : vec'[r][k] = vec[r][k]
    /\ \A q \in Rpcs \ {r} : vec'[q] = vec[q] /\ Live(q)' = Live(q)
    /\ Live(r)' = IF v = Null THEN Live(r) \ {n} ELSE Live(r) \cup {n}

\* vec' is vec with one more session at the end of session_vec_ (push_back).
LEMMA AppendVec ==
    ASSUME VecType, NEW r \in Rpcs, NEW s \in Session,
           vec' = [vec EXCEPT ![r] = Append(@, s)]
    PROVE  Appended(r, s)
<1> DEFINE S == Session \cup {Null}
<1>1. vec[r] \in Seq(S) /\ s \in S /\ s # Null
  BY NullAssumption DEF VecType
<1>2. vec'[r] = Append(vec[r], s)
  BY DEF VecType
<1> HIDE DEF S
<1>3. /\ vec'[r] \in Seq(S)
      /\ Len(vec'[r]) = Len(vec[r]) + 1
      /\ vec'[r][Len(vec[r]) + 1] = s
      /\ \A n \in 1..Len(vec[r]) : vec'[r][n] = vec[r][n]
  BY <1>1, <1>2
<1>4. \A q \in Rpcs \ {r} : vec'[q] = vec[q] /\ Live(q)' = Live(q)
  BY DEF VecType, Live
<1>5. VecType'
  BY <1>3, <1>4 DEF VecType, S
<1>6. Live(r)' = Live(r) \cup {Len(vec[r]) + 1}
  BY <1>1, <1>3 DEF Live
<1> QED BY <1>3, <1>4, <1>5, <1>6 DEF Appended

\* vec' is vec with one entry replaced.
LEMMA UpdateVec ==
    ASSUME VecType, NEW r \in Rpcs, NEW n \in 1..Len(vec[r]),
           NEW v \in Session \cup {Null}, vec' = [vec EXCEPT ![r][n] = v]
    PROVE  Updated(r, n, v)
<1> DEFINE S == Session \cup {Null}
<1>1. vec[r] \in Seq(S) /\ v \in S
  BY DEF VecType
<1>2. vec'[r] = [vec[r] EXCEPT ![n] = v]
  BY DEF VecType
<1> HIDE DEF S
<1>3. /\ vec'[r] \in Seq(S)
      /\ Len(vec'[r]) = Len(vec[r])
      /\ vec'[r][n] = v
      /\ \A k \in (1..Len(vec[r])) \ {n} : vec'[r][k] = vec[r][k]
  BY <1>1, <1>2
<1>4. \A q \in Rpcs \ {r} : vec'[q] = vec[q] /\ Live(q)' = Live(q)
  BY DEF VecType, Live
<1>5. VecType'
  BY <1>3, <1>4 DEF VecType, S
<1>6. Live(r)' = IF v = Null THEN Live(r) \ {n} ELSE Live(r) \cup {n}
  BY <1>1, <1>3 DEF Live
<1> QED BY <1>3, <1>4, <1>5, <1>6 DEF Updated

\* The live sessions of an Rpc are finitely many.
LEMMA LiveFinite ==
    ASSUME VecType, NEW r \in Rpcs
    PROVE  IsFiniteSet(Live(r)) /\ Cardinality(Live(r)) \in Nat
<1>1. Len(vec[r]) \in Nat
  BY DEF VecType
<1>2. IsFiniteSet(1..Len(vec[r]))
  BY <1>1, FS_Interval
<1>3. Live(r) \subseteq 1..Len(vec[r])
  BY DEF Live
<1>4. IsFiniteSet(Live(r))
  BY <1>2, <1>3, FS_Subset
<1> QED BY <1>4, FS_CardinalityType

\* A live entry of a vector is a session.
LEMMA LiveSession ==
    ASSUME VecType, NEW r \in Rpcs, NEW n \in Live(r)
    PROVE  vec[r][n] \in Session /\ n \in 1..Len(vec[r])
  BY DEF VecType, Live

-------------------------------------------------------------------------------
(***************************************************************************)
(* What the actions do to the vectors.                                     *)
(***************************************************************************)
NewClient(r, rem) ==
    [role |-> "kClient", state |-> "kConnectInProgress", token |-> created + 1,
     client |-> [rpc |-> r, num |-> Len(vec[r]) + 1],
     server |-> [rpc |-> rem, num |-> kInvalidSessionNum]]

NewServer(r, m) ==
    [role |-> "kServer", state |-> "kConnected", token |-> m.token,
     client |-> m.client, server |-> [rpc |-> r, num |-> Len(vec[r]) + 1]]

\* Session s in another state, with another server endpoint.
Moved(s, state, srv) ==
    [role |-> s.role, state |-> state, token |-> s.token, client |-> s.client,
     server |-> srv]

\* A request of a session is a packet.
LEMMA SmReqType ==
    ASSUME NEW s \in Session
    PROVE  /\ SmReq(s) \in SmPkt
           /\ SmReq(s).token = s.token /\ SmReq(s).client = s.client
           /\ SmReq(s).server = s.server /\ SmReq(s).err = "kNoError"
           /\ SmReq(s).type = IF s.state = "kConnectInProgress" THEN "kConnectReq"
                                                                 ELSE "kDisconnectReq"
  BY DEF SmReq, Session, SmPkt, Reqs, Resps, SmErrType

\* A response is a packet of the session of its request.
LEMMA SmResp ==
    ASSUME NEW m \in SmPkt, NEW err \in SmErrType, NEW srv \in Endpoint, NEW a,
           a = sm_construct_resp(m, err, srv)
    PROVE  /\ a \in SmPkt /\ a.err = err
           /\ a.type = IF m.type = "kConnectReq" THEN "kConnectResp" ELSE "kDisconnectResp"
           /\ a.token = m.token /\ a.client = m.client /\ a.server = srv
  BY DEF sm_construct_resp, SmPkt, Resps

LEMMA MovedType ==
    ASSUME NEW s \in Session, NEW srv \in Endpoint,
           NEW state \in {"kConnectInProgress", "kConnected", "kDisconnectInProgress"}
    PROVE  Moved(s, state, srv) \in Session
  BY DEF Moved, Session

LEMMA MovedExcept ==
    ASSUME NEW s \in Session, NEW srv, NEW state
    PROVE  [s EXCEPT !.state = state, !.server = srv] = Moved(s, state, srv)
<1>1. DOMAIN s = {"role", "state", "token", "client", "server"}
  BY DEF Session
<1>2. [s EXCEPT !.state = state, !.server = srv] =
        [f \in DOMAIN s |-> IF f = "server" THEN srv ELSE IF f = "state" THEN state ELSE s[f]]
  BY <1>1
<1> QED BY <1>1, <1>2 DEF Moved

\* create_session_st appends a connecting session.
LEMMA CreateEffect ==
    ASSUME TypeOK, NEW r \in Rpcs, NEW rem \in Rpcs, create_session_st(r, rem)
    PROVE  /\ NewClient(r, rem) \in Session
           /\ Appended(r, NewClient(r, rem))
           /\ udp' = udp \cup {SmReq(NewClient(r, rem))}
           /\ created' = created + 1 /\ created' \in Token
<1>1. NewClient(r, rem) \in Session /\ created + 1 \in Token
  BY SmAssumption DEF TypeOK, NewClient, Session, Endpoint, Token, create_session_st
<1>2. vec' = [vec EXCEPT ![r] = Append(@, NewClient(r, rem))]
  BY DEF create_session_st, NewClient
<1>3. Appended(r, NewClient(r, rem))
  BY <1>1, <1>2, AppendVec DEF TypeOK, VecType
<1> QED BY <1>1, <1>3 DEF create_session_st, Send, NewClient

\* StartDisconnect moves a session to kDisconnectInProgress.
LEMMA StartDisconnectEffect ==
    ASSUME TypeOK, NEW r \in Rpcs, NEW n \in Live(r), NEW srv \in Endpoint,
           StartDisconnect(r, n, srv)
    PROVE  LET s == Moved(vec[r][n], "kDisconnectInProgress", srv)
           IN  /\ s \in Session
               /\ Updated(r, n, s)
               /\ udp' = udp \cup {SmReq(s)}
<1> DEFINE s == Moved(vec[r][n], "kDisconnectInProgress", srv)
<1>1. vec[r][n] \in Session /\ n \in 1..Len(vec[r])
  BY LiveSession DEF TypeOK, VecType
<1>2. s \in Session
  BY <1>1, MovedType
<1>3. s = [vec[r][n] EXCEPT !.state = "kDisconnectInProgress", !.server = srv]
  BY <1>1, MovedExcept
<1>4. vec' = [vec EXCEPT ![r][n] = s] /\ udp' = udp \cup {SmReq(s)}
  BY <1>3 DEF StartDisconnect, Send
<1>5. Updated(r, n, s)
  BY <1>1, <1>2, <1>4, UpdateVec DEF TypeOK, VecType
<1> QED BY <1>2, <1>4, <1>5

\* FinishConnect moves a session to kConnected.
LEMMA FinishConnectEffect ==
    ASSUME TypeOK, NEW r \in Rpcs, NEW m \in SmPkt, m.client.num \in 1..Len(vec[r]),
           FinishConnect(r, m)
    PROVE  LET n == m.client.num
               s == Moved(vec[r][n], "kConnected", m.server)
           IN  n \in Live(r) /\ s \in Session /\ Updated(r, n, s)
<1> DEFINE n == m.client.num
           s == Moved(vec[r][n], "kConnected", m.server)
<1>0. n \in Live(r)
  BY DEF FinishConnect, Connecting, Live
<1>1. vec[r][n] \in Session /\ n \in 1..Len(vec[r])
  BY <1>0, LiveSession DEF TypeOK, VecType
<1>2. s \in Session
  BY <1>1, MovedType DEF SmPkt
<1>3. s = [vec[r][n] EXCEPT !.state = "kConnected", !.server = m.server]
  BY <1>1, MovedExcept
<1>4. vec' = [vec EXCEPT ![r][n] = s]
  BY <1>1, <1>3 DEF FinishConnect
<1>5. Updated(r, n, s)
  BY <1>1, <1>2, <1>4, UpdateVec DEF TypeOK, VecType
<1> QED BY <1>0, <1>2, <1>5

\* bury_session_st leaves a null pointer.
LEMMA BuryEffect ==
    ASSUME TypeOK, NEW r \in Rpcs, NEW n \in 1..Len(vec[r]), bury_session_st(r, n)
    PROVE  Updated(r, n, Null)
  BY UpdateVec DEF TypeOK, VecType, bury_session_st

\* AcceptConnect appends a connected server session.
LEMMA AcceptEffect ==
    ASSUME TypeOK, NEW m \in SmPkt, m.type \in Reqs, AcceptConnect(m.server.rpc, m)
    PROVE  LET r == m.server.rpc
               s == NewServer(r, m)
           IN  /\ s \in Session /\ Appended(r, s)
               /\ udp' = udp \cup {sm_construct_resp(m, "kNoError", s.server)}
<1> DEFINE r == m.server.rpc
           s == NewServer(r, m)
<1>1. s \in Session /\ r \in Rpcs
  BY DEF TypeOK, NewServer, Session, SmPkt, Endpoint
<1>2. [m.server EXCEPT !.num = Len(vec[r]) + 1] = s.server
  BY DEF SmPkt, Endpoint, NewServer
<1>3. /\ vec' = [vec EXCEPT ![r] = Append(@, s)]
      /\ udp' = udp \cup {sm_construct_resp(m, "kNoError", s.server)}
  BY <1>2 DEF AcceptConnect, NewServer, Send
<1>4. Appended(r, s)
  BY <1>1, <1>3, AppendVec DEF TypeOK, VecType
<1> QED BY <1>1, <1>3, <1>4

-------------------------------------------------------------------------------
(***************************************************************************)
(* Ring entries and types, whatever Rpcs are deleted.                      *)
(***************************************************************************)
\* A new session takes the entries that alloc_ring_entries takes off.
LEMMA RingsTaken ==
    ASSUME TypeOK, RingsConserved, NEW r \in Rpcs, NEW k, k \notin Live(r), hook[r],
           have_ring_entries(r), alloc_ring_entries(r), hook' = hook,
           Live(r)' = Live(r) \cup {k}, \A q \in Rpcs \ {r} : Live(q)' = Live(q)
    PROVE  RingsConserved' /\ rings' \in [Rpcs -> 0..kNumRxRingEntries]
<1> DEFINE c == Cardinality(Live(r))
<1>1. IsFiniteSet(Live(r)) /\ c \in Nat
  BY LiveFinite DEF TypeOK, VecType
<1>2. Cardinality(Live(r)') = c + 1
  BY <1>1, FS_AddElement
<1>3. rings[r] + kSessionCredits * c = kNumRxRingEntries
  BY DEF RingsConserved
<1> HIDE DEF c
<1>4. kSessionCredits * (c + 1) = kSessionCredits * c + kSessionCredits
      /\ kSessionCredits * c \in Nat
  BY <1>1, SmAssumption
<1>5. rings[r] \in 0..kNumRxRingEntries /\ rings'[r] = rings[r] - kSessionCredits
      /\ rings[r] >= kSessionCredits
  BY DEF alloc_ring_entries, have_ring_entries, TypeOK
<1>6. rings'[r] + kSessionCredits * Cardinality(Live(r)') = kNumRxRingEntries
  BY <1>2, <1>3, <1>4, <1>5, SmAssumption
<1>7. rings' \in [Rpcs -> 0..kNumRxRingEntries]
  BY <1>5, SmAssumption DEF alloc_ring_entries, TypeOK
<1>8. \A q \in Rpcs \ {r} : rings'[q] = rings[q]
  BY DEF alloc_ring_entries, TypeOK
<1> QED BY <1>6, <1>7, <1>8 DEF RingsConserved

\* A session that is buried gives its entries back, which never exceed the ring.
LEMMA RingsReturned ==
    ASSUME TypeOK, RingsConserved, NEW r \in Rpcs, NEW n \in Live(r), hook[r],
           free_ring_entries(r), hook' = hook,
           Live(r)' = Live(r) \ {n}, \A q \in Rpcs \ {r} : Live(q)' = Live(q)
    PROVE  RingsConserved' /\ rings' \in [Rpcs -> 0..kNumRxRingEntries]
<1> DEFINE c == Cardinality(Live(r))
           d == Cardinality(Live(r) \ {n})
<1>1. IsFiniteSet(Live(r)) /\ c \in Nat
  BY LiveFinite DEF TypeOK, VecType
<1>2. d = c - 1 /\ d \in Nat
  BY <1>1, FS_RemoveElement, FS_CardinalityType
<1>3. rings[r] + kSessionCredits * c = kNumRxRingEntries
  BY DEF RingsConserved
<1>9. Cardinality(Live(r)') = d
  OBVIOUS
<1> HIDE DEF c, d
<1>4. kSessionCredits * c = kSessionCredits * d + kSessionCredits
      /\ kSessionCredits * d \in Nat
  BY <1>1, <1>2, SmAssumption
<1>5. rings[r] \in 0..kNumRxRingEntries /\ rings'[r] = rings[r] + kSessionCredits
  BY DEF free_ring_entries, TypeOK
<1>6. rings'[r] + kSessionCredits * Cardinality(Live(r)') = kNumRxRingEntries
  BY <1>9, <1>3, <1>4, <1>5, SmAssumption
<1>10. rings'[r] \in 0..kNumRxRingEntries
  BY <1>3, <1>4, <1>5, SmAssumption
<1>7. rings' \in [Rpcs -> 0..kNumRxRingEntries]
  BY <1>10, <1>5 DEF free_ring_entries, TypeOK
<1>8. \A q \in Rpcs \ {r} : rings'[q] = rings[q]
  BY DEF free_ring_entries, TypeOK
<1> QED BY <1>6, <1>7, <1>8 DEF RingsConserved

\* Sessions that only change their state keep their entries.
LEMMA RingsKept ==
    ASSUME RingsConserved, rings' = rings, hook' = hook, \A q \in Rpcs : Live(q)' = Live(q)
    PROVE  RingsConserved'
  BY DEF RingsConserved

\* Session numbers stay valid when those of new packets and sessions are.
LEMMA NumsAppended ==
    ASSUME TypeOK, NumsValid, NEW r \in Rpcs, NEW s, Appended(r, s), SessionNums(s),
           \A m \in udp' : m \in udp \/ PacketNums(m)
    PROVE  NumsValid'
<1>1. ASSUME NEW q \in Rpcs, NEW n \in Live(q)' PROVE SessionNums(vec'[q][n])
  <2>1. CASE q # r
    BY <1>1, <2>1 DEF Appended, NumsValid
  <2>2. CASE q = r /\ n \in Live(r)
    BY <2>2 DEF Appended, NumsValid, Live
  <2>3. CASE q = r /\ n = Len(vec[r]) + 1
    BY <2>3 DEF Appended
  <2> QED BY <1>1, <2>1, <2>2, <2>3 DEF Appended
<1> QED BY <1>1 DEF NumsValid, PacketNums, SessionNums

LEMMA NumsUpdated ==
    ASSUME TypeOK, NumsValid, NEW r \in Rpcs, NEW n \in Live(r), NEW v, Updated(r, n, v),
           v # Null => SessionNums(v),
           \A m \in udp' : m \in udp \/ PacketNums(m)
    PROVE  NumsValid'
<1>1. ASSUME NEW q \in Rpcs, NEW k \in Live(q)' PROVE SessionNums(vec'[q][k])
  <2>1. CASE q # r
    BY <1>1, <2>1 DEF Updated, NumsValid
  <2>2. CASE q = r /\ k # n
    <3>1. k \in Live(r) /\ vec'[r][k] = vec[r][k]
      BY <1>1, <2>2 DEF Updated, Live
    <3> QED BY <2>2, <3>1 DEF NumsValid
  <2>3. CASE q = r /\ k = n
    BY <1>1, <2>3 DEF Updated, Live
  <2> QED BY <2>1, <2>2, <2>3
<1> QED BY <1>1 DEF NumsValid, PacketNums, SessionNums

LEMMA NumsSame ==
    ASSUME NumsValid, vec' = vec, \A m \in udp' : m \in udp \/ PacketNums(m)
    PROVE  NumsValid'
  BY DEF NumsValid, PacketNums, SessionNums, Live

\* Vectors never shrink while their Rpc lives.
LEMMA RangeKept ==
    ASSUME TypeOK, VecType', TokensInRange, hook' = hook, tokens' = tokens,
           \A q \in Rpcs : Len(vec'[q]) = Len(vec[q]) \/ Len(vec'[q]) = Len(vec[q]) + 1
    PROVE  TokensInRange'
<1>1. \A q \in Rpcs : Len(vec[q]) \in Nat
  BY DEF TypeOK
<1> QED BY <1>1 DEF TokensInRange

LEMMA BaseCreate ==
    ASSUME BaseInv, NEW r \in Rpcs, NEW rem \in Rpcs, create_session_st(r, rem)
    PROVE  BaseInv'
<1> DEFINE s == NewClient(r, rem)
<1>1. s \in Session /\ Appended(r, s) /\ udp' = udp \cup {SmReq(s)} /\ created' \in Token
  BY CreateEffect DEF BaseInv
<1>2. SmReq(s) \in SmPkt /\ PacketNums(SmReq(s)) /\ SessionNums(s)
  <2>1. s.client.num \in Nat \ {0} /\ s.state = "kConnectInProgress"
    BY DEF NewClient, BaseInv, TypeOK
  <2> QED BY <1>1, <2>1, SmReqType DEF PacketNums, SessionNums
<1>3. NumsValid'
  BY <1>1, <1>2, NumsAppended DEF BaseInv
<1>4. RingsConserved' /\ rings' \in [Rpcs -> 0..kNumRxRingEntries]
  <2>1. Len(vec[r]) + 1 \notin Live(r)
    BY DEF Live, BaseInv, TypeOK
  <2> QED BY <1>1, <2>1, RingsTaken DEF Appended, BaseInv, create_session_st
<1>5. TypeOK'
  <2>1. pending' \in [Rpcs -> SUBSET Nat]
    BY DEF create_session_st, BaseInv, TypeOK
  <2>2. vec' \in [Rpcs -> Seq(Session \cup {Null})] /\ udp' \subseteq SmPkt
    <3>1. udp \subseteq SmPkt
      BY DEF BaseInv, TypeOK
    <3> HIDE DEF s
    <3> QED BY <1>1, <1>2, <3>1 DEF Appended, VecType
  <2>3. created' \in 0..MaxSessions /\ UNCHANGED <<hook, built, tokens, events>>
    BY <1>1 DEF create_session_st, Token
  <2> HIDE DEF s
  <2> QED BY <1>4, <2>1, <2>2, <2>3 DEF TypeOK, BaseInv
<1>6. TokensInRange'
  BY <1>1, RangeKept DEF BaseInv, Appended, create_session_st
<1> QED BY <1>3, <1>4, <1>5, <1>6 DEF BaseInv

LEMMA BaseAccept ==
    ASSUME BaseInv, NEW m \in udp, m.type = "kConnectReq", hook[m.server.rpc],
           AcceptConnect(m.server.rpc, m), UNCHANGED <<hook, built, pending, created, events>>
    PROVE  BaseInv'
<1> DEFINE r == m.server.rpc
           s == NewServer(r, m)
           a == sm_construct_resp(m, "kNoError", s.server)
<1>0. m \in SmPkt /\ r \in Rpcs /\ m.token \in Token
  BY DEF BaseInv, TypeOK, SmPkt, Endpoint
<1>1. s \in Session /\ Appended(r, s) /\ udp' = udp \cup {a}
  BY <1>0, AcceptEffect DEF BaseInv, Reqs
<1>2. a \in SmPkt /\ PacketNums(a) /\ SessionNums(s)
  <2>1. s.client.num \in Nat \ {0} /\ s.server.num \in Nat \ {0} /\ s.server \in Endpoint
        /\ s.client = m.client
    BY <1>0 DEF NewServer, BaseInv, TypeOK, NumsValid, PacketNums, Endpoint
  <2>2. a \in SmPkt /\ a.client = m.client /\ a.server = s.server
    <3>1. "kNoError" \in SmErrType
      BY DEF SmErrType
    <3>2. a = sm_construct_resp(m, "kNoError", s.server)
      OBVIOUS
    <3> HIDE DEF s, a
    <3> QED BY <1>0, <2>1, <3>1, <3>2, SmResp
  <2> QED BY <1>1, <2>1, <2>2 DEF PacketNums, SessionNums
<1>3. NumsValid'
  BY <1>0, <1>1, <1>2, NumsAppended DEF BaseInv
<1>4. RingsConserved' /\ rings' \in [Rpcs -> 0..kNumRxRingEntries]
  <2>1. Len(vec[r]) + 1 \notin Live(r)
    BY <1>0 DEF Live, BaseInv, TypeOK
  <2> QED BY <1>0, <1>1, <2>1, RingsTaken DEF Appended, BaseInv, AcceptConnect
<1>5. TypeOK'
  <2>1. /\ DOMAIN tokens' = Rpcs
        /\ \A q \in Rpcs : DOMAIN tokens'[q] \subseteq Token
                           /\ \A t \in DOMAIN tokens'[q] : tokens'[q][t] \in Nat
    BY SMTT(60), <1>0 DEF AcceptConnect, BaseInv, TypeOK
  <2> QED BY <1>1, <1>2, <1>4, <2>1 DEF TypeOK, BaseInv, Appended, VecType
<1>6. TokensInRange'
  <2> SUFFICES ASSUME NEW q \in Rpcs, hook[q], NEW t \in DOMAIN tokens'[q]
               PROVE  tokens'[q][t] \in 1..Len(vec'[q])
    BY DEF TokensInRange
  <2>1. Len(vec[q]) \in Nat
    BY DEF BaseInv, TypeOK
  <2>2. \/ tokens'[q][t] = Len(vec[q]) + 1 /\ q = r
        \/ t \in DOMAIN tokens[q] /\ tokens'[q][t] = tokens[q][t]
    BY DEF AcceptConnect, BaseInv, TypeOK
  <2>3. t \in DOMAIN tokens[q] => tokens[q][t] \in 1..Len(vec[q])
    BY DEF BaseInv, TokensInRange
  <2>4. q # r => vec'[q] = vec[q]
    BY <1>1 DEF Appended
  <2>5. Len(vec'[r]) = Len(vec[r]) + 1
    BY <1>1 DEF Appended
  <2> QED BY SMTT(60), <2>1, <2>2, <2>3, <2>4, <2>5
<1> QED BY <1>3, <1>4, <1>5, <1>6 DEF BaseInv

\* A callback is added to those of one session.
LEMMA CallbackEffect ==
    ASSUME TypeOK, NEW t \in Token,
           NEW e \in {"kConnected", "kConnectFailed", "kDisconnected"}, Callback(t, e)
    PROVE  /\ events' \in [Token -> Seq({"kConnected", "kConnectFailed", "kDisconnected"})]
           /\ events'[t] = Append(events[t], e)
           /\ \A u \in Token \ {t} : events'[u] = events[u]
<1> DEFINE K == {"kConnected", "kConnectFailed", "kDisconnected"}
<1>1. events \in [Token -> Seq(K)] /\ e \in K
  BY DEF TypeOK
<1> HIDE DEF K
<1>2. events' = [events EXCEPT ![t] = Append(@, e)]
  BY DEF Callback
<1>3. /\ events' \in [Token -> Seq(K)]
      /\ events'[t] = Append(events[t], e)
      /\ \A u \in Token \ {t} : events'[u] = events[u]
  BY <1>1, <1>2
<1> QED BY <1>3 DEF K

\* destroy_session_st and a failed resolution at the client.
LEMMA BaseStart ==
    ASSUME BaseInv, NEW r \in Rpcs, NEW n \in Live(r), NEW srv \in Endpoint,
           srv.num \in Nat \ {0}, StartDisconnect(r, n, srv),
           UNCHANGED <<hook, built, rings, tokens, created, events>>
    PROVE  BaseInv'
<1> DEFINE s == Moved(vec[r][n], "kDisconnectInProgress", srv)
<1>0. vec[r][n] \in Session /\ n \in 1..Len(vec[r]) /\ SessionNums(vec[r][n])
  BY LiveSession DEF BaseInv, TypeOK, VecType, NumsValid
<1>1. s \in Session /\ Updated(r, n, s) /\ udp' = udp \cup {SmReq(s)}
  BY StartDisconnectEffect DEF BaseInv
<1>2. s # Null
  BY <1>1, NullAssumption
<1>3. s.client = vec[r][n].client /\ s.server = srv
  BY DEF Moved
<1> HIDE DEF s
<1>4. SmReq(s) \in SmPkt /\ PacketNums(SmReq(s)) /\ SessionNums(s)
  BY <1>0, <1>1, <1>3, SmReqType DEF PacketNums, SessionNums
<1>5. NumsValid'
  BY <1>1, <1>4, NumsUpdated DEF BaseInv
<1>6. \A q \in Rpcs : Live(q)' = Live(q)
  BY <1>1, <1>2 DEF Updated
<1>7. RingsConserved'
  BY <1>6, RingsKept DEF BaseInv
<1>8. pending' \in [Rpcs -> SUBSET Nat]
  BY <1>0 DEF StartDisconnect, BaseInv, TypeOK
<1>9. TypeOK'
  BY <1>1, <1>4, <1>8 DEF BaseInv, TypeOK, Updated, VecType
<1>10. TokensInRange'
  BY <1>1, RangeKept DEF BaseInv, Updated
<1> QED BY <1>5, <1>7, <1>9, <1>10 DEF BaseInv

LEMMA BaseFinish ==
    ASSUME BaseInv, NEW m \in udp, m.type = "kConnectResp",
           m.client.num \in 1..Len(vec[m.client.rpc]), FinishConnect(m.client.rpc, m),
           UNCHANGED <<hook, built, tokens, created>>
    PROVE  BaseInv'
<1> DEFINE r == m.client.rpc
           n == m.client.num
           s == Moved(vec[r][n], "kConnected", m.server)
<1>0. m \in SmPkt /\ r \in Rpcs /\ PacketNums(m)
  BY DEF BaseInv, TypeOK, SmPkt, Endpoint, NumsValid
<1>1. n \in Live(r) /\ s \in Session /\ Updated(r, n, s)
  BY <1>0, FinishConnectEffect DEF BaseInv
<1>2. vec[r][n] \in Session /\ SessionNums(vec[r][n])
  BY SMTT(60), <1>0, <1>1, LiveSession DEF BaseInv, TypeOK, VecType, NumsValid
<1>3. s # Null
  BY <1>1, NullAssumption
<1>4. s.client = vec[r][n].client /\ s.server = m.server
  BY SMTT(60) DEF Moved
<1> HIDE DEF s
<1>5. SessionNums(s)
  BY <1>0, <1>2, <1>4 DEF PacketNums, SessionNums, FinishConnect
<1>6. NumsValid'
  BY <1>0, <1>1, <1>5, NumsUpdated DEF BaseInv, FinishConnect
<1>7. RingsConserved'
  <2>1. \A q \in Rpcs : Live(q)' = Live(q)
    BY <1>1, <1>3 DEF Updated
  <2> QED BY <2>1, RingsKept DEF BaseInv, FinishConnect
<1>8. pending' \in [Rpcs -> SUBSET Nat]
  BY DEF FinishConnect, Erase, BaseInv, TypeOK
<1>9. events' \in [Token -> Seq({"kConnected", "kConnectFailed", "kDisconnected"})]
  <2>1. vec[r][n].token \in Token
    BY SMTT(60), <1>2 DEF Session
  <2> QED BY <2>1, CallbackEffect DEF FinishConnect, BaseInv
<1>10. TypeOK'
  BY <1>1, <1>8, <1>9 DEF BaseInv, TypeOK, Updated, VecType, FinishConnect
<1>11. TokensInRange'
  BY <1>0, <1>1, RangeKept DEF BaseInv, Updated
<1> QED BY <1>6, <1>7, <1>10, <1>11 DEF BaseInv

\* A session is buried and its ring entries are returned.
LEMMA BaseBury ==
    ASSUME BaseInv, NEW r \in Rpcs, NEW n \in Live(r), hook[r],
           bury_session_st(r, n), free_ring_entries(r),
           UNCHANGED <<hook, built, tokens, created>>,
           pending' \in [Rpcs -> SUBSET Nat],
           events' \in [Token -> Seq({"kConnected", "kConnectFailed", "kDisconnected"})],
           \A p \in udp' : p \in udp \/ (p \in SmPkt /\ PacketNums(p))
    PROVE  BaseInv'
<1>1. Updated(r, n, Null)
  BY BuryEffect DEF BaseInv, Live
<1>2. NumsValid'
  BY <1>1, NumsUpdated DEF BaseInv
<1>3. RingsConserved' /\ rings' \in [Rpcs -> 0..kNumRxRingEntries]
  BY <1>1, RingsReturned DEF Updated, BaseInv
<1>4. TypeOK'
  BY <1>1, <1>3 DEF BaseInv, TypeOK, Updated, VecType
<1>5. TokensInRange'
  BY <1>1, RangeKept DEF BaseInv, Updated
<1> QED BY <1>2, <1>3, <1>4, <1>5 DEF BaseInv

\* Only packets and the set of pending requests change.
LEMMA BaseQuiet ==
    ASSUME BaseInv, UNCHANGED <<hook, built, vec, rings, tokens, created, events>>,
           pending' \in [Rpcs -> SUBSET Nat],
           \A p \in udp' : p \in udp \/ (p \in SmPkt /\ PacketNums(p))
    PROVE  BaseInv'
<1>1. NumsValid'
  BY NumsSame DEF BaseInv
<1>2. RingsConserved'
  BY RingsKept DEF BaseInv, Live
<1>3. TypeOK'
  BY DEF BaseInv, TypeOK
<1>4. TokensInRange'
  BY DEF BaseInv, TokensInRange
<1> QED BY <1>1, <1>2, <1>3, <1>4 DEF BaseInv

\* The constructor and the destructor leave an empty vector.
LEMMA BaseCtor ==
    ASSUME BaseInv, NEW r \in Rpcs, Rpc_ctor(r) \/ Rpc_dtor(r)
    PROVE  BaseInv'
<1>1. /\ Live(r)' = {} /\ vec'[r] = <<>>
      /\ \A q \in Rpcs \ {r} : vec'[q] = vec[q] /\ Live(q)' = Live(q)
      /\ vec' \in [Rpcs -> Seq(Session \cup {Null})]
  <2>1. vec \in [Rpcs -> Seq(Session \cup {Null})] /\ vec' = [vec EXCEPT ![r] = <<>>]
    BY DEF Rpc_ctor, Rpc_dtor, BaseInv, TypeOK
  <2>2. vec'[r] = <<>> /\ \A q \in Rpcs \ {r} : vec'[q] = vec[q]
    BY <2>1
  <2>3. vec' \in [Rpcs -> Seq(Session \cup {Null})]
    BY <2>1
  <2> QED BY <2>2, <2>3 DEF Live
<1>2. NumsValid'
  <2>1. ASSUME NEW q \in Rpcs, NEW n \in Live(q)' PROVE SessionNums(vec'[q][n])
    BY <1>1, <2>1 DEF BaseInv, NumsValid
  <2>2. udp' = udp
    BY DEF Rpc_ctor, Rpc_dtor
  <2> QED BY <2>1, <2>2 DEF BaseInv, NumsValid, PacketNums, SessionNums
<1>3. RingsConserved'
  <2>1. ASSUME NEW q \in Rpcs \ {r}
        PROVE  hook'[q] = hook[q] /\ rings'[q] = rings[q] /\ Live(q)' = Live(q)
    BY <1>1 DEF Rpc_ctor, Rpc_dtor, BaseInv, TypeOK
  <2>2. Cardinality(Live(r)') = 0
    BY <1>1, FS_EmptySet
  <2>3. kSessionCredits * 0 = 0 /\ kNumRxRingEntries \in Nat
    BY SmAssumption
  <2>4. hook'[r] => rings'[r] = kNumRxRingEntries
    BY DEF Rpc_ctor, Rpc_dtor, BaseInv, TypeOK
  <2> QED BY <2>1, <2>2, <2>3, <2>4 DEF BaseInv, RingsConserved
<1>4. TypeOK'
  <2>1. /\ hook' \in [Rpcs -> BOOLEAN] /\ pending' \in [Rpcs -> SUBSET Nat]
        /\ built' \in [Rpcs -> 0..MaxRpcs]
        /\ rings' \in [Rpcs -> 0..kNumRxRingEntries]
    <3>1. CASE Rpc_ctor(r)
      <4>1. built[r] \in 0..MaxRpcs /\ built[r] < MaxRpcs
        BY <3>1 DEF Rpc_ctor, BaseInv, TypeOK
      <4>2. built[r] + 1 \in 0..MaxRpcs /\ kNumRxRingEntries \in 0..kNumRxRingEntries
        BY <4>1, SmAssumption
      <4> QED BY <3>1, <4>2 DEF Rpc_ctor, BaseInv, TypeOK
    <3>2. CASE Rpc_dtor(r)
      BY <3>2 DEF Rpc_dtor, BaseInv, TypeOK
    <3> QED BY <3>1, <3>2
  <2>2. /\ DOMAIN tokens' = Rpcs
        /\ \A q \in Rpcs : DOMAIN tokens'[q] \subseteq Token
                           /\ \A t \in DOMAIN tokens'[q] : tokens'[q][t] \in Nat
    <3>1. tokens' = tokens \/ tokens' = [tokens EXCEPT ![r] = <<>>]
      BY DEF Rpc_ctor, Rpc_dtor
    <3>2. DOMAIN <<>> = {}
      OBVIOUS
    <3> QED BY <3>1, <3>2 DEF BaseInv, TypeOK
  <2> QED BY <1>1, <2>1, <2>2 DEF Rpc_ctor, Rpc_dtor, BaseInv, TypeOK
<1>5. TokensInRange'
  <2> SUFFICES ASSUME NEW q \in Rpcs, hook'[q], NEW t \in DOMAIN tokens'[q]
               PROVE  tokens'[q][t] \in 1..Len(vec'[q])
    BY DEF TokensInRange
  <2>1. q # r
    BY DEF Rpc_ctor, Rpc_dtor, BaseInv, TypeOK
  <2>2. hook'[q] = hook[q] /\ tokens'[q] = tokens[q] /\ vec'[q] = vec[q]
    BY <2>1 DEF Rpc_ctor, Rpc_dtor, BaseInv, TypeOK
  <2> QED BY <2>2 DEF BaseInv, TokensInRange
<1> QED BY <1>2, <1>3, <1>4, <1>5 DEF BaseInv

\* What is known of a packet that its target may handle.
LEMMA PacketFacts ==
    ASSUME BaseInv, NEW m \in udp
    PROVE  /\ m \in SmPkt /\ PacketNums(m) /\ Target(m) \in Rpcs
           /\ m.client \in Endpoint /\ m.client.rpc \in Rpcs /\ m.client.num \in Nat \ {0}
           /\ m.server \in Endpoint /\ m.server.rpc \in Rpcs /\ m.token \in Token
           /\ m.type \in {"kConnectReq", "kDisconnectReq"} <=> m.type \in Reqs
           /\ m.type \in Reqs \cup Resps
  BY DEF BaseInv, TypeOK, SmPkt, Endpoint, NumsValid, PacketNums, Target, Reqs, Resps

\* A response keeps the numbers of its request valid.
LEMMA RespNums ==
    ASSUME BaseInv, NEW m \in udp, m.type \in Reqs, NEW err \in SmErrType,
           m.type = "kConnectReq" => err # "kNoError"
    PROVE  LET a == sm_construct_resp(m, err, m.server)
           IN  a \in SmPkt /\ PacketNums(a)
<1> DEFINE a == sm_construct_resp(m, err, m.server)
<1>1. m \in SmPkt /\ PacketNums(m) /\ m.server \in Endpoint
      /\ m.type \in {"kConnectReq", "kDisconnectReq"}
  BY PacketFacts
<1>2. /\ a \in SmPkt /\ a.err = err /\ a.client = m.client /\ a.server = m.server
      /\ a.type = IF m.type = "kConnectReq" THEN "kConnectResp" ELSE "kDisconnectResp"
  BY <1>1, SmResp
<1> HIDE DEF a
<1>3. PacketNums(a)
  BY <1>1, <1>2 DEF PacketNums
<1> QED BY <1>2, <1>3 DEF a

LEMMA BaseConnectResp ==
    ASSUME BaseInv, NEW m \in udp, hook[m.client.rpc], handle_connect_resp_st(m.client.rpc, m)
    PROVE  BaseInv'
<1> DEFINE r == m.client.rpc
           n == m.client.num
<1>1. m \in SmPkt /\ PacketNums(m) /\ r \in Rpcs /\ n \in 1..Len(vec[r])
      /\ m.type = "kConnectResp" /\ m.server \in Endpoint
  <2>1. n \in Nat \ {0} /\ n <= Len(vec[r]) /\ r \in Rpcs
    BY PacketFacts DEF handle_connect_resp_st
  <2>2. Len(vec[r]) \in Nat
    BY <2>1 DEF BaseInv, TypeOK
  <2> QED BY <2>1, <2>2, PacketFacts DEF handle_connect_resp_st
<1>2. UNCHANGED <<hook, built, tokens, created>>
  BY DEF handle_connect_resp_st
<1>3. CASE IgnoreConnectResp(r, m)
  <2>1. pending' \in [Rpcs -> SUBSET Nat]
    BY <1>3 DEF IgnoreConnectResp, Erase, BaseInv, TypeOK
  <2> QED BY <1>2, <1>3, <2>1, BaseQuiet DEF IgnoreConnectResp
<1>4. CASE RetryConnect(r, m)
  <2>1. pending' \in [Rpcs -> SUBSET Nat]
    BY <1>1, <1>4 DEF RetryConnect, BaseInv, TypeOK
  <2> QED BY <1>2, <1>4, <2>1, BaseQuiet DEF RetryConnect
<1>5. CASE FailConnect(r, m)
  <2>0. n \in Live(r) /\ vec[r][n] \in Session
    BY <1>1, <1>5, LiveSession DEF FailConnect, Connecting, Live, BaseInv, TypeOK, VecType
  <2>1. pending' \in [Rpcs -> SUBSET Nat]
    BY <1>5 DEF FailConnect, Erase, BaseInv, TypeOK
  <2>2. events' \in [Token -> Seq({"kConnected", "kConnectFailed", "kDisconnected"})]
    <3>1. vec[r][n].token \in Token
      BY <2>0 DEF Session
    <3> QED BY <3>1, <1>5, CallbackEffect DEF FailConnect, BaseInv
  <2> QED BY <1>1, <1>2, <1>5, <2>0, <2>1, <2>2, BaseBury DEF FailConnect
<1>6. CASE UnresolvedServer(r, m)
  <2>0. n \in Live(r) /\ m.server.num \in Nat \ {0}
    BY <1>1, <1>6 DEF UnresolvedServer, Connecting, Live, PacketNums
  <2> QED BY <1>1, <1>2, <1>6, <2>0, BaseStart DEF UnresolvedServer
<1>7. CASE FinishConnect(r, m)
  BY <1>1, <1>2, <1>7, BaseFinish
<1> QED BY <1>3, <1>4, <1>5, <1>6, <1>7 DEF handle_connect_resp_st

LEMMA BaseDisconnectResp ==
    ASSUME BaseInv, NEW m \in udp, hook[m.client.rpc],
           handle_disconnect_resp_st(m.client.rpc, m)
    PROVE  BaseInv'
<1> DEFINE r == m.client.rpc
           n == m.client.num
<1>1. r \in Rpcs /\ n \in 1..Len(vec[r])
  <2>1. n \in Nat \ {0} /\ n <= Len(vec[r]) /\ r \in Rpcs
    BY PacketFacts DEF handle_disconnect_resp_st
  <2>2. Len(vec[r]) \in Nat
    BY <2>1 DEF BaseInv, TypeOK
  <2> QED BY <2>1, <2>2
<1>2. UNCHANGED <<hook, built, tokens, created, udp>>
  BY DEF handle_disconnect_resp_st
<1>3. pending' \in [Rpcs -> SUBSET Nat]
  BY DEF handle_disconnect_resp_st, Erase, BaseInv, TypeOK
<1>4. CASE vec[r][n] = Null
  BY <1>2, <1>3, <1>4, BaseQuiet DEF handle_disconnect_resp_st
<1>5. CASE vec[r][n] # Null
  <2>0. n \in Live(r) /\ vec[r][n] \in Session
    BY <1>1, <1>5, LiveSession DEF Live, BaseInv, TypeOK, VecType
  <2>1. vec[r][n].token \in Token
    BY <2>0 DEF Session
  <2>2. events' \in [Token -> Seq({"kConnected", "kConnectFailed", "kDisconnected"})]
    BY <1>5, <2>1, CallbackEffect DEF handle_disconnect_resp_st, BaseInv
  <2> QED BY <1>1, <1>2, <1>3, <1>5, <2>0, <2>2, BaseBury DEF handle_disconnect_resp_st
<1> QED BY <1>4, <1>5

LEMMA BaseDisconnectReq ==
    ASSUME BaseInv, NEW m \in udp, hook[m.server.rpc],
           handle_disconnect_req_st(m.server.rpc, m)
    PROVE  BaseInv'
<1> DEFINE r == m.server.rpc
           n == m.server.num
           a == sm_construct_resp(m, "kNoError", m.server)
<1>1. r \in Rpcs /\ n \in 1..Len(vec[r])
  <2>1. n \in Nat \ {0} /\ n <= Len(vec[r]) /\ r \in Rpcs
    BY PacketFacts DEF handle_disconnect_req_st, PacketNums
  <2>2. Len(vec[r]) \in Nat
    BY <2>1 DEF BaseInv, TypeOK
  <2> QED BY <2>1, <2>2
<1>2. UNCHANGED <<hook, built, pending, tokens, created, events>> /\ udp' = udp \cup {a}
      /\ m.type = "kDisconnectReq"
  BY DEF handle_disconnect_req_st, Send
<1>3. a \in SmPkt /\ PacketNums(a)
  BY <1>2, RespNums DEF SmErrType, Reqs
<1> HIDE DEF a
<1>4. pending' \in [Rpcs -> SUBSET Nat]
      /\ events' \in [Token -> Seq({"kConnected", "kConnectFailed", "kDisconnected"})]
  BY <1>2 DEF BaseInv, TypeOK
<1>5. CASE vec[r][n] = Null
  BY <1>2, <1>3, <1>4, <1>5, BaseQuiet DEF handle_disconnect_req_st
<1>6. CASE vec[r][n] # Null
  <2>0. n \in Live(r)
    BY <1>1, <1>6 DEF Live
  <2> QED BY <1>1, <1>2, <1>3, <1>4, <1>6, <2>0, BaseBury DEF handle_disconnect_req_st
<1> QED BY <1>5, <1>6

LEMMA BaseConnectReq ==
    ASSUME BaseInv, NEW m \in udp, hook[m.server.rpc], handle_connect_req_st(m.server.rpc, m)
    PROVE  BaseInv'
<1> DEFINE r == m.server.rpc
<1>1. UNCHANGED <<hook, built, pending, created, events>> /\ m.type = "kConnectReq"
  BY DEF handle_connect_req_st
<1>2. r \in Rpcs /\ m \in SmPkt /\ PacketNums(m)
  BY PacketFacts
<1>3. pending' \in [Rpcs -> SUBSET Nat]
  BY <1>1 DEF BaseInv, TypeOK
<1>4. CASE RepeatConnect(r, m)
  <2> DEFINE k == tokens[r][m.token]
             a == sm_construct_resp(m, "kNoError", vec[r][k].server)
  <2>1. /\ vec[r][k] # Null /\ vec[r][k].state = "kConnected"
        /\ udp' = udp \cup {a} /\ UNCHANGED <<vec, rings, tokens>>
    BY SMTT(60), <1>4 DEF RepeatConnect, Send
  <2>2. k \in Live(r)
    BY ZenonT(60), <1>2, <1>4, <2>1 DEF RepeatConnect, BaseInv, TokensInRange, Live
  <2>3. vec[r][k].server \in Endpoint /\ vec[r][k].server.num \in Nat \ {0}
    <3>1. vec[r][k] \in Session /\ SessionNums(vec[r][k])
      BY <1>2, <2>2, LiveSession DEF BaseInv, TypeOK, VecType, NumsValid
    <3> QED BY <2>1, <3>1 DEF Session, SessionNums
  <2>4. a \in SmPkt /\ a.client = m.client /\ a.server = vec[r][k].server
    <3>1. "kNoError" \in SmErrType
      BY DEF SmErrType
    <3>2. a = sm_construct_resp(m, "kNoError", vec[r][k].server)
      BY SMTT(60)
    <3> HIDE DEF a, k
    <3> QED BY <1>2, <2>3, <3>1, <3>2, SmResp
  <2> HIDE DEF a
  <2>5. PacketNums(a)
    BY <1>2, <2>3, <2>4 DEF PacketNums
  <2> QED BY SMTT(60), <1>1, <1>3, <2>1, <2>4, <2>5, BaseQuiet
<1>5. CASE RefuseConnect(r, m)
  <2>1. PICK err \in SmErrType :
          ConnectError(r, m, err) /\ udp' = udp \cup {sm_construct_resp(m, err, m.server)}
    BY <1>5 DEF RefuseConnect, Send
  <2>2. err # "kNoError"
    BY <2>1 DEF ConnectError
  <2>3. sm_construct_resp(m, err, m.server) \in SmPkt
        /\ PacketNums(sm_construct_resp(m, err, m.server))
    BY <1>1, <2>2, RespNums DEF Reqs
  <2> QED BY <1>1, <1>3, <1>5, <2>1, <2>3, BaseQuiet DEF RefuseConnect
<1>6. CASE AcceptConnect(r, m)
  BY <1>1, <1>6, BaseAccept
<1> QED BY <1>4, <1>5, <1>6 DEF handle_connect_req_st

LEMMA BaseInit == Init => BaseInv
<1> SUFFICES ASSUME Init PROVE BaseInv
  OBVIOUS
<1>1. \A r \in Rpcs : Live(r) = {}
  BY DEF Init, Live
<1>2. TypeOK
  <2>1. /\ hook \in [Rpcs -> BOOLEAN] /\ pending \in [Rpcs -> SUBSET Nat]
        /\ built \in [Rpcs -> 0..MaxRpcs] /\ rings \in [Rpcs -> 0..kNumRxRingEntries]
        /\ created \in 0..MaxSessions /\ udp \subseteq SmPkt
    BY SmAssumption DEF Init
  <2>2. /\ vec \in [Rpcs -> Seq(Session \cup {Null})]
        /\ events \in [Token -> Seq({"kConnected", "kConnectFailed", "kDisconnected"})]
    BY DEF Init
  <2>3. DOMAIN tokens = Rpcs /\ \A r \in Rpcs : DOMAIN tokens[r] = {}
    BY DEF Init
  <2> QED BY <2>1, <2>2, <2>3 DEF TypeOK
<1>3. NumsValid
  BY <1>1 DEF Init, NumsValid
<1>4. TokensInRange /\ RingsConserved
  BY DEF Init, TokensInRange, RingsConserved
<1> QED BY <1>2, <1>3, <1>4 DEF BaseInv

LEMMA BaseStep == BaseInv /\ [Next]_vars => BaseInv'
<1> SUFFICES ASSUME BaseInv, [Next]_vars PROVE BaseInv'
  OBVIOUS
<1>1. CASE \E r \in Rpcs : Rpc_ctor(r) \/ Rpc_dtor(r)
  BY <1>1, BaseCtor
<1>2. CASE \E r, rem \in Rpcs : create_session_st(r, rem)
  BY <1>2, BaseCreate
<1>3. ASSUME NEW r \in Rpcs, NEW n \in 1..Len(vec[r]), destroy_session_st(r, n) PROVE BaseInv'
  <2>1. n \in Live(r)
    BY <1>3 DEF destroy_session_st, Live
  <2>2. vec[r][n] \in Session /\ SessionNums(vec[r][n])
    BY <2>1, LiveSession DEF BaseInv, TypeOK, VecType, NumsValid
  <2>3. vec[r][n].server \in Endpoint /\ vec[r][n].server.num \in Nat \ {0}
    BY <1>3, <2>2 DEF Session, SessionNums, destroy_session_st
  <2> QED BY <1>3, <2>1, <2>3, BaseStart DEF destroy_session_st
<1>4. ASSUME NEW r \in Rpcs, NEW n \in 1..Len(vec[r]), pkt_loss_scan_st(r, n) PROVE BaseInv'
  <2> DEFINE s == vec[r][n]
  <2>1. n \in Live(r)
    BY <1>4 DEF pkt_loss_scan_st, Live
  <2>2. s \in Session /\ SessionNums(s)
    BY <2>1, LiveSession DEF BaseInv, TypeOK, VecType, NumsValid
  <2>3. /\ UNCHANGED <<hook, built, vec, rings, tokens, created, events, pending>>
        /\ udp' = udp \cup {SmReq(s)}
    BY <1>4 DEF pkt_loss_scan_st, Send
  <2> HIDE DEF s
  <2>4. SmReq(s) \in SmPkt /\ PacketNums(SmReq(s))
    BY <2>2, SmReqType DEF PacketNums, SessionNums
  <2>5. pending' \in [Rpcs -> SUBSET Nat]
    BY <2>3 DEF BaseInv, TypeOK
  <2> QED BY <2>3, <2>4, <2>5, BaseQuiet
<1>5. ASSUME NEW m \in udp, sm_thread_func(m) PROVE BaseInv'
  <2> DEFINE a == sm_construct_resp(m, "kInvalidRemoteRpcId", m.server)
  <2>1. /\ UNCHANGED <<hook, built, vec, rings, tokens, created, events, pending>>
        /\ udp' = udp \cup {a} /\ m.type \in Reqs
    BY <1>5 DEF sm_thread_func, Send
  <2>2. "kInvalidRemoteRpcId" \in SmErrType
    BY DEF SmErrType
  <2>3. a \in SmPkt /\ PacketNums(a)
    BY <2>1, <2>2, RespNums
  <2> HIDE DEF a
  <2>4. pending' \in [Rpcs -> SUBSET Nat]
    BY <2>1 DEF BaseInv, TypeOK
  <2> QED BY <2>1, <2>3, <2>4, BaseQuiet
<1>6. ASSUME NEW m \in udp, handle_sm_rx_st(m) PROVE BaseInv'
  <2>1. hook[Target(m)]
    BY <1>6 DEF handle_sm_rx_st
  <2>2. CASE handle_connect_req_st(Target(m), m)
    <3>1. Target(m) = m.server.rpc
      BY <2>2 DEF handle_connect_req_st, Target, Reqs
    <3> QED BY <2>1, <2>2, <3>1, BaseConnectReq
  <2>3. CASE handle_connect_resp_st(Target(m), m)
    <3>1. Target(m) = m.client.rpc
      BY <2>3 DEF handle_connect_resp_st, Target, Reqs
    <3> QED BY <2>1, <2>3, <3>1, BaseConnectResp
  <2>4. CASE handle_disconnect_req_st(Target(m), m)
    <3>1. Target(m) = m.server.rpc
      BY <2>4 DEF handle_disconnect_req_st, Target, Reqs
    <3> QED BY <2>1, <2>4, <3>1, BaseDisconnectReq
  <2>5. CASE handle_disconnect_resp_st(Target(m), m)
    <3>1. Target(m) = m.client.rpc
      BY <2>5 DEF handle_disconnect_resp_st, Target, Reqs
    <3> QED BY <2>1, <2>5, <3>1, BaseDisconnectResp
  <2> QED BY <1>6, <2>2, <2>3, <2>4, <2>5 DEF handle_sm_rx_st
<1>7. ASSUME NEW m \in udp, Lose(m) PROVE BaseInv'
  <2>1. UNCHANGED <<hook, built, vec, rings, tokens, created, events, pending>>
        /\ udp' \subseteq udp
    BY <1>7 DEF Lose
  <2>2. pending' \in [Rpcs -> SUBSET Nat]
    BY <2>1 DEF BaseInv, TypeOK
  <2> QED BY <2>1, <2>2, BaseQuiet
<1>8. CASE UNCHANGED vars
  <2>1. pending' \in [Rpcs -> SUBSET Nat]
    BY <1>8 DEF vars, BaseInv, TypeOK
  <2> QED BY <1>8, <2>1, BaseQuiet DEF vars
<1> QED BY <1>1, <1>2, <1>3, <1>4, <1>5, <1>6, <1>7, <1>8 DEF Next

\* Whichever Rpcs are deleted and created again, the session management state is
\* well typed, session numbers lead into session_vec_, and ring entries are
\* conserved.
THEOREM BaseInvariance == Spec => []BaseInv
  BY BaseInit, BaseStep, PTL DEF Spec

-------------------------------------------------------------------------------
(***************************************************************************)
(* Origins.                                                                *)
(***************************************************************************)
OriginType == [token : Token, client : Endpoint, srv : Rpcs]

LEMMA OriginsType ==
    ASSUME TypeOK
    PROVE  /\ Origins \subseteq OriginType
           /\ \A x \in SmPkt \cup Session : Origin(x) \in OriginType
<1>1. ASSUME NEW x \in SmPkt \cup Session PROVE Origin(x) \in OriginType
  BY DEF Origin, OriginType, SmPkt, Session, Endpoint
<1>2. udp \subseteq SmPkt /\ Sessions \subseteq Session
  BY LiveSession DEF TypeOK, VecType, Sessions
<1> QED BY <1>1, <1>2 DEF Origins

\* Packets and live sessions have an origin.
LEMMA HasOrigin ==
    /\ \A m \in udp : Origin(m) \in Origins
    /\ \A r \in Rpcs : \A n \in Live(r) : Origin(vec[r][n]) \in Origins
  BY DEF Origins, Sessions

\* An origin belongs to a packet or to a live session.
LEMMA OriginIs ==
    ASSUME NEW o \in Origins
    PROVE  \/ \E m \in udp : o = Origin(m)
           \/ \E r \in Rpcs : \E n \in Live(r) : o = Origin(vec[r][n])
  BY DEF Origins, Sessions

\* The session found at a client's endpoint is the session of that origin.
LEMMA ClientIs ==
    ASSUME CoreInv, NEW o \in Origins, ClientOf(o) # Null
    PROVE  /\ o.client.rpc \in Rpcs /\ o.client.num \in Live(o.client.rpc)
           /\ ClientOf(o) \in Session /\ ClientOf(o).role = "kClient"
           /\ Origin(ClientOf(o)) = o
<1> DEFINE r == o.client.rpc
           n == o.client.num
<1>1. o \in OriginType
  BY OriginsType DEF CoreInv, BaseInv
<1>2. r \in Rpcs /\ o.client = [rpc |-> r, num |-> n]
  BY <1>1 DEF OriginType, Endpoint
<1>3. n \in Live(r) /\ ClientOf(o) = vec[r][n]
  BY DEF CoreInv, OriginsAgree, ClientOf, Live
<1>4. vec[r][n] \in Session /\ vec[r][n].role = "kClient"
  BY <1>2, <1>3, LiveSession DEF CoreInv, BaseInv, TypeOK, VecType, ClientSlots
<1>5. vec[r][n].client = o.client
  BY <1>2, <1>3, <1>4 DEF CoreInv, SlotsNamed, SlotNamed
<1>6. Origin(vec[r][n]) \in Origins
  BY <1>2, <1>3, HasOrigin
<1>7. Origin(vec[r][n]).client = o.client
  BY <1>5 DEF Origin
<1>8. Origin(vec[r][n]) = o
  BY <1>6, <1>7 DEF CoreInv, OriginsAgree
<1> QED BY <1>2, <1>3, <1>4, <1>8

\* A client session is the one its origin leads to.
LEMMA ClientSelf ==
    ASSUME CoreInv, NEW r \in Rpcs, NEW n \in Live(r), vec[r][n].role = "kClient"
    PROVE  /\ vec[r][n].client = [rpc |-> r, num |-> n]
           /\ ClientOf(Origin(vec[r][n])) = vec[r][n]
<1>1. vec[r][n].client = [rpc |-> r, num |-> n]
  BY DEF CoreInv, SlotsNamed, SlotNamed
<1> QED BY <1>1 DEF ClientOf, Origin

\* The session the token map leads to is the session of that origin.
LEMMA ServerIs ==
    ASSUME CoreInv, NEW o \in Origins, Accepted(o)
    PROVE  /\ o.srv \in Rpcs /\ tokens[o.srv][o.token] \in 1..Len(vec[o.srv])
           /\ ServerOf(o) # Null =>
                /\ tokens[o.srv][o.token] \in Live(o.srv)
                /\ ServerOf(o) \in Session /\ ServerOf(o).role = "kServer"
                /\ ServerOf(o).token = o.token /\ Origin(ServerOf(o)) = o
<1> DEFINE r == o.srv
           k == tokens[r][o.token]
<1>1. o \in OriginType
  BY OriginsType DEF CoreInv, BaseInv
<1>2. r \in Rpcs /\ k \in 1..Len(vec[r])
  BY <1>1 DEF OriginType, CoreInv, TokensNamed, Accepted
<1>3. ASSUME ServerOf(o) # Null
      PROVE  /\ k \in Live(r) /\ vec[r][k] \in Session /\ vec[r][k].role = "kServer"
             /\ vec[r][k].token = o.token /\ Origin(vec[r][k]) = o
  <2>1. k \in Live(r)
    BY <1>2, <1>3 DEF ServerOf, Live
  <2>2. vec[r][k] \in Session
    BY <1>2, <2>1, LiveSession DEF CoreInv, BaseInv, TypeOK, VecType
  <2>3. vec[r][k].role = "kServer" /\ vec[r][k].token = o.token
    BY <1>2, <2>1 DEF CoreInv, TokensNamed, Accepted
  <2>4. Origin(vec[r][k]) \in Origins /\ Origin(vec[r][k]).token = o.token
    BY <1>2, <2>1, <2>3, HasOrigin DEF Origin
  <2>5. Origin(vec[r][k]) = o
    BY <2>4 DEF CoreInv, OriginsAgree
  <2> QED BY <2>1, <2>2, <2>3, <2>5
<1> QED BY <1>2, <1>3 DEF ServerOf

-------------------------------------------------------------------------------
(***************************************************************************)
(* An entry of a vector changes: a client session moves to another state,  *)
(* or a session of either role is buried.                                  *)
(***************************************************************************)
\* The step replaces session n of r by v and sends packets of known origin.
Replaces(r, n, v) ==
    /\ r \in Rpcs /\ n \in Live(r)
    /\ Updated(r, n, v)
    /\ UNCHANGED <<hook, tokens, created>>
    /\ v # Null => /\ v \in Session /\ v.role = "kClient" /\ vec[r][n].role = "kClient"
                   /\ Origin(v) = Origin(vec[r][n])
    /\ \A p \in udp' : p \in udp \/ Origin(p) \in Origins

\* What the other entries see of the step.
LEMMA Elsewhere ==
    ASSUME CoreInv, NEW r, NEW n, NEW v, Replaces(r, n, v)
    PROVE  /\ \A q \in Rpcs : Len(vec'[q]) = Len(vec[q])
           /\ \A q \in Rpcs : \A k \in 1..Len(vec[q]) :
                <<q, k>> # <<r, n>> => vec'[q][k] = vec[q][k]
           /\ vec'[r][n] = v /\ vec[r][n] # Null
           /\ \A q \in Rpcs : \A k \in Live(q)' :
                /\ k \in Live(q)
                /\ <<q, k>> # <<r, n>> => vec'[q][k] = vec[q][k]
                /\ <<q, k>> = <<r, n>> => vec'[q][k] = v /\ v # Null
<1>1. r \in Rpcs /\ n \in Live(r) /\ Updated(r, n, v)
  BY DEF Replaces
<1>2. /\ \A q \in Rpcs : Len(vec'[q]) = Len(vec[q])
      /\ \A q \in Rpcs : \A k \in 1..Len(vec[q]) :
           <<q, k>> # <<r, n>> => vec'[q][k] = vec[q][k]
      /\ vec'[r][n] = v /\ vec[r][n] # Null
  BY <1>1 DEF Updated, Live
<1>3. ASSUME NEW q \in Rpcs, NEW k \in Live(q)'
      PROVE  k \in Live(q) /\ k \in 1..Len(vec[q]) /\ vec'[q][k] # Null
  BY <1>1, <1>2, <1>3 DEF Updated, Live
<1> QED BY <1>2, <1>3

LEMMA ReplaceOrigins ==
    ASSUME CoreInv, NEW r, NEW n, NEW v, Replaces(r, n, v)
    PROVE  Origins' \subseteq Origins
<1> SUFFICES ASSUME NEW o \in Origins' PROVE o \in Origins
  OBVIOUS
<1>1. CASE \E m \in udp' : o = Origin(m)
  BY <1>1, HasOrigin DEF Replaces
<1>2. CASE \E q \in Rpcs : \E k \in Live(q)' : o = Origin(vec'[q][k])
  <2>0. PICK q \in Rpcs : \E k \in Live(q)' : o = Origin(vec'[q][k])
    BY <1>2
  <2>1. PICK k \in Live(q)' : o = Origin(vec'[q][k])
    BY <2>0
  <2>2. CASE <<q, k>> # <<r, n>>
    BY <2>1, <2>2, Elsewhere, HasOrigin
  <2>3. CASE <<q, k>> = <<r, n>>
    BY <2>1, <2>3, Elsewhere, HasOrigin DEF Replaces
  <2> QED BY <2>2, <2>3
<1> QED BY <1>1, <1>2 DEF Origins, Sessions, Origin

LEMMA ReplaceSlots ==
    ASSUME CoreInv, NEW r, NEW n, NEW v, Replaces(r, n, v)
    PROVE  NotBuilt' /\ OriginsAgree' /\ SlotsNamed' /\ TokensNamed' /\ ClientSlots'
<1> USE DEF CoreInv
<1>0. r \in Rpcs /\ n \in Live(r) /\ n \in 1..Len(vec[r]) /\ UNCHANGED <<hook, tokens, created>>
  BY DEF Replaces, Live
<1>1. NotBuilt'
  <2>1. hook[r]
    <3>1. vec[r] # <<>>
      BY <1>0
    <3> QED BY <1>0, <3>1 DEF NotBuilt
  <2>2. \A q \in Rpcs \ {r} : vec'[q] = vec[q]
    BY DEF Replaces, Updated
  <2> QED BY <1>0, <2>1, <2>2 DEF NotBuilt
<1>2. Origins' \subseteq Origins
  BY ReplaceOrigins
<1>3. Origins \subseteq OriginType
  BY OriginsType DEF BaseInv
<1>4. OriginsAgree'
  <2>1. \A o \in Origins : Len(vec'[o.client.rpc]) = Len(vec[o.client.rpc])
    BY <1>3, Elsewhere DEF OriginType, Endpoint
  <2> QED BY <1>0, <1>2, <2>1 DEF OriginsAgree
<1>5. SlotsNamed'
  <2> SUFFICES ASSUME NEW q \in Rpcs, NEW k \in Live(q)' PROVE SlotNamed(q, k)'
    BY DEF SlotsNamed
  <2>1. k \in Live(q) /\ SlotNamed(q, k)
    BY Elsewhere DEF SlotsNamed
  <2>2. CASE <<q, k>> # <<r, n>>
    <3>1. vec'[q][k] = vec[q][k]
      BY <2>2, Elsewhere
    <3> QED BY <1>0, <2>1, <3>1 DEF SlotNamed
  <2>3. CASE <<q, k>> = <<r, n>>
    <3>1. vec'[q][k] = v /\ v.role = "kClient" /\ vec[q][k].role = "kClient"
          /\ Origin(v) = Origin(vec[q][k])
      BY <2>3, Elsewhere DEF Replaces
    <3>2. v.client = vec[q][k].client
      BY <3>1 DEF Origin
    <3> QED BY <2>1, <3>1, <3>2 DEF SlotNamed
  <2> QED BY <2>2, <2>3
<1>6. TokensNamed'
  <2> SUFFICES ASSUME NEW q \in Rpcs, NEW t \in DOMAIN tokens[q]
               PROVE  LET k == tokens[q][t]
                      IN  /\ t \in 1..created /\ k \in 1..Len(vec'[q])
                          /\ k \in Live(q)' => vec'[q][k].role = "kServer" /\ vec'[q][k].token = t
    BY <1>0 DEF TokensNamed
  <2> DEFINE k == tokens[q][t]
  <2>1. t \in 1..created /\ k \in 1..Len(vec[q])
        /\ (k \in Live(q) => vec[q][k].role = "kServer" /\ vec[q][k].token = t)
    BY DEF TokensNamed
  <2>2. ASSUME k \in Live(q)' PROVE vec'[q][k].role = "kServer" /\ vec'[q][k].token = t
    <3>1. k \in Live(q)
      BY <2>2, Elsewhere
    <3>2. <<q, k>> # <<r, n>>
      BY <2>1, <2>2, <3>1, Elsewhere DEF Replaces
    <3> QED BY <2>1, <2>2, <3>1, <3>2, Elsewhere
  <2> QED BY <2>1, <2>2, Elsewhere
<1>7. ClientSlots'
  <2> SUFFICES ASSUME NEW o \in Origins, ClientOf(o)' # Null
               PROVE  ClientOf(o)'.role = "kClient"
    BY <1>2 DEF ClientSlots
  <2> DEFINE q == o.client.rpc
             k == o.client.num
  <2>1. q \in Rpcs /\ k \in 1..Len(vec[q]) /\ ClientOf(o)' = vec'[q][k]
    BY <1>3 DEF OriginType, Endpoint, OriginsAgree, ClientOf
  <2>2. CASE <<q, k>> # <<r, n>>
    BY <2>1, <2>2, Elsewhere DEF ClientSlots, ClientOf
  <2>3. CASE <<q, k>> = <<r, n>>
    BY <2>1, <2>3, Elsewhere DEF Replaces
  <2> QED BY <2>2, <2>3
<1> QED BY <1>1, <1>4, <1>5, <1>6, <1>7

\* The two sessions of an origin, after the step.
LEMMA ClientView ==
    ASSUME CoreInv, NEW r, NEW n, NEW v, Replaces(r, n, v), NEW o \in Origins
    PROVE  \/ ClientOf(o)' = ClientOf(o) /\ o.client # [rpc |-> r, num |-> n]
           \/ /\ ClientOf(o) = vec[r][n] /\ ClientOf(o)' = v
              /\ o = Origin(vec[r][n]) /\ vec[r][n].role = "kClient"
<1>0. vec[r][n] # Null
  BY DEF Replaces, Live
<1>1. o \in OriginType
  BY OriginsType DEF CoreInv, BaseInv
<1>2. o.client.rpc \in Rpcs /\ o.client.num \in 1..Len(vec[o.client.rpc])
      /\ o.client = [rpc |-> o.client.rpc, num |-> o.client.num]
  BY <1>1 DEF OriginType, Endpoint, CoreInv, OriginsAgree
<1>3. CASE o.client # [rpc |-> r, num |-> n]
  <2>1. <<o.client.rpc, o.client.num>> # <<r, n>>
    BY <1>2, <1>3
  <2> QED BY <1>2, <1>3, <2>1, Elsewhere DEF ClientOf
<1>4. CASE o.client = [rpc |-> r, num |-> n]
  <2>1. ClientOf(o) = vec[r][n] /\ ClientOf(o)' = v
    BY <1>4, Elsewhere DEF ClientOf
  <2>2. o = Origin(vec[r][n]) /\ vec[r][n].role = "kClient"
    BY <1>0, <2>1, ClientIs
  <2> QED BY <2>1, <2>2
<1> QED BY <1>3, <1>4

LEMMA ServerView ==
    ASSUME CoreInv, NEW r, NEW n, NEW v, Replaces(r, n, v), NEW o \in Origins, Accepted(o)
    PROVE  /\ Accepted(o)'
           /\ ServerOf(o) = Null => ServerOf(o)' = Null
           /\ \/ ServerOf(o)' = ServerOf(o)
              \/ v = Null /\ o = Origin(vec[r][n]) /\ vec[r][n].role = "kServer"
<1>0. vec[r][n] # Null /\ tokens' = tokens
  BY DEF Replaces, Live
<1>1. o.srv \in Rpcs /\ tokens[o.srv][o.token] \in 1..Len(vec[o.srv])
  BY ServerIs
<1>2. CASE <<o.srv, tokens[o.srv][o.token]>> # <<r, n>>
  BY <1>0, <1>1, <1>2, Elsewhere DEF ServerOf, Accepted
<1>3. CASE <<o.srv, tokens[o.srv][o.token]>> = <<r, n>>
  <2>1. ServerOf(o) = vec[r][n] /\ ServerOf(o)' = v
    BY <1>0, <1>3, Elsewhere DEF ServerOf
  <2>2. o = Origin(vec[r][n]) /\ vec[r][n].role = "kServer"
    BY <1>0, <2>1, ServerIs
  <2>3. v = Null
    BY <2>2 DEF Replaces
  <2> QED BY <1>0, <2>1, <2>2, <2>3 DEF Accepted
<1> QED BY <1>2, <1>3

\* Packets keep their meaning: a session that was given up is not taken up again.
LEMMA ReplacePackets ==
    ASSUME CoreInv, NEW r, NEW n, NEW v, Replaces(r, n, v),
           v # Null /\ vec[r][n].state = "kDisconnectInProgress"
             => v.state = "kDisconnectInProgress",
           \A p \in udp' : p \in udp \/ PacketNamed(p)'
    PROVE  PacketsNamed'
<1> SUFFICES ASSUME NEW p \in udp PROVE PacketNamed(p)'
  BY DEF PacketsNamed
<1>7. PICK o : o = Origin(p)
  OBVIOUS
<1>1. o \in Origins /\ PacketNamed(p)
  BY <1>7, HasOrigin DEF CoreInv, PacketsNamed
<1>2. tokens' = tokens /\ vec[r][n] # Null
  BY DEF Replaces, Live
<1>3. ServerNamed(p)' <=> ServerNamed(p)
  BY <1>2 DEF ServerNamed, Accepted
<1>4. ServerNamed(p) => Accepted(o)
  BY <1>7 DEF ServerNamed
<1>5. ServerOf(o) = Null /\ Accepted(o) => ServerOf(o)' = Null
  BY <1>1, ServerView
<1>6. (ClientOf(o) # Null => ClientOf(o).state = "kDisconnectInProgress") =>
        (ClientOf(o)' # Null => ClientOf(o)'.state = "kDisconnectInProgress")
  <2>1. ClientOf(o)' = ClientOf(o) \/ (ClientOf(o) = vec[r][n] /\ ClientOf(o)' = v)
    BY ZenonT(60), <1>1, ClientView
  <2>2. CASE ClientOf(o)' = ClientOf(o)
    BY <2>2
  <2>3. CASE ClientOf(o) = vec[r][n] /\ ClientOf(o)' = v
    BY <1>2, <2>3
  <2> QED BY <2>1, <2>2, <2>3
<1> QED BY <1>1, <1>3, <1>4, <1>5, <1>6, <1>7 DEF PacketNamed

\* Client sessions other than n of r are still served, unless the session that
\* serves one of them is buried.
LEMMA ReplaceServed ==
    ASSUME CoreInv, NEW r, NEW n, NEW v, Replaces(r, n, v),
           v # Null => ClientServed(v)',
           vec[r][n].role = "kServer" =>
             LET o == Origin(vec[r][n])
             IN  ClientOf(o) # Null => ClientOf(o).state = "kDisconnectInProgress"
    PROVE  ClientsServed'
<1> SUFFICES ASSUME NEW q \in Rpcs, NEW k \in Live(q)', NEW s, s = vec'[q][k]
             PROVE  ClientServed(s)'
  BY DEF ClientsServed, ClientServed, ServerNamed, ServerOf, Accepted, Origin
<1>1. CASE <<q, k>> = <<r, n>>
  BY <1>1, Elsewhere
<1>2. CASE <<q, k>> # <<r, n>>
  <2>0. PICK o : o = Origin(s)
    OBVIOUS
  <2>1. k \in Live(q) /\ vec[q][k] = s /\ s # Null
    BY <1>2, Elsewhere DEF Live
  <2> SUFFICES ASSUME s.role = "kClient" PROVE ClientServed(s)'
    BY <2>1 DEF ClientServed
  <2>2. o \in Origins /\ ClientServed(s)
    BY <2>0, <2>1, HasOrigin DEF CoreInv, ClientsServed
  <2>3. ClientOf(o) = s
    BY <2>0, <2>1, ClientSelf
  <2>4. ServerNamed(s)' <=> ServerNamed(s)
    BY DEF ServerNamed, Accepted, Replaces
  <2>5. Accepted(o)' <=> Accepted(o)
    BY <2>2 DEF Accepted, Replaces
  <2>6. s.state # "kDisconnectInProgress" /\ Accepted(o) /\ ServerOf(o) # Null
          => ServerOf(o)' # Null
    <3>1. Accepted(o) => \/ ServerOf(o)' = ServerOf(o)
                         \/ o = Origin(vec[r][n]) /\ vec[r][n].role = "kServer"
      BY <2>2, ServerView
    <3>2. o = Origin(vec[r][n]) /\ vec[r][n].role = "kServer"
            => s.state = "kDisconnectInProgress"
      BY <2>0, <2>1, <2>3
    <3> QED BY <3>1, <3>2
  <2> QED BY <2>0, <2>2, <2>4, <2>5, <2>6 DEF ClientServed
<1> QED BY <1>1, <1>2

\* The callbacks of the other sessions do not change.
LEMMA ReplaceEvents ==
    ASSUME CoreInv, NEW r, NEW n, NEW v, Replaces(r, n, v), TypeOK',
           \A t \in Token : t = vec[r][n].token \/ events'[t] = events[t],
           vec[r][n].role = "kClient" =>
             \A o \in Origins : o = Origin(vec[r][n]) => EventTells(o)',
           vec[r][n].role = "kServer" => events' = events
    PROVE  EventsTell'
<1>0. created' = created /\ n \in Live(r) /\ r \in Rpcs
  BY DEF Replaces
<1>1. ASSUME NEW t \in Token, t > created PROVE events'[t] = <<>>
  <2>1. Origin(vec[r][n]) \in Origins
    BY <1>0, HasOrigin
  <2>2. Origin(vec[r][n]).token = vec[r][n].token
    BY DEF Origin
  <2>3. vec[r][n].token \in 1..created
    BY <2>1, <2>2 DEF CoreInv, OriginsAgree
  <2>4. created \in Nat /\ t \in Nat
    BY SmAssumption DEF CoreInv, BaseInv, TypeOK, Token
  <2>5. t # vec[r][n].token
    BY <1>1, <2>3, <2>4
  <2> QED BY <1>1, <2>5 DEF CoreInv, EventsTell
<1>2. ASSUME NEW o \in Origins PROVE EventTells(o)'
  <2>0. EventTells(o) /\ o.token \in Token
    BY OriginsType DEF CoreInv, EventsTell, BaseInv, OriginType
  <2>1. CASE o = Origin(vec[r][n]) /\ vec[r][n].role = "kClient"
    BY <2>1
  <2>2. CASE ClientOf(o)' = ClientOf(o) /\ o.client # [rpc |-> r, num |-> n]
    <3>1. events'[o.token] = events[o.token]
      <4>1. CASE vec[r][n].role = "kServer"
        BY <4>1
      <4>2. CASE vec[r][n].role = "kClient"
        <5>1. Origin(vec[r][n]) \in Origins /\ vec[r][n].client = [rpc |-> r, num |-> n]
          BY <1>0, <4>2, HasOrigin, ClientSelf
        <5>2. Origin(vec[r][n]) # o
          BY <2>2, <5>1 DEF Origin
        <5>3. Origin(vec[r][n]).token # o.token
          BY <5>1, <5>2 DEF CoreInv, OriginsAgree
        <5> QED BY <2>0, <5>3 DEF Origin
      <4> QED BY <1>0, <4>1, <4>2, LiveSession DEF CoreInv, BaseInv, TypeOK, VecType, Session
    <3>2. Accepted(o) /\ ServerOf(o) = Null => Accepted(o)' /\ ServerOf(o)' = Null
      BY ServerView
    <3> QED BY <2>0, <2>2, <3>1, <3>2 DEF EventTells
  <2> QED BY <2>1, <2>2, ClientView
<1> QED BY <1>0, <1>1, <1>2, ReplaceOrigins DEF EventsTell

\* A client gives a session up, knowing the server's endpoint.
LEMMA CoreStart ==
    ASSUME CoreInv, BaseInv', NEW r \in Rpcs, NEW n \in Live(r), vec[r][n].role = "kClient",
           NEW srv \in Endpoint, srv.rpc = vec[r][n].server.rpc,
           vec[r][n].token \in DOMAIN tokens[srv.rpc],
           srv.num = tokens[srv.rpc][vec[r][n].token],
           StartDisconnect(r, n, srv), UNCHANGED <<hook, tokens, created, events>>
    PROVE  CoreInv'
<1>1. PICK s : s = vec[r][n]
  OBVIOUS
<1>2. PICK v : v = Moved(s, "kDisconnectInProgress", srv)
  OBVIOUS
<1>3. v \in Session /\ Updated(r, n, v) /\ udp' = udp \cup {SmReq(v)} /\ v # Null
  BY <1>1, <1>2, StartDisconnectEffect, NullAssumption DEF CoreInv, BaseInv
<1>4. /\ s \in Session /\ s # Null /\ s.role = "kClient"
      /\ s.client = [rpc |-> r, num |-> n]
  BY <1>1, LiveSession, ClientSelf DEF CoreInv, BaseInv, TypeOK, VecType, Live
<1>5. /\ v.role = "kClient" /\ v.state = "kDisconnectInProgress" /\ v.server = srv
      /\ v.token = s.token /\ v.client = s.client /\ Origin(v) = Origin(s)
  BY <1>1, <1>2, <1>4 DEF Moved, Origin
<1>6. PICK o : o = Origin(s)
  OBVIOUS
<1>7. o \in Origins /\ o.client = [rpc |-> r, num |-> n] /\ o.token = s.token
  BY <1>1, <1>4, <1>6, HasOrigin DEF Origin
<1>8. PICK p : p = SmReq(v)
  OBVIOUS
<1>9. /\ p.type = "kDisconnectReq" /\ p.token = v.token /\ p.client = v.client
      /\ p.server = v.server
  BY <1>3, <1>5, <1>8, SmReqType
<1>10. Origin(p) = o
  BY <1>5, <1>6, <1>9 DEF Origin
<1>11. Replaces(r, n, v)
  BY <1>1, <1>3, <1>5, <1>6, <1>7, <1>8, <1>10 DEF Replaces
<1>12. ClientOf(o)' = v
  BY <1>7, <1>3 DEF ClientOf, Updated
<1>13. ServerNamed(v)' /\ ServerNamed(p)'
  BY <1>1, <1>5, <1>9 DEF ServerNamed, Accepted, Origin
<1>14. PacketNamed(p)'
  BY <1>5, <1>9, <1>10, <1>12, <1>13 DEF PacketNamed
<1>15. PacketsNamed'
  <2>1. \A x \in udp' : x \in udp \/ PacketNamed(x)'
    BY <1>3, <1>8, <1>14
  <2> QED BY <1>5, <1>11, <2>1, ReplacePackets
<1>16. ClientsServed'
  <2>1. ClientServed(v)'
    BY <1>5, <1>13 DEF ClientServed
  <2> QED BY <1>1, <1>4, <1>11, <2>1, ReplaceServed
<1>17. EventsTell'
  <2>1. EventTells(o)
    BY <1>7 DEF CoreInv, EventsTell
  <2>2. ClientOf(o) = s
    BY <1>1, <1>7 DEF ClientOf
  <2>3. EventTells(o)'
    BY <1>3, <1>4, <1>5, <1>12, <2>1, <2>2 DEF EventTells
  <2> QED BY <1>1, <1>4, <1>6, <1>11, <2>3, ReplaceEvents DEF BaseInv
<1> QED BY <1>11, <1>15, <1>16, <1>17, ReplaceSlots DEF CoreInv

\* The client takes the server's endpoint from an accepting response.
LEMMA CoreFinish ==
    ASSUME CoreInv, BaseInv', NEW m \in udp, m.type = "kConnectResp",
           m.client.num \in 1..Len(vec[m.client.rpc]), FinishConnect(m.client.rpc, m),
           UNCHANGED <<hook, tokens, created>>
    PROVE  CoreInv'
<1>0. PICK r, n : r = m.client.rpc /\ n = m.client.num
  OBVIOUS
<1>1. m \in SmPkt /\ r \in Rpcs /\ m.client = [rpc |-> r, num |-> n] /\ m.server \in Endpoint
  BY <1>0, PacketFacts DEF CoreInv, SmPkt, Endpoint
<1>2. PICK s : s = vec[r][n]
  OBVIOUS
<1>3. PICK v : v = Moved(s, "kConnected", m.server)
  OBVIOUS
<1>4. n \in Live(r) /\ v \in Session /\ v # Null /\ Updated(r, n, v) /\ udp' = udp
  BY <1>0, <1>1, <1>2, <1>3, FinishConnectEffect, NullAssumption
     DEF CoreInv, BaseInv, FinishConnect
<1>5. PICK o : o = Origin(m)
  OBVIOUS
<1>6. /\ o \in Origins /\ ClientOf(o) = s /\ s # Null
      /\ s.state = "kConnectInProgress" /\ m.err = "kNoError"
  BY <1>0, <1>2, <1>5, HasOrigin DEF Origin, ClientOf, FinishConnect, Connecting
<1>7. s \in Session /\ s.role = "kClient" /\ Origin(s) = o
  BY <1>6, ClientIs
<1>8. /\ v.role = "kClient" /\ v.state = "kConnected" /\ v.server = m.server
      /\ v.token = s.token /\ v.client = s.client
  BY <1>3, <1>7 DEF Moved
<1>9. s.token = m.token /\ s.client = m.client /\ s.server.rpc = m.server.rpc
      /\ o.token = m.token
  BY <1>5, <1>7 DEF Origin
<1>10. Origin(v) = o
  BY <1>5, <1>8, <1>9 DEF Origin
<1>11. Replaces(r, n, v)
  BY <1>1, <1>2, <1>4, <1>7, <1>8, <1>10 DEF Replaces
<1>12. ServerNamed(m)
  BY <1>6 DEF CoreInv, PacketsNamed, PacketNamed
<1>13. Accepted(o) /\ ServerNamed(v)'
  BY <1>5, <1>8, <1>9, <1>12 DEF ServerNamed, Accepted, Origin
<1>14. PacketsNamed'
  BY <1>2, <1>4, <1>6, <1>11, ReplacePackets
<1>15. ClientsServed'
  <2>1. ClientServed(s)
    BY <1>1, <1>2, <1>4 DEF CoreInv, ClientsServed
  <2>2. ServerOf(o) # Null
    BY <1>6, <1>7, <1>13, <2>1 DEF ClientServed
  <2>3. ServerOf(o)' = ServerOf(o)
    BY <1>4, <1>6, <1>11, <1>13, ServerView
  <2>4. ClientServed(v)'
    BY <1>8, <1>10, <1>13, <2>2, <2>3 DEF ClientServed
  <2> QED BY <1>2, <1>7, <1>11, <2>4, ReplaceServed
<1>16. EventsTell'
  <2>0. s.token \in Token /\ Callback(s.token, "kConnected")
    BY <1>0, <1>2, <1>7 DEF Session, FinishConnect
  <2>1. events[s.token] = <<>>
    BY <1>6, <1>9 DEF CoreInv, EventsTell, EventTells
  <2>2. /\ events'[s.token] = Append(events[s.token], "kConnected")
        /\ \A u \in Token \ {s.token} : events'[u] = events[u]
    BY <2>0, CallbackEffect DEF CoreInv, BaseInv
  <2>3. events'[s.token] = <<"kConnected">>
    BY <2>1, <2>2
  <2>4. ClientOf(o)' = v
    BY <1>0, <1>4, <1>5 DEF ClientOf, Updated, Origin
  <2>5. EventTells(o)'
    BY <1>4, <1>8, <1>9, <2>3, <2>4 DEF EventTells
  <2> QED BY SMTT(60), <1>2, <1>7, <1>11, <2>2, <2>5, ReplaceEvents DEF BaseInv
<1> QED BY <1>11, <1>14, <1>15, <1>16, ReplaceSlots DEF CoreInv

\* A client session ends: nobody holds its counterpart, or the client was told
\* that the connection failed.
LEMMA CoreBuryClient ==
    ASSUME CoreInv, BaseInv', NEW m \in udp, NEW r \in Rpcs, NEW n,
           m.client = [rpc |-> r, num |-> n], n \in Live(r),
           bury_session_st(r, n), UNCHANGED <<hook, tokens, created, udp>>,
           NEW e \in {"kConnectFailed", "kDisconnected"}, Callback(vec[r][n].token, e),
           e = "kConnectFailed" => vec[r][n].state = "kConnectInProgress",
           e = "kDisconnected" => m.type = "kDisconnectResp"
    PROVE  CoreInv'
<1>1. PICK s : s = vec[r][n]
  OBVIOUS
<1>2. Updated(r, n, Null) /\ s # Null
  BY <1>1, BuryEffect DEF CoreInv, BaseInv, Live
<1>3. PICK o : o = Origin(m)
  OBVIOUS
<1>4. o \in Origins /\ ClientOf(o) = s /\ o.token = m.token /\ o.client = m.client
  BY <1>1, <1>3, HasOrigin DEF Origin, ClientOf
<1>5. s \in Session /\ s.role = "kClient" /\ Origin(s) = o
  BY <1>2, <1>4, ClientIs
<1>6. s.token = o.token /\ s.token \in Token
  BY <1>5 DEF Origin, Session
<1>7. Replaces(r, n, Null)
  BY <1>2 DEF Replaces
<1>8. PacketsNamed'
  BY <1>7, ReplacePackets
<1>9. ClientsServed'
  BY <1>1, <1>5, <1>7, ReplaceServed
<1>10. EventsTell'
  <2>1. /\ events'[s.token] = Append(events[s.token], e)
        /\ \A u \in Token \ {s.token} : events'[u] = events[u]
    BY <1>1, <1>6, CallbackEffect DEF CoreInv, BaseInv
  <2>2. ClientOf(o)' = Null
    BY <1>2, <1>4 DEF ClientOf, Updated
  <2>3. EventTells(o)
    BY <1>4 DEF CoreInv, EventsTell
  <2>4. CASE e = "kConnectFailed"
    <3>1. events[s.token] = <<>>
      BY <1>1, <1>2, <1>4, <1>6, <2>3, <2>4 DEF EventTells
    <3>2. events'[o.token] = <<"kConnectFailed">>
      BY <1>6, <2>1, <2>4, <3>1
    <3>3. EventTells(o)'
      BY <2>2, <3>2 DEF EventTells
    <3> QED BY <1>1, <1>5, <1>7, <2>1, <3>3, ReplaceEvents DEF BaseInv
  <2>5. CASE e = "kDisconnected"
    <3>1. ServerNamed(m) /\ ServerOf(o) = Null
      BY <1>3, <2>5 DEF CoreInv, PacketsNamed, PacketNamed
    <3>2. Accepted(o)
      BY <1>3, <3>1 DEF ServerNamed
    <3>3. Accepted(o)' /\ ServerOf(o)' = Null
      BY <1>4, <1>7, <3>1, <3>2, ServerView
    <3>4. EventTells(o)'
      BY <2>2, <3>3 DEF EventTells
    <3> QED BY <1>1, <1>5, <1>7, <2>1, <3>4, ReplaceEvents DEF BaseInv
  <2> QED BY <2>4, <2>5
<1> QED BY <1>7, <1>8, <1>9, <1>10, ReplaceSlots DEF CoreInv

\* The server buries a session that its client has given up.
LEMMA CoreBuryServer ==
    ASSUME CoreInv, BaseInv', NEW m \in udp, m.type = "kDisconnectReq",
           NEW r, NEW n, m.server.rpc = r, m.server.num = n, n \in Live(r),
           bury_session_st(r, n), UNCHANGED <<hook, tokens, created, events>>,
           udp' = udp \cup {sm_construct_resp(m, "kNoError", m.server)}
    PROVE  CoreInv'
<1>0. m \in SmPkt /\ r \in Rpcs /\ m.server \in Endpoint
  BY PacketFacts DEF CoreInv
<1>1. PICK s : s = vec[r][n]
  OBVIOUS
<1>2. Updated(r, n, Null) /\ s # Null
  BY <1>0, <1>1, BuryEffect DEF CoreInv, BaseInv, Live
<1>3. PICK o : o = Origin(m)
  OBVIOUS
<1>4. /\ o \in Origins /\ o.token = m.token /\ o.client = m.client /\ o.srv = r
      /\ PacketNamed(m)
  BY <1>3, HasOrigin DEF Origin, CoreInv, PacketsNamed
<1>5. Accepted(o) /\ tokens[r][o.token] = n
  BY <1>3, <1>4 DEF PacketNamed, ServerNamed
<1>6. ServerOf(o) = s /\ s.role = "kServer" /\ Origin(s) = o
  BY <1>1, <1>2, <1>4, <1>5, ServerIs DEF ServerOf
<1>7. PICK a : a = sm_construct_resp(m, "kNoError", m.server)
  OBVIOUS
<1>8. /\ a.type = "kDisconnectResp" /\ a.token = m.token /\ a.client = m.client
      /\ a.server = m.server
  BY <1>7 DEF sm_construct_resp
<1>9. Origin(a) = o
  BY <1>3, <1>8 DEF Origin
<1>10. Replaces(r, n, Null)
  BY <1>0, <1>2, <1>4, <1>7, <1>9 DEF Replaces
<1>11. PacketsNamed'
  <2>1. ServerOf(o)' = Null
    BY <1>2, <1>4, <1>5 DEF ServerOf, Updated
  <2>2. ServerNamed(a)'
    BY <1>3, <1>4, <1>5, <1>8 DEF ServerNamed, Accepted, Origin
  <2>3. ClientOf(o)' # Null => ClientOf(o)'.state = "kDisconnectInProgress"
    <3>1. ClientOf(o) # Null => ClientOf(o).state = "kDisconnectInProgress"
      BY <1>3, <1>4 DEF PacketNamed
    <3>2. \/ ClientOf(o)' = ClientOf(o) /\ o.client # [rpc |-> r, num |-> n]
          \/ /\ ClientOf(o) = vec[r][n] /\ ClientOf(o)' = Null
             /\ o = Origin(vec[r][n]) /\ vec[r][n].role = "kClient"
      BY <1>4, <1>10, ClientView
    <3> QED BY <3>1, <3>2
  <2>4. PacketNamed(a)'
    BY <1>8, <1>9, <2>1, <2>2, <2>3 DEF PacketNamed
  <2>5. \A x \in udp' : x \in udp \/ PacketNamed(x)'
    BY <1>7, <2>4
  <2> QED BY <1>10, <2>5, ReplacePackets
<1>12. ClientsServed'
  <2>1. ClientOf(o) # Null => ClientOf(o).state = "kDisconnectInProgress"
    BY <1>3, <1>4 DEF PacketNamed
  <2> QED BY <1>1, <1>6, <1>10, <2>1, ReplaceServed
<1>13. EventsTell'
  BY <1>1, <1>6, <1>10, ReplaceEvents DEF BaseInv
<1> QED BY <1>10, <1>11, <1>12, <1>13, ReplaceSlots DEF CoreInv

-------------------------------------------------------------------------------
(***************************************************************************)
(* Only packets are sent, lost, or ignored.                                *)
(***************************************************************************)
LEMMA CoreQuiet ==
    ASSUME CoreInv, BaseInv', UNCHANGED <<vec, tokens, created, events>>,
           \A q \in Rpcs : hook[q] => hook'[q],
           \A p \in udp' : p \in udp \/ (Origin(p) \in Origins /\ PacketNamed(p))
    PROVE  CoreInv'
<1>0. \A q \in Rpcs : Live(q)' = Live(q)
  BY DEF Live
<1>1. Origins' \subseteq Origins
  <2> SUFFICES ASSUME NEW o \in Origins' PROVE o \in Origins
    OBVIOUS
  <2>1. CASE \E p \in udp' : o = Origin(p)
    BY <2>1, HasOrigin
  <2>2. CASE \E q \in Rpcs : \E k \in Live(q) : o = Origin(vec[q][k])
    BY <2>2, HasOrigin
  <2> QED BY <1>0, <2>1, <2>2 DEF Origins, Sessions, Origin
<1>2. /\ \A p : PacketNamed(p)' <=> PacketNamed(p)
      /\ \A o : EventTells(o)' <=> EventTells(o)
      /\ \A o : ClientOf(o)' = ClientOf(o)
  BY DEF PacketNamed, ServerNamed, EventTells, ClientOf, ServerOf, Accepted
<1>3. PacketsNamed'
  <2> SUFFICES ASSUME NEW p \in udp' PROVE PacketNamed(p)'
    BY DEF PacketsNamed
  <2> QED BY <1>2 DEF CoreInv, PacketsNamed
<1>4. EventsTell' /\ ClientSlots' /\ OriginsAgree'
  BY <1>1, <1>2 DEF CoreInv, EventsTell, ClientSlots, OriginsAgree
<1>5. SlotsNamed' /\ TokensNamed' /\ NotBuilt'
  BY <1>0 DEF CoreInv, SlotsNamed, SlotNamed, TokensNamed, NotBuilt
<1>6. ClientsServed'
  <2>1. \A s : ClientServed(s)' <=> ClientServed(s)
    BY SMTT(60) DEF ClientServed, ServerNamed, ServerOf, Accepted
  <2> SUFFICES ASSUME NEW q \in Rpcs, NEW k \in Live(q)', NEW s, s = vec'[q][k]
               PROVE  ClientServed(s)'
    BY DEF ClientsServed, ClientServed, ServerNamed, ServerOf, Accepted, Origin
  <2> QED BY <1>0, <2>1 DEF CoreInv, ClientsServed
<1> QED BY <1>3, <1>4, <1>5, <1>6 DEF CoreInv

-------------------------------------------------------------------------------
(***************************************************************************)
(* A session is appended to a vector.                                      *)
(***************************************************************************)
\* The step appends s to the vector of r and forgets no token.
Extends(r, s) ==
    /\ r \in Rpcs /\ hook[r] /\ hook' = hook
    /\ s \in Session /\ Appended(r, s)
    /\ \A q \in Rpcs : \A t \in DOMAIN tokens[q] :
         t \in DOMAIN tokens'[q] /\ tokens'[q][t] = tokens[q][t]
    /\ \A q \in Rpcs \ {r} : tokens'[q] = tokens[q]

\* What the entries that were there see of the step.
LEMMA Earlier ==
    ASSUME CoreInv, NEW r, NEW s, Extends(r, s)
    PROVE  /\ \A q \in Rpcs : \A k \in 1..Len(vec[q]) :
                k \in 1..Len(vec'[q]) /\ vec'[q][k] = vec[q][k]
           /\ \A q \in Rpcs : \A k \in Live(q)' :
                \/ k \in Live(q) /\ k \in 1..Len(vec[q]) /\ vec'[q][k] = vec[q][k]
                \/ q = r /\ k = Len(vec[r]) + 1
           /\ Len(vec[r]) \in Nat /\ Len(vec'[r]) = Len(vec[r]) + 1
           /\ vec'[r][Len(vec[r]) + 1] = s /\ s # Null
<1>1. r \in Rpcs /\ s \in Session /\ Appended(r, s)
  BY DEF Extends
<1>2. \A q \in Rpcs : Len(vec[q]) \in Nat
  BY DEF CoreInv, BaseInv, TypeOK
<1>3. \A q \in Rpcs : \A k \in 1..Len(vec[q]) :
        k \in 1..Len(vec'[q]) /\ vec'[q][k] = vec[q][k]
  BY <1>1, <1>2 DEF Appended
<1>4. ASSUME NEW q \in Rpcs, NEW k \in Live(q)'
      PROVE  \/ k \in Live(q) /\ k \in 1..Len(vec[q])
             \/ q = r /\ k = Len(vec[r]) + 1
  BY <1>1, <1>4 DEF Appended, Live
<1> QED BY <1>1, <1>2, <1>3, <1>4, NullAssumption DEF Appended

\* The sessions of a known origin are where they were.
LEMMA ExtendView ==
    ASSUME CoreInv, NEW r, NEW s, Extends(r, s), NEW o \in Origins
    PROVE  /\ ClientOf(o)' = ClientOf(o)
           /\ Accepted(o) => Accepted(o)' /\ ServerOf(o)' = ServerOf(o)
<1>1. o.client.rpc \in Rpcs /\ o.client.num \in 1..Len(vec[o.client.rpc]) /\ o.srv \in Rpcs
  BY OriginsType DEF OriginType, Endpoint, CoreInv, BaseInv, OriginsAgree
<1>2. ClientOf(o)' = ClientOf(o)
  BY <1>1, Earlier DEF ClientOf
<1>3. ASSUME Accepted(o) PROVE Accepted(o)' /\ ServerOf(o)' = ServerOf(o)
  <2>1. tokens[o.srv][o.token] \in 1..Len(vec[o.srv])
    BY <1>3, ServerIs
  <2>2. Accepted(o)' /\ tokens'[o.srv][o.token] = tokens[o.srv][o.token]
    BY <1>1, <1>3 DEF Extends, Accepted
  <2> QED BY <1>1, <2>1, <2>2, Earlier DEF ServerOf
<1> QED BY <1>2, <1>3

LEMMA ExtendOrigins ==
    ASSUME CoreInv, NEW r, NEW s, Extends(r, s), NEW o0, o0 = Origin(s),
           \A p \in udp' : p \in udp \/ Origin(p) = o0
    PROVE  Origins' \subseteq Origins \cup {o0}
<1> SUFFICES ASSUME NEW o \in Origins' PROVE o \in Origins \cup {o0}
  OBVIOUS
<1>1. CASE \E m \in udp' : o = Origin(m)
  BY <1>1, HasOrigin
<1>2. CASE \E q \in Rpcs : \E k \in Live(q)' : o = Origin(vec'[q][k])
  <2>0. PICK q \in Rpcs : \E k \in Live(q)' : o = Origin(vec'[q][k])
    BY <1>2
  <2>1. PICK k \in Live(q)' : o = Origin(vec'[q][k])
    BY <2>0
  <2>2. CASE k \in Live(q) /\ vec'[q][k] = vec[q][k]
    BY <2>1, <2>2, HasOrigin
  <2>3. CASE q = r /\ k = Len(vec[r]) + 1
    BY <2>1, <2>3, Earlier
  <2> QED BY <2>2, <2>3, Earlier
<1> QED BY <1>1, <1>2 DEF Origins, Sessions, Origin

\* The parts of the invariant about slots, when the new slot is well named.
LEMMA ExtendSlots ==
    ASSUME CoreInv, NEW r, NEW s, Extends(r, s), created' >= created, created' \in Nat,
           NEW n, n = Len(vec[r]) + 1, SlotNamed(r, n)',
           \A q \in Rpcs : \A t \in DOMAIN tokens'[q] :
             t \in DOMAIN tokens[q] \/ (/\ q = r /\ t = s.token /\ t \in 1..created'
                                        /\ tokens'[q][t] = Len(vec[r]) + 1
                                        /\ s.role = "kServer")
    PROVE  NotBuilt' /\ SlotsNamed' /\ TokensNamed'
<1>0. created \in Nat
  BY DEF CoreInv, BaseInv, TypeOK
<1>1. NotBuilt'
  <2> SUFFICES ASSUME NEW q \in Rpcs, ~hook[q] PROVE vec'[q] = <<>> /\ tokens'[q] = <<>>
    BY DEF NotBuilt, Extends
  <2>1. q # r /\ vec[q] = <<>> /\ tokens[q] = <<>>
    BY DEF Extends, CoreInv, NotBuilt
  <2>2. vec'[q] = vec[q] /\ tokens'[q] = tokens[q]
    BY <2>1 DEF Extends, Appended
  <2> QED BY <2>1, <2>2
<1>2. SlotsNamed'
  <2> SUFFICES ASSUME NEW q \in Rpcs, NEW k \in Live(q)' PROVE SlotNamed(q, k)'
    BY DEF SlotsNamed
  <2>1. CASE k \in Live(q) /\ vec'[q][k] = vec[q][k]
    <3>1. SlotNamed(q, k)
      BY <2>1 DEF CoreInv, SlotsNamed
    <3> QED BY <2>1, <3>1 DEF SlotNamed, Extends
  <2>2. CASE q = r /\ k = n
    BY <2>2
  <2> QED BY <2>1, <2>2, Earlier
<1>3. TokensNamed'
  <2> SUFFICES ASSUME NEW q \in Rpcs, NEW t \in DOMAIN tokens'[q]
               PROVE  /\ t \in 1..created' /\ tokens'[q][t] \in 1..Len(vec'[q])
                      /\ vec'[q][tokens'[q][t]].role = "kServer" \/ tokens'[q][t] \notin Live(q)'
                      /\ vec'[q][tokens'[q][t]].token = t \/ tokens'[q][t] \notin Live(q)'
    BY DEF TokensNamed
  <2>1. CASE t \in DOMAIN tokens[q]
    <3>1. tokens'[q][t] = tokens[q][t] /\ tokens[q][t] \in 1..Len(vec[q]) /\ t \in 1..created
      BY <2>1 DEF Extends, CoreInv, TokensNamed
    <3>2. tokens[q][t] \in 1..Len(vec'[q]) /\ vec'[q][tokens[q][t]] = vec[q][tokens[q][t]]
      BY <3>1, Earlier
    <3>3. tokens[q][t] \in Live(q)' => tokens[q][t] \in Live(q)
      BY <3>1, <3>2 DEF Live
    <3>4. t \in 1..created'
      BY <1>0, <3>1
    <3> QED BY <2>1, <3>1, <3>2, <3>3, <3>4 DEF CoreInv, TokensNamed
  <2>2. CASE t \notin DOMAIN tokens[q]
    <3>1. /\ q = r /\ t = s.token /\ t \in 1..created' /\ s.role = "kServer"
          /\ tokens'[q][t] = Len(vec[r]) + 1
      BY <2>2
    <3> QED BY <3>1, Earlier
  <2> QED BY <2>1, <2>2
<1> QED BY <1>1, <1>2, <1>3

\* create_session_st gives out a new token and a new session number.
LEMMA CoreCreate ==
    ASSUME CoreInv, BaseInv', NEW r \in Rpcs, NEW rem \in Rpcs, create_session_st(r, rem)
    PROVE  CoreInv'
<1>1. PICK s, n : s = NewClient(r, rem) /\ n = Len(vec[r]) + 1
  OBVIOUS
<1>2. /\ s \in Session /\ Appended(r, s) /\ udp' = udp \cup {SmReq(s)}
      /\ created' = created + 1 /\ created' \in Token
      /\ UNCHANGED <<hook, tokens, events>> /\ hook[r]
  BY <1>1, CreateEffect DEF CoreInv, BaseInv, create_session_st
<1>3. Extends(r, s)
  BY <1>2 DEF Extends
<1>4. /\ s.role = "kClient" /\ s.state = "kConnectInProgress" /\ s.token = created + 1
      /\ s.client = [rpc |-> r, num |-> n] /\ s.server = [rpc |-> rem, num |-> kInvalidSessionNum]
  BY <1>1 DEF NewClient
<1>5. PICK o0 : o0 = Origin(s)
  OBVIOUS
<1>6. o0.token = created + 1 /\ o0.client = [rpc |-> r, num |-> n] /\ o0.srv = rem
  BY <1>4, <1>5 DEF Origin
<1>7. PICK p : p = SmReq(s)
  OBVIOUS
<1>8. p.type = "kConnectReq" /\ Origin(p) = o0
  BY <1>2, <1>4, <1>5, <1>7, SmReqType DEF Origin
<1>9. Origins' \subseteq Origins \cup {o0}
  BY <1>2, <1>3, <1>5, <1>7, <1>8, ExtendOrigins
<1>10. created \in Nat /\ Len(vec[r]) \in Nat /\ Len(vec'[r]) = n /\ vec'[r][n] = s /\ s # Null
  <2>1. created \in Nat
    BY DEF CoreInv, BaseInv, TypeOK
  <2> QED BY <1>1, <1>3, <2>1, Earlier
<1>11. ClientOf(o0)' = s
  BY <1>6, <1>10 DEF ClientOf
<1>12. ~Accepted(o0) /\ ~Accepted(o0)'
  <2>1. created + 1 \notin DOMAIN tokens[rem]
    BY <1>10 DEF CoreInv, TokensNamed
  <2> QED BY <1>2, <1>6, <2>1 DEF Accepted
<1>13. NotBuilt' /\ SlotsNamed' /\ TokensNamed'
  <2>1. SlotNamed(r, n)'
    BY <1>4, <1>10 DEF SlotNamed
  <2> QED BY <1>1, <1>2, <1>3, <1>10, <2>1, ExtendSlots
<1>14. OriginsAgree'
  <2>1. ASSUME NEW o \in Origins
        PROVE  /\ o.token \in 1..created' /\ o.token # o0.token
               /\ o.client.num \in 1..Len(vec'[o.client.rpc]) /\ o.client # o0.client
    <3>1. o.token \in 1..created /\ o.client.num \in 1..Len(vec[o.client.rpc])
          /\ o.client.rpc \in Rpcs
      BY OriginsType DEF OriginType, Endpoint, CoreInv, BaseInv, OriginsAgree
    <3>2. o.client # o0.client
      BY <1>1, <1>6, <1>10, <3>1
    <3>3. o.client.num \in 1..Len(vec'[o.client.rpc])
      BY <1>3, <3>1, Earlier
    <3> QED BY <1>2, <1>6, <1>10, <3>1, <3>2, <3>3
  <2>2. o0.token \in 1..created' /\ o0.client.num \in 1..Len(vec'[o0.client.rpc])
    BY <1>1, <1>2, <1>6, <1>10
  <2> QED BY <1>9, <2>1, <2>2 DEF CoreInv, OriginsAgree
<1>15. ClientSlots'
  <2> SUFFICES ASSUME NEW o \in Origins', ClientOf(o)' # Null PROVE ClientOf(o)'.role = "kClient"
    BY DEF ClientSlots
  <2>1. CASE o \in Origins
    BY <1>3, <2>1, ExtendView DEF CoreInv, ClientSlots
  <2>2. CASE o = o0
    BY <1>4, <1>11, <2>2
  <2> QED BY <1>9, <2>1, <2>2
<1>16. PacketsNamed'
  <2> SUFFICES ASSUME NEW x \in udp' PROVE PacketNamed(x)'
    BY DEF PacketsNamed
  <2>1. CASE x \in udp
    <3>1. PICK o : o = Origin(x)
      OBVIOUS
    <3>2. o \in Origins /\ PacketNamed(x)
      BY <2>1, <3>1, HasOrigin DEF CoreInv, PacketsNamed
    <3>3. /\ ClientOf(o)' = ClientOf(o)
          /\ Accepted(o) => Accepted(o)' /\ ServerOf(o)' = ServerOf(o)
      BY <1>3, <3>2, ExtendView
    <3>4. ServerNamed(x) => ServerNamed(x)' /\ Accepted(o)
      BY <1>2, <3>1 DEF ServerNamed, Accepted
    <3> QED BY <3>1, <3>2, <3>3, <3>4 DEF PacketNamed
  <2>2. CASE x = p
    BY <1>8, <2>2 DEF PacketNamed
  <2> QED BY <1>2, <1>7, <2>1, <2>2
<1>17. ClientsServed'
  <2> SUFFICES ASSUME NEW q \in Rpcs, NEW k \in Live(q)', NEW c, c = vec'[q][k]
               PROVE  ClientServed(c)'
    BY DEF ClientsServed, ClientServed, ServerNamed, ServerOf, Accepted, Origin
  <2>1. CASE k \in Live(q) /\ vec'[q][k] = vec[q][k]
    <3>1. PICK o : o = Origin(c)
      OBVIOUS
    <3>2. o \in Origins /\ ClientServed(c)
      BY <2>1, <3>1, HasOrigin DEF CoreInv, ClientsServed
    <3>3. Accepted(o) => ServerOf(o)' = ServerOf(o)
      BY <1>3, <3>2, ExtendView
    <3>4. (Accepted(o)' <=> Accepted(o)) /\ (ServerNamed(c)' <=> ServerNamed(c))
      BY <1>2 DEF ServerNamed, Accepted
    <3> QED BY <3>1, <3>2, <3>3, <3>4 DEF ClientServed
  <2>2. CASE q = r /\ k = n
    BY <1>4, <1>5, <1>10, <1>12, <2>2 DEF ClientServed
  <2> QED BY SMTT(60), <1>1, <1>3, <2>1, <2>2, Earlier
<1>18. EventsTell'
  <2>1. ASSUME NEW t \in Token, t > created' PROVE events'[t] = <<>>
    BY <1>2, <1>10, <2>1 DEF CoreInv, EventsTell, Token
  <2>2. ASSUME NEW o \in Origins PROVE EventTells(o)'
    <3>1. EventTells(o)
      BY DEF CoreInv, EventsTell
    <3>2. /\ ClientOf(o)' = ClientOf(o)
          /\ Accepted(o) => Accepted(o)' /\ ServerOf(o)' = ServerOf(o)
      BY <1>3, ExtendView
    <3> QED BY <1>2, <3>1, <3>2 DEF EventTells
  <2>3. EventTells(o0)'
    <3>1. events[created + 1] = <<>>
      BY <1>2, <1>10 DEF CoreInv, EventsTell, Token
    <3> QED BY <1>2, <1>6, <1>10, <1>11, <3>1 DEF EventTells
  <2> QED BY <1>9, <2>1, <2>2, <2>3 DEF EventsTell
<1> QED BY <1>13, <1>14, <1>15, <1>16, <1>17, <1>18 DEF CoreInv

\* AcceptConnect enters the token in the map once.
LEMMA AcceptTokens ==
    ASSUME TypeOK, NEW r \in Rpcs, NEW m, NEW n, n = Len(vec[r]) + 1, AcceptConnect(r, m)
    PROVE  /\ \A q \in Rpcs \ {r} : tokens'[q] = tokens[q]
           /\ DOMAIN tokens'[r] = DOMAIN tokens[r] \cup {m.token}
           /\ m.token \notin DOMAIN tokens[r] /\ tokens'[r][m.token] = n
           /\ \A t \in DOMAIN tokens[r] : tokens'[r][t] = tokens[r][t]
<1>1. /\ tokens' = [tokens EXCEPT ![r] = [t \in DOMAIN tokens[r] \cup {m.token} |->
                                            IF t = m.token THEN n ELSE tokens[r][t]]]
      /\ m.token \notin DOMAIN tokens[r] /\ DOMAIN tokens = Rpcs
  BY DEF AcceptConnect, TypeOK
<1> QED BY <1>1

\* AcceptConnect creates the only server session of its origin.
LEMMA CoreAccept ==
    ASSUME CoreInv, BaseInv', NEW m \in udp, m.type = "kConnectReq", hook[m.server.rpc],
           AcceptConnect(m.server.rpc, m), UNCHANGED <<hook, created, events>>
    PROVE  CoreInv'
<1>0. PICK r, n : r = m.server.rpc /\ n = Len(vec[r]) + 1
  <2>1. PICK r : r = m.server.rpc
    OBVIOUS
  <2> QED BY <2>1
<1>1. PICK s : s = NewServer(r, m)
  OBVIOUS
<1>2. m \in SmPkt /\ r \in Rpcs /\ m.type \in Reqs
  BY <1>0, PacketFacts DEF CoreInv
<1>3. /\ s \in Session /\ Appended(r, s)
      /\ udp' = udp \cup {sm_construct_resp(m, "kNoError", s.server)}
  BY <1>0, <1>1, <1>2, AcceptEffect DEF CoreInv, BaseInv
<1>4. /\ s.role = "kServer" /\ s.state = "kConnected" /\ s.token = m.token
      /\ s.client = m.client /\ s.server = [rpc |-> r, num |-> n]
  BY <1>0, <1>1 DEF NewServer
<1>5. /\ \A q \in Rpcs \ {r} : tokens'[q] = tokens[q]
      /\ DOMAIN tokens'[r] = DOMAIN tokens[r] \cup {m.token}
      /\ m.token \notin DOMAIN tokens[r] /\ tokens'[r][m.token] = n
      /\ \A t \in DOMAIN tokens[r] : tokens'[r][t] = tokens[r][t]
  BY <1>0, <1>2, AcceptTokens DEF CoreInv, BaseInv
<1>6. Extends(r, s)
  BY <1>0, <1>2, <1>3, <1>5 DEF Extends
<1>7. PICK o0 : o0 = Origin(m)
  OBVIOUS
<1>8. o0 \in Origins /\ o0.token = m.token /\ o0.client = m.client /\ o0.srv = r
  BY <1>0, <1>7, HasOrigin DEF Origin
<1>9. Origin(s) = o0
  BY <1>0, <1>4, <1>7 DEF Origin
<1>10. PICK a : a = sm_construct_resp(m, "kNoError", s.server)
  OBVIOUS
<1>11. /\ a.type = "kConnectResp" /\ a.err = "kNoError" /\ a.token = m.token
       /\ a.client = m.client /\ a.server = s.server
  BY <1>10 DEF sm_construct_resp
<1>12. Origin(a) = o0
  BY <1>4, <1>9, <1>11 DEF Origin
<1>13. Origins' \subseteq Origins
  BY <1>3, <1>6, <1>8, <1>9, <1>10, <1>12, ExtendOrigins
<1>14. Len(vec[r]) \in Nat /\ Len(vec'[r]) = n /\ vec'[r][n] = s /\ s # Null
  BY <1>0, <1>6, Earlier
<1>15. ~Accepted(o0) /\ Accepted(o0)' /\ ServerOf(o0)' = s
  BY <1>5, <1>8, <1>14 DEF Accepted, ServerOf
<1>16. ASSUME NEW o \in Origins, o # o0
       PROVE  /\ Accepted(o)' <=> Accepted(o)
              /\ Accepted(o) => tokens'[o.srv][o.token] = tokens[o.srv][o.token]
  <2>1. o.token # m.token /\ o.srv \in Rpcs
    BY <1>8, <1>16, OriginsType DEF CoreInv, BaseInv, OriginsAgree, OriginType
  <2> QED BY <1>5, <2>1 DEF Accepted
<1>17. m.token \in 1..created /\ created \in Nat
  BY <1>8 DEF CoreInv, OriginsAgree, BaseInv, TypeOK
<1>18. NotBuilt' /\ SlotsNamed' /\ TokensNamed'
  <2>1. SlotNamed(r, n)'
    BY <1>4, <1>5, <1>14 DEF SlotNamed
  <2> QED BY <1>0, <1>4, <1>5, <1>6, <1>17, <2>1, ExtendSlots
<1>19. OriginsAgree'
  <2>1. ASSUME NEW o \in Origins
        PROVE  o.client.num \in 1..Len(vec'[o.client.rpc])
    <3>1. o.client.num \in 1..Len(vec[o.client.rpc]) /\ o.client.rpc \in Rpcs
      BY OriginsType DEF OriginType, Endpoint, CoreInv, BaseInv, OriginsAgree
    <3> QED BY <1>6, <3>1, Earlier
  <2> QED BY <1>13, <2>1 DEF CoreInv, OriginsAgree
<1>20. ClientSlots'
  <2> SUFFICES ASSUME NEW o \in Origins', ClientOf(o)' # Null PROVE ClientOf(o)'.role = "kClient"
    BY DEF ClientSlots
  <2> QED BY <1>6, <1>13, ExtendView DEF CoreInv, ClientSlots
<1>21. PacketsNamed'
  <2> SUFFICES ASSUME NEW x \in udp' PROVE PacketNamed(x)'
    BY DEF PacketsNamed
  <2>1. CASE x \in udp
    <3>1. PICK o : o = Origin(x)
      OBVIOUS
    <3>2. o \in Origins /\ PacketNamed(x) /\ o.srv = x.server.rpc /\ o.token = x.token
      BY <2>1, <3>1, HasOrigin DEF CoreInv, PacketsNamed, Origin
    <3>3. /\ ClientOf(o)' = ClientOf(o)
          /\ Accepted(o) => Accepted(o)' /\ ServerOf(o)' = ServerOf(o)
      BY <1>6, <3>2, ExtendView
    <3>4. ServerNamed(x) => ServerNamed(x)' /\ Accepted(o)
      BY <1>15, <1>16, <3>1, <3>2 DEF ServerNamed
    <3> QED BY <3>1, <3>2, <3>3, <3>4 DEF PacketNamed
  <2>2. CASE x = a
    <3>1. ServerNamed(a)'
      BY <1>4, <1>5, <1>11, <1>12, <1>15 DEF ServerNamed
    <3> QED BY <1>11, <2>2, <3>1 DEF PacketNamed
  <2> QED BY <1>3, <1>10, <2>1, <2>2
<1>22. ClientsServed'
  <2> SUFFICES ASSUME NEW q \in Rpcs, NEW k \in Live(q)', NEW c, c = vec'[q][k]
               PROVE  ClientServed(c)'
    BY DEF ClientsServed, ClientServed, ServerNamed, ServerOf, Accepted, Origin
  <2>1. CASE k \in Live(q) /\ vec'[q][k] = vec[q][k]
    <3>1. PICK o : o = Origin(c)
      OBVIOUS
    <3>2. o \in Origins /\ ClientServed(c) /\ o.srv = c.server.rpc /\ o.token = c.token
      BY <2>1, <3>1, HasOrigin DEF CoreInv, ClientsServed, Origin
    <3>3. Accepted(o) => ServerOf(o)' = ServerOf(o)
      BY <1>6, <3>2, ExtendView
    <3>4. ServerNamed(c) => ServerNamed(c)'
      BY <1>15, <1>16, <3>1, <3>2 DEF ServerNamed
    <3>5. CASE o = o0
      BY <1>14, <1>15, <3>1, <3>2, <3>4, <3>5 DEF ClientServed
    <3>6. CASE o # o0
      <4>1. Accepted(o)' <=> Accepted(o)
        BY <1>16, <3>2, <3>6
      <4> QED BY <3>1, <3>2, <3>3, <3>4, <4>1 DEF ClientServed
    <3> QED BY <3>5, <3>6
  <2>2. CASE q = r /\ k = n
    BY <1>4, <1>14, <2>2 DEF ClientServed
  <2> QED BY SMTT(60), <1>0, <1>6, <2>1, <2>2, Earlier
<1>23. EventsTell'
  <2>1. ASSUME NEW o \in Origins PROVE EventTells(o)'
    <3>1. EventTells(o)
      BY DEF CoreInv, EventsTell
    <3>2. /\ ClientOf(o)' = ClientOf(o)
          /\ Accepted(o) => Accepted(o)' /\ ServerOf(o)' = ServerOf(o)
      BY <1>6, ExtendView
    <3> QED BY <3>1, <3>2 DEF EventTells
  <2> QED BY <1>13, <2>1 DEF CoreInv, EventsTell
<1> QED BY <1>18, <1>19, <1>20, <1>21, <1>22, <1>23 DEF CoreInv

-------------------------------------------------------------------------------
(***************************************************************************)
(* Pending requests.                                                       *)
(***************************************************************************)
\* Only entry n of sm_pending_reqs_ of r changes.
PendingAt(r, n) ==
    /\ \A q \in Rpcs \ {r} : pending'[q] = pending[q]
    /\ \A k : k # n => (k \in pending'[r] <=> k \in pending[r])

LEMMA PendingErased ==
    ASSUME TypeOK, NEW r \in Rpcs, NEW m, Erase(r, m)
    PROVE  PendingAt(r, m.client.num) /\ m.client.num \notin pending'[r]
  BY DEF Erase, PendingAt, TypeOK

LEMMA PendingAdded ==
    ASSUME TypeOK, NEW r \in Rpcs, NEW n, pending' = [pending EXCEPT ![r] = @ \cup {n}]
    PROVE  PendingAt(r, n) /\ n \in pending'[r]
  BY DEF PendingAt, TypeOK

\* Session n of r is replaced by v.
LEMMA PendingUpdated ==
    ASSUME TypeOK, PendingLive, NEW r \in Rpcs, NEW n \in Live(r), NEW v, Updated(r, n, v),
           PendingAt(r, n),
           n \in pending'[r] => v # Null /\ v.role = "kClient" /\ v.state # "kConnected",
           v # Null /\ v.state = "kConnectInProgress" => n \in pending'[r]
    PROVE  PendingLive'
<1>1. \A q \in Rpcs \ {r} : vec'[q] = vec[q] /\ Live(q)' = Live(q) /\ pending'[q] = pending[q]
  BY DEF Updated, PendingAt
<1>2. /\ \A k \in Live(r) : k # n => k \in Live(r)' /\ vec'[r][k] = vec[r][k]
      /\ \A k \in Live(r)' : k # n => k \in Live(r) /\ vec'[r][k] = vec[r][k]
      /\ n \in Live(r)' <=> v # Null
      /\ vec'[r][n] = v
  BY DEF Updated, Live
<1>3. ASSUME NEW q \in Rpcs, NEW k \in pending'[q]
      PROVE  k \in Live(q)' /\ vec'[q][k].role = "kClient" /\ vec'[q][k].state # "kConnected"
  <2>1. CASE q # r
    BY <1>1, <1>3, <2>1 DEF PendingLive
  <2>2. CASE q = r /\ k # n
    BY <1>2, <1>3, <2>2 DEF PendingLive, PendingAt
  <2>3. CASE q = r /\ k = n
    BY <1>2, <1>3, <2>3
  <2> QED BY <2>1, <2>2, <2>3
<1>4. ASSUME NEW q \in Rpcs, NEW k \in Live(q)', vec'[q][k].state = "kConnectInProgress"
      PROVE  k \in pending'[q]
  <2>1. CASE q # r
    BY <1>1, <1>4, <2>1 DEF PendingLive
  <2>2. CASE q = r /\ k # n
    BY <1>2, <1>4, <2>2 DEF PendingLive, PendingAt
  <2>3. CASE q = r /\ k = n
    BY <1>2, <1>4, <2>3
  <2> QED BY <2>1, <2>2, <2>3
<1> QED BY <1>3, <1>4 DEF PendingLive

\* Session s is appended to the vector of r.
LEMMA PendingAppended ==
    ASSUME TypeOK, PendingLive, NEW r \in Rpcs, NEW s, Appended(r, s), NEW n,
           n = Len(vec[r]) + 1, PendingAt(r, n),
           n \in pending'[r] => s.role = "kClient" /\ s.state # "kConnected",
           s.state = "kConnectInProgress" => n \in pending'[r]
    PROVE  PendingLive'
<1>1. \A q \in Rpcs \ {r} : vec'[q] = vec[q] /\ Live(q)' = Live(q) /\ pending'[q] = pending[q]
  BY DEF Appended, PendingAt
<1>2. /\ \A k \in Live(r) : k # n /\ k \in Live(r)' /\ vec'[r][k] = vec[r][k]
      /\ \A k \in Live(r)' : k # n => k \in Live(r) /\ vec'[r][k] = vec[r][k]
      /\ n \in Live(r)'
      /\ vec'[r][n] = s
  <2>1. Len(vec[r]) \in Nat
    BY DEF TypeOK
  <2> QED BY <2>1 DEF Appended, Live
<1>3. ASSUME NEW q \in Rpcs, NEW k \in pending'[q]
      PROVE  k \in Live(q)' /\ vec'[q][k].role = "kClient" /\ vec'[q][k].state # "kConnected"
  <2>1. CASE q # r
    BY <1>1, <1>3, <2>1 DEF PendingLive
  <2>2. CASE q = r /\ k # n
    BY <1>2, <1>3, <2>2 DEF PendingLive, PendingAt
  <2>3. CASE q = r /\ k = n
    BY <1>2, <1>3, <2>3
  <2> QED BY <2>1, <2>2, <2>3
<1>4. ASSUME NEW q \in Rpcs, NEW k \in Live(q)', vec'[q][k].state = "kConnectInProgress"
      PROVE  k \in pending'[q]
  <2>1. CASE q # r
    BY <1>1, <1>4, <2>1 DEF PendingLive
  <2>2. CASE q = r /\ k # n
    BY <1>2, <1>4, <2>2 DEF PendingLive, PendingAt
  <2>3. CASE q = r /\ k = n
    BY <1>2, <1>4, <2>3
  <2> QED BY <2>1, <2>2, <2>3
<1> QED BY <1>3, <1>4 DEF PendingLive

\* Only entry n of the pending requests changes.
LEMMA PendingSame ==
    ASSUME TypeOK, PendingLive, vec' = vec, NEW r \in Rpcs, NEW n, PendingAt(r, n),
           n \in pending'[r] =>
             n \in Live(r) /\ vec[r][n].role = "kClient" /\ vec[r][n].state # "kConnected",
           n \in Live(r) /\ vec[r][n].state = "kConnectInProgress" => n \in pending'[r]
    PROVE  PendingLive'
<1>1. \A q \in Rpcs : Live(q)' = Live(q)
  BY DEF Live
<1> QED BY <1>1 DEF PendingLive, PendingAt

-------------------------------------------------------------------------------
(***************************************************************************)
(* The handlers keep the invariant.                                        *)
(***************************************************************************)
\* Nothing but the network changes.
LEMMA SmSends ==
    ASSUME SmInv, BaseInv', UNCHANGED <<hook, vec, pending, tokens, created, events>>,
           \A p \in udp' : p \in udp \/ (Origin(p) \in Origins /\ PacketNamed(p))
    PROVE  SmInv'
<1>1. CoreInv'
  BY CoreQuiet DEF SmInv
<1>2. PendingLive'
  BY DEF SmInv, PendingLive, Live
<1> QED BY <1>1, <1>2 DEF SmInv

\* A response leads into the vector of its client.
LEMMA RespSlot ==
    ASSUME CoreInv, NEW m \in udp, NEW r, NEW n, r = m.client.rpc, n = m.client.num
    PROVE  /\ m \in SmPkt /\ r \in Rpcs /\ m.client = [rpc |-> r, num |-> n]
           /\ n \in 1..Len(vec[r]) /\ m.server \in Endpoint
<1>1. m \in SmPkt /\ r \in Rpcs /\ m.client = [rpc |-> r, num |-> n] /\ m.server \in Endpoint
  BY PacketFacts DEF CoreInv, SmPkt, Endpoint
<1>2. n \in 1..Len(vec[r])
  BY HasOrigin DEF CoreInv, OriginsAgree, Origin
<1> QED BY <1>1, <1>2

\* The session found there is the session that the response is for.
LEMMA RespSession ==
    ASSUME CoreInv, NEW m \in udp, NEW r, NEW n, r = m.client.rpc, n = m.client.num,
           vec[r][n] # Null
    PROVE  /\ n \in Live(r) /\ vec[r][n] \in Session /\ vec[r][n].role = "kClient"
           /\ vec[r][n].token = m.token /\ vec[r][n].client = m.client
           /\ vec[r][n].server.rpc = m.server.rpc
<1>1. PICK o : o = Origin(m)
  OBVIOUS
<1>2. o \in Origins /\ ClientOf(o) = vec[r][n] /\ o.client = m.client /\ o.token = m.token
      /\ o.srv = m.server.rpc
  BY <1>1, HasOrigin DEF Origin, ClientOf
<1>3. n \in Live(r) /\ vec[r][n] \in Session /\ vec[r][n].role = "kClient"
      /\ Origin(vec[r][n]) = o
  BY <1>2, ClientIs
<1> QED BY <1>2, <1>3 DEF Origin

LEMMA SmConnectResp ==
    ASSUME SmInv, BaseInv', NEW m \in udp, handle_connect_resp_st(m.client.rpc, m)
    PROVE  SmInv'
<1>0. CoreInv /\ PendingLive /\ TypeOK
  BY DEF SmInv, CoreInv, BaseInv
<1>1. PICK r, n : r = m.client.rpc /\ n = m.client.num
  OBVIOUS
<1>2. /\ m \in SmPkt /\ r \in Rpcs /\ m.client = [rpc |-> r, num |-> n]
      /\ n \in 1..Len(vec[r]) /\ m.server \in Endpoint
  BY <1>0, <1>1, RespSlot
<1>3. ASSUME Connecting(vec[r][n])
      PROVE  /\ n \in Live(r) /\ vec[r][n] \in Session /\ vec[r][n].role = "kClient"
             /\ vec[r][n].state = "kConnectInProgress"
             /\ vec[r][n].token = m.token /\ vec[r][n].client = m.client
             /\ vec[r][n].server.rpc = m.server.rpc
  <2>1. vec[r][n] # Null /\ vec[r][n].state = "kConnectInProgress"
    BY <1>3 DEF Connecting
  <2> QED BY <1>0, <1>1, <2>1, RespSession
<1>4. UNCHANGED <<hook, built, tokens, created>> /\ m.type = "kConnectResp"
  BY DEF handle_connect_resp_st
<1>5. CASE IgnoreConnectResp(r, m)
  <2>1. UNCHANGED <<vec, events, udp>> /\ Erase(r, m) /\ ~Connecting(vec[r][n])
    BY <1>1, <1>5 DEF IgnoreConnectResp
  <2>2. CoreInv'
    BY <1>0, <1>4, <2>1, CoreQuiet
  <2>3. PendingAt(r, n) /\ n \notin pending'[r]
    BY <1>0, <1>1, <1>2, <2>1, PendingErased
  <2>4. PendingLive'
    BY <1>0, <1>2, <2>1, <2>3, PendingSame DEF Connecting, Live
  <2> QED BY <2>2, <2>4 DEF SmInv
<1>6. CASE RetryConnect(r, m)
  <2>1. UNCHANGED <<vec, events, udp>> /\ Connecting(vec[r][n])
        /\ pending' = [pending EXCEPT ![r] = @ \cup {n}]
    BY <1>1, <1>6 DEF RetryConnect
  <2>2. CoreInv'
    BY <1>0, <1>4, <2>1, CoreQuiet
  <2>3. PendingAt(r, n) /\ n \in pending'[r]
    BY <1>0, <1>2, <2>1, PendingAdded
  <2>4. PendingLive'
    BY <1>0, <1>2, <1>3, <2>1, <2>3, PendingSame
  <2> QED BY <2>2, <2>4 DEF SmInv
<1>7. CASE FailConnect(r, m)
  <2>1. /\ Connecting(vec[r][n]) /\ Erase(r, m) /\ udp' = udp
        /\ Callback(vec[r][n].token, "kConnectFailed") /\ bury_session_st(r, n)
    BY <1>1, <1>7 DEF FailConnect
  <2>2. CoreInv'
    BY <1>0, <1>2, <1>3, <1>4, <2>1, CoreBuryClient
  <2>3. PendingAt(r, n) /\ n \notin pending'[r]
    BY <1>0, <1>1, <1>2, <2>1, PendingErased
  <2>4. Updated(r, n, Null)
    BY <1>0, <1>2, <2>1, BuryEffect
  <2>5. PendingLive'
    BY <1>0, <1>2, <1>3, <2>1, <2>3, <2>4, PendingUpdated
  <2> QED BY <2>2, <2>5 DEF SmInv
<1>8. CASE UnresolvedServer(r, m)
  <2>1. /\ Connecting(vec[r][n]) /\ m.err = "kNoError" /\ events' = events
        /\ StartDisconnect(r, n, m.server)
    BY <1>1, <1>8 DEF UnresolvedServer
  <2>2. ServerNamed(m)
    BY <1>0, <1>4, <2>1 DEF CoreInv, PacketsNamed, PacketNamed
  <2>3. m.token \in DOMAIN tokens[m.server.rpc]
        /\ m.server.num = tokens[m.server.rpc][m.token]
    BY <2>2 DEF ServerNamed, Accepted, Origin
  <2>4. CoreInv'
    BY <1>0, <1>2, <1>3, <1>4, <2>1, <2>3, CoreStart
  <2>5. PICK v : v = Moved(vec[r][n], "kDisconnectInProgress", m.server)
    OBVIOUS
  <2>6. Updated(r, n, v) /\ v \in Session
    BY <1>0, <1>2, <1>3, <2>1, <2>5, StartDisconnectEffect
  <2>7. v # Null /\ v.role = "kClient" /\ v.state = "kDisconnectInProgress"
    BY <1>3, <2>1, <2>5, <2>6, NullAssumption DEF Moved
  <2>8. PendingAt(r, n) /\ n \in pending'[r]
    BY <1>0, <1>2, <2>1, PendingAdded DEF StartDisconnect
  <2>9. PendingLive'
    BY <1>0, <1>2, <1>3, <2>1, <2>6, <2>7, <2>8, PendingUpdated
  <2> QED BY <2>4, <2>9 DEF SmInv
<1>9. CASE FinishConnect(r, m)
  <2>1. Connecting(vec[r][n]) /\ Erase(r, m)
    BY <1>1, <1>9 DEF FinishConnect
  <2>2. CoreInv'
    BY <1>0, <1>1, <1>2, <1>4, <1>9, CoreFinish
  <2>3. PICK v : v = Moved(vec[r][n], "kConnected", m.server)
    OBVIOUS
  <2>4. Updated(r, n, v)
    BY <1>0, <1>1, <1>2, <1>9, <2>3, FinishConnectEffect
  <2>5. v.state = "kConnected"
    BY <2>3 DEF Moved
  <2>6. PendingAt(r, n) /\ n \notin pending'[r]
    BY <1>0, <1>1, <1>2, <2>1, PendingErased
  <2>7. PendingLive'
    BY <1>0, <1>2, <1>3, <2>1, <2>4, <2>5, <2>6, PendingUpdated
  <2> QED BY <2>2, <2>7 DEF SmInv
<1> QED BY <1>1, <1>5, <1>6, <1>7, <1>8, <1>9 DEF handle_connect_resp_st

LEMMA SmDisconnectResp ==
    ASSUME SmInv, BaseInv', NEW m \in udp, handle_disconnect_resp_st(m.client.rpc, m)
    PROVE  SmInv'
<1>0. CoreInv /\ PendingLive /\ TypeOK
  BY DEF SmInv, CoreInv, BaseInv
<1>1. PICK r, n : r = m.client.rpc /\ n = m.client.num
  OBVIOUS
<1>2. r \in Rpcs /\ m.client = [rpc |-> r, num |-> n] /\ n \in 1..Len(vec[r])
  BY <1>0, <1>1, RespSlot
<1>3. /\ UNCHANGED <<hook, tokens, created, udp>> /\ m.type = "kDisconnectResp"
      /\ Erase(r, m)
      /\ vec[r][n] = Null => UNCHANGED <<vec, events>>
      /\ vec[r][n] # Null => Callback(vec[r][n].token, "kDisconnected") /\ bury_session_st(r, n)
  BY <1>1 DEF handle_disconnect_resp_st
<1>4. PendingAt(r, n) /\ n \notin pending'[r]
  BY <1>0, <1>1, <1>2, <1>3, PendingErased
<1>5. CASE vec[r][n] = Null
  <2>1. CoreInv'
    BY <1>0, <1>3, <1>5, CoreQuiet
  <2>2. PendingLive'
    BY <1>0, <1>2, <1>3, <1>4, <1>5, PendingSame DEF Live
  <2> QED BY <2>1, <2>2 DEF SmInv
<1>6. CASE vec[r][n] # Null
  <2>0. n \in Live(r)
    BY <1>2, <1>6 DEF Live
  <2>1. CoreInv'
    BY <1>0, <1>2, <1>3, <1>6, <2>0, CoreBuryClient
  <2>2. Updated(r, n, Null)
    BY <1>0, <1>2, <1>3, <1>6, BuryEffect
  <2>3. PendingLive'
    BY <1>0, <1>2, <1>4, <2>0, <2>2, PendingUpdated
  <2> QED BY <2>1, <2>3 DEF SmInv
<1> QED BY <1>5, <1>6

\* The session a disconnect request is for, if it is still there.
LEMMA DisconnectSession ==
    ASSUME CoreInv, NEW m \in udp, m.type = "kDisconnectReq", NEW r, NEW n,
           r = m.server.rpc, n = m.server.num
    PROVE  /\ r \in Rpcs /\ n \in 1..Len(vec[r])
           /\ n \in Live(r) => /\ vec[r][n] \in Session /\ vec[r][n].role = "kServer"
                               /\ vec[r][n].token = m.token /\ vec[r][n].client = m.client
<1>1. PICK o : o = Origin(m)
  OBVIOUS
<1>2. /\ o \in Origins /\ o.token = m.token /\ o.client = m.client /\ o.srv = r
      /\ PacketNamed(m)
  BY <1>1, HasOrigin DEF Origin, CoreInv, PacketsNamed
<1>3. Accepted(o) /\ tokens[r][o.token] = n
  BY <1>1, <1>2 DEF PacketNamed, ServerNamed
<1>4. r \in Rpcs /\ n \in 1..Len(vec[r])
  BY <1>2, <1>3, ServerIs
<1>5. ASSUME n \in Live(r)
      PROVE  vec[r][n] \in Session /\ vec[r][n].role = "kServer" /\ Origin(vec[r][n]) = o
  <2>1. ServerOf(o) = vec[r][n] /\ vec[r][n] # Null
    BY <1>2, <1>3, <1>5 DEF ServerOf, Live
  <2> QED BY <1>2, <1>3, <2>1, ServerIs
<1> QED BY <1>2, <1>4, <1>5 DEF Origin

LEMMA SmDisconnectReq ==
    ASSUME SmInv, BaseInv', NEW m \in udp, handle_disconnect_req_st(m.server.rpc, m)
    PROVE  SmInv'
<1>0. CoreInv /\ PendingLive /\ TypeOK
  BY DEF SmInv, CoreInv, BaseInv
<1>1. PICK r, n : r = m.server.rpc /\ n = m.server.num
  OBVIOUS
<1>2. PICK a : a = sm_construct_resp(m, "kNoError", m.server)
  OBVIOUS
<1>3. /\ UNCHANGED <<hook, pending, tokens, created, events>> /\ m.type = "kDisconnectReq"
      /\ udp' = udp \cup {a}
      /\ vec[r][n] = Null => vec' = vec
      /\ vec[r][n] # Null => bury_session_st(r, n)
  BY <1>1, <1>2 DEF handle_disconnect_req_st, Send
<1>4. r \in Rpcs /\ n \in 1..Len(vec[r])
  BY <1>0, <1>1, <1>3, DisconnectSession
<1>5. CASE vec[r][n] = Null
  <2>1. PICK o : o = Origin(m)
    OBVIOUS
  <2>2. /\ o \in Origins /\ o.token = m.token /\ o.srv = r /\ PacketNamed(m)
    BY <1>0, <1>1, <2>1, HasOrigin DEF Origin, CoreInv, PacketsNamed
  <2>3. /\ a.type = "kDisconnectResp" /\ a.token = m.token /\ a.client = m.client
        /\ a.server = m.server
    BY <1>2, <1>3 DEF sm_construct_resp
  <2>4. Origin(a) = o
    BY <2>1, <2>3 DEF Origin
  <2>5. ServerNamed(m) /\ ServerNamed(a) /\ tokens[r][o.token] = n
    BY <1>1, <1>3, <2>1, <2>2, <2>3, <2>4 DEF PacketNamed, ServerNamed
  <2>6. ServerOf(o) = Null
    BY <1>5, <2>2, <2>5 DEF ServerOf
  <2>7. ClientOf(o) # Null => ClientOf(o).state = "kDisconnectInProgress"
    BY <1>3, <2>1, <2>2 DEF PacketNamed
  <2>8. PacketNamed(a)
    BY <2>3, <2>4, <2>5, <2>6, <2>7 DEF PacketNamed
  <2> QED BY <1>3, <1>5, <2>2, <2>4, <2>8, SmSends
<1>6. CASE vec[r][n] # Null
  <2>0. n \in Live(r)
    BY <1>4, <1>6 DEF Live
  <2>1. CoreInv'
    BY <1>0, <1>1, <1>2, <1>3, <1>6, <2>0, CoreBuryServer
  <2>2. Updated(r, n, Null)
    BY <1>0, <1>3, <1>4, <1>6, BuryEffect
  <2>3. vec[r][n].role = "kServer"
    BY <1>0, <1>1, <1>3, <2>0, DisconnectSession
  <2>4. n \notin pending[r] /\ PendingAt(r, n)
    BY <1>0, <1>3, <1>4, <2>3 DEF PendingLive, PendingAt
  <2>5. PendingLive'
    BY <1>0, <1>3, <1>4, <2>0, <2>2, <2>4, PendingUpdated
  <2> QED BY <2>1, <2>5 DEF SmInv
<1> QED BY <1>5, <1>6

LEMMA SmConnectReq ==
    ASSUME SmInv, BaseInv', NEW m \in udp, hook[m.server.rpc],
           handle_connect_req_st(m.server.rpc, m)
    PROVE  SmInv'
<1>0. CoreInv /\ PendingLive /\ TypeOK
  BY DEF SmInv, CoreInv, BaseInv
<1>1. PICK r, o : r = m.server.rpc /\ o = Origin(m)
  OBVIOUS
<1>2. UNCHANGED <<hook, pending, created, events>> /\ m.type = "kConnectReq"
  BY DEF handle_connect_req_st
<1>3. r \in Rpcs /\ o \in Origins /\ o.token = m.token /\ o.srv = r /\ o.client = m.client
      /\ m \in SmPkt
  BY <1>0, <1>1, HasOrigin, PacketFacts DEF Origin, CoreInv
<1>4. CASE RepeatConnect(r, m)
  <2>1. PICK s : s = vec[r][tokens[r][m.token]]
    OBVIOUS
  <2>2. PICK a : a = sm_construct_resp(m, "kNoError", s.server)
    OBVIOUS
  <2>3. /\ m.token \in DOMAIN tokens[r] /\ s # Null /\ udp' = udp \cup {a}
        /\ UNCHANGED <<vec, tokens>>
    BY <1>4, <2>1, <2>2 DEF RepeatConnect, Send
  <2>4. Accepted(o) /\ ServerOf(o) = s
    BY <1>3, <2>1, <2>3 DEF Accepted, ServerOf
  <2>5. tokens[r][o.token] \in Live(r) /\ s.role = "kServer" /\ s.token = o.token
    BY <1>0, <1>3, <2>3, <2>4, ServerIs
  <2>6. s.server.rpc = r /\ s.server.num = tokens[r][o.token]
    <3>1. PICK k : k = tokens[r][o.token]
      OBVIOUS
    <3>2. SlotNamed(r, k) /\ vec[r][k] = s
      BY <1>0, <1>3, <2>1, <2>5, <3>1 DEF CoreInv, SlotsNamed
    <3>3. s.server = [rpc |-> r, num |-> k]
      BY <2>5, <3>2 DEF SlotNamed
    <3> QED BY <3>1, <3>3
  <2>7. /\ a.type = "kConnectResp" /\ a.token = m.token /\ a.client = m.client
        /\ a.server = s.server
    BY <1>2, <2>2 DEF sm_construct_resp
  <2>8. Origin(a) = o
    BY <1>1, <1>3, <2>6, <2>7 DEF Origin
  <2>9. PacketNamed(a)
    BY <1>3, <2>4, <2>6, <2>7, <2>8 DEF PacketNamed, ServerNamed
  <2> QED BY <1>2, <1>3, <2>3, <2>8, <2>9, SmSends
<1>5. CASE RefuseConnect(r, m)
  <2>1. PICK err \in SmErrType :
          ConnectError(r, m, err) /\ udp' = udp \cup {sm_construct_resp(m, err, m.server)}
    BY <1>5 DEF RefuseConnect, Send
  <2>2. err # "kNoError" /\ UNCHANGED <<vec, tokens>>
    BY <1>5, <2>1, Zenon DEF ConnectError, RefuseConnect
  <2>3. PICK a : a = sm_construct_resp(m, err, m.server)
    OBVIOUS
  <2>4. /\ a.type = "kConnectResp" /\ a.err = err /\ a.token = m.token /\ a.client = m.client
        /\ a.server = m.server
    BY <1>2, <2>3 DEF sm_construct_resp
  <2>5. Origin(a) = o /\ PacketNamed(a)
    BY <1>1, <2>2, <2>4 DEF Origin, PacketNamed
  <2> QED BY <1>2, <1>3, <2>1, <2>2, <2>3, <2>5, SmSends
<1>6. CASE AcceptConnect(r, m)
  <2>1. CoreInv'
    BY <1>0, <1>1, <1>2, <1>6, CoreAccept
  <2>2. PICK s, n : s = NewServer(r, m) /\ n = Len(vec[r]) + 1
    OBVIOUS
  <2>3. Appended(r, s)
    BY <1>0, <1>1, <1>2, <1>3, <1>6, <2>2, AcceptEffect DEF Reqs
  <2>4. s.role = "kServer" /\ s.state = "kConnected"
    BY <2>2 DEF NewServer
  <2>5. n \notin pending[r] /\ PendingAt(r, n)
    <3>1. Len(vec[r]) \in Nat
      BY <1>0, <1>3 DEF TypeOK
    <3>2. n \notin Live(r)
      BY <2>2, <3>1 DEF Live
    <3> QED BY <1>0, <1>2, <1>3, <3>2 DEF PendingLive, PendingAt
  <2>6. PendingLive'
    BY <1>0, <1>2, <1>3, <2>2, <2>3, <2>4, <2>5, PendingAppended
  <2> QED BY <2>1, <2>6 DEF SmInv
<1> QED BY <1>1, <1>4, <1>5, <1>6 DEF handle_connect_req_st

LEMMA SmInit == Init => SmInv
<1> SUFFICES ASSUME Init PROVE SmInv
  OBVIOUS
<1>0. BaseInv
  BY BaseInit
<1>1. udp = {} /\ \A r \in Rpcs : Live(r) = {} /\ vec[r] = <<>> /\ tokens[r] = <<>> /\ pending[r] = {}
  BY DEF Init, Live
<1>2. Origins = {}
  BY <1>1 DEF Origins, Sessions
<1>3. NotBuilt /\ OriginsAgree /\ SlotsNamed /\ ClientSlots /\ PacketsNamed /\ ClientsServed
      /\ PendingLive
  BY <1>1, <1>2 DEF NotBuilt, OriginsAgree, SlotsNamed, ClientSlots, PacketsNamed,
                    ClientsServed, PendingLive
<1>4. TokensNamed
  <2>1. \A r \in Rpcs : DOMAIN tokens[r] = {}
    BY <1>1
  <2> QED BY <2>1 DEF TokensNamed
<1>5. EventsTell
  BY <1>2 DEF EventsTell, Init
<1> QED BY <1>0, <1>3, <1>4, <1>5 DEF SmInv, CoreInv

\* conn_req_token_map_ of every Rpc: a function.
TokensFcn == tokens = [r \in DOMAIN tokens |-> tokens[r]]

LEMMA TokensFcnStep == TokensFcn /\ [Next]_vars => TokensFcn'
<1> SUFFICES ASSUME TokensFcn, [Next]_vars, tokens' # tokens PROVE TokensFcn'
  BY DEF TokensFcn
<1>1. ASSUME NEW r, NEW f, tokens' = [tokens EXCEPT ![r] = f] PROVE TokensFcn'
  BY <1>1 DEF TokensFcn
<1>2. \/ \E r \in Rpcs : Rpc_ctor(r)
      \/ \E r, m : AcceptConnect(r, m)
  BY Zenon DEF Next, vars, Rpc_dtor, create_session_st, destroy_session_st, pkt_loss_scan_st,
      sm_thread_func, handle_sm_rx_st, Lose, handle_connect_req_st, handle_connect_resp_st,
      handle_disconnect_req_st, handle_disconnect_resp_st, RepeatConnect, RefuseConnect
<1>3. ASSUME NEW r, NEW m, AcceptConnect(r, m) PROVE TokensFcn'
  <2>1. tokens' = [tokens EXCEPT ![r] = [t \in DOMAIN tokens[r] \cup {m.token} |->
                     IF t = m.token THEN Len(vec[r]) + 1 ELSE tokens[r][t]]]
    BY <1>3 DEF AcceptConnect
  <2> QED BY <1>1, <2>1
<1>4. ASSUME NEW r, Rpc_ctor(r) PROVE TokensFcn'
  BY <1>1, <1>4 DEF Rpc_ctor
<1> QED BY <1>2, <1>3, <1>4

\* As long as no Rpc is deleted.
LEMMA SmStep ==
    ASSUME Deleted = {}, TokensFcn, SmInv, [Next]_vars
    PROVE  SmInv'
<1>0. CoreInv /\ PendingLive /\ BaseInv /\ TypeOK
  BY DEF SmInv, CoreInv, BaseInv
<1>1. BaseInv'
  BY <1>0, BaseStep
<1>2. ASSUME NEW r \in Rpcs, Rpc_ctor(r) PROVE SmInv'
  <2>1. /\ ~hook[r] /\ hook' = [hook EXCEPT ![r] = TRUE] /\ vec' = [vec EXCEPT ![r] = <<>>]
        /\ tokens' = [tokens EXCEPT ![r] = <<>>] /\ pending' = [pending EXCEPT ![r] = {}]
        /\ UNCHANGED <<created, events, udp>>
    BY <1>2 DEF Rpc_ctor
  <2>2. vec[r] = <<>> /\ tokens[r] = <<>>
    BY <1>0, <2>1 DEF CoreInv, NotBuilt
  <2>3. vec' = vec /\ tokens' = tokens
    <3>1. DOMAIN tokens = Rpcs /\ vec \in [Rpcs -> Seq(Session \cup {Null})]
      BY <1>0 DEF TypeOK
    <3>2. vec' = vec
      BY <2>1, <2>2, <3>1
    <3>3. tokens' = tokens
      BY <2>1, <2>2, <3>1 DEF TokensFcn
    <3> QED BY <3>2, <3>3
  <2>4. \A q \in Rpcs : hook[q] => hook'[q]
    BY <1>0, <2>1 DEF TypeOK
  <2>5. CoreInv'
    BY <1>0, <1>1, <2>1, <2>3, <2>4, CoreQuiet
  <2>6. pending' = pending
    <3>1. Live(r) = {}
      BY <2>2 DEF Live
    <3>2. pending[r] = {}
      BY <1>0, <3>1 DEF PendingLive
    <3> QED BY <1>0, <2>1, <3>2 DEF TypeOK
  <2>7. PendingLive'
    BY <1>0, <2>3, <2>6 DEF PendingLive, Live
  <2> QED BY <2>5, <2>7 DEF SmInv
<1>3. ASSUME NEW r \in Rpcs, Rpc_dtor(r) PROVE SmInv'
  BY <1>3 DEF Rpc_dtor
<1>4. ASSUME NEW r \in Rpcs, NEW rem \in Rpcs, create_session_st(r, rem) PROVE SmInv'
  <2>1. CoreInv'
    BY <1>0, <1>1, <1>4, CoreCreate
  <2>2. PICK s, n : s = NewClient(r, rem) /\ n = Len(vec[r]) + 1
    OBVIOUS
  <2>3. Appended(r, s)
    BY <1>0, <1>4, <2>2, CreateEffect
  <2>4. s.role = "kClient" /\ s.state = "kConnectInProgress"
    BY <2>2 DEF NewClient
  <2>5. n \in pending'[r] /\ PendingAt(r, n)
    BY <1>0, <1>4, <2>2, PendingAdded DEF create_session_st
  <2>6. PendingLive'
    BY <1>0, <2>2, <2>3, <2>4, <2>5, PendingAppended
  <2> QED BY <2>1, <2>6 DEF SmInv
<1>5. ASSUME NEW r \in Rpcs, NEW n \in 1..Len(vec[r]), destroy_session_st(r, n) PROVE SmInv'
  <2>1. PICK s : s = vec[r][n]
    OBVIOUS
  <2>2. /\ s # Null /\ s.role = "kClient" /\ s.state = "kConnected"
        /\ StartDisconnect(r, n, s.server) /\ UNCHANGED <<hook, tokens, created, events>>
    BY <1>5, <2>1 DEF destroy_session_st
  <2>3. n \in Live(r) /\ s \in Session /\ s.server \in Endpoint
    BY <1>0, <2>1, <2>2, LiveSession DEF Live, TypeOK, VecType, Session
  <2>4. ServerNamed(s)
    <3>1. ClientServed(s)
      BY <1>0, <2>1, <2>3 DEF CoreInv, ClientsServed
    <3> QED BY <2>2, <3>1 DEF ClientServed
  <2>5. s.token \in DOMAIN tokens[s.server.rpc]
        /\ s.server.num = tokens[s.server.rpc][s.token]
    BY <2>4 DEF ServerNamed, Accepted, Origin
  <2>6. CoreInv'
    BY <1>0, <1>1, <2>1, <2>2, <2>3, <2>5, CoreStart
  <2>7. PICK v : v = Moved(s, "kDisconnectInProgress", s.server)
    OBVIOUS
  <2>8. Updated(r, n, v) /\ v \in Session
    BY <1>0, <2>1, <2>2, <2>3, <2>7, StartDisconnectEffect
  <2>9. v # Null /\ v.role = "kClient" /\ v.state = "kDisconnectInProgress"
    BY <2>2, <2>7, <2>8, NullAssumption DEF Moved
  <2>10. PendingAt(r, n) /\ n \in pending'[r]
    BY <1>0, <2>2, PendingAdded DEF StartDisconnect
  <2>11. PendingLive'
    BY <1>0, <2>3, <2>8, <2>9, <2>10, PendingUpdated
  <2> QED BY <2>6, <2>11 DEF SmInv
<1>6. ASSUME NEW r \in Rpcs, NEW n \in 1..Len(vec[r]), pkt_loss_scan_st(r, n) PROVE SmInv'
  <2>1. PICK s : s = vec[r][n]
    OBVIOUS
  <2>2. PICK a : a = SmReq(s)
    OBVIOUS
  <2>3. /\ n \in pending[r] /\ s # Null /\ udp' = udp \cup {a}
        /\ UNCHANGED <<hook, vec, pending, tokens, created, events>>
    BY <1>6, <2>1, <2>2 DEF pkt_loss_scan_st, Send
  <2>4. n \in Live(r) /\ s \in Session /\ s.role = "kClient"
    BY <1>0, <2>1, <2>3, LiveSession DEF TypeOK, VecType, PendingLive
  <2>5. /\ a.token = s.token /\ a.client = s.client /\ a.server = s.server
        /\ a.type = IF s.state = "kConnectInProgress" THEN "kConnectReq" ELSE "kDisconnectReq"
    BY <2>2, <2>4, SmReqType
  <2>6. Origin(a) = Origin(s) /\ Origin(s) \in Origins /\ ClientOf(Origin(s)) = s
    BY <1>0, <2>1, <2>4, <2>5, HasOrigin, ClientSelf DEF Origin
  <2>7. s.state # "kConnectInProgress" => s.state = "kDisconnectInProgress" /\ ServerNamed(a)
    <3>1. ClientServed(s) /\ s.state # "kConnected"
      BY <1>0, <2>1, <2>3, <2>4 DEF CoreInv, ClientsServed, PendingLive
    <3>2. ServerNamed(s) => ServerNamed(a)
      BY <2>5, <2>6 DEF ServerNamed
    <3> QED BY <2>4, <3>1, <3>2 DEF ClientServed, Session
  <2>8. PacketNamed(a)
    BY <2>5, <2>6, <2>7 DEF PacketNamed
  <2> QED BY <1>1, <2>3, <2>6, <2>8, SmSends
<1>7. ASSUME NEW m \in udp, sm_thread_func(m) PROVE SmInv'
  <2>1. PICK a : a = sm_construct_resp(m, "kInvalidRemoteRpcId", m.server)
    OBVIOUS
  <2>2. /\ ~hook[Target(m)] /\ m.type \in Reqs /\ udp' = udp \cup {a}
        /\ UNCHANGED <<hook, vec, pending, tokens, created, events>>
    BY <1>7, <2>1 DEF sm_thread_func, Send
  <2>3. Target(m) = m.server.rpc /\ m.server.rpc \in Rpcs
    BY <1>0, <2>2, PacketFacts DEF Target
  <2>4. m.type = "kConnectReq"
    <3>1. tokens[m.server.rpc] = <<>>
      BY <1>0, <2>2, <2>3 DEF CoreInv, NotBuilt
    <3>2. ~ServerNamed(m)
      BY <3>1 DEF ServerNamed, Accepted, Origin
    <3> QED BY <1>0, <2>2, <3>2 DEF CoreInv, PacketsNamed, PacketNamed, Reqs
  <2>5. /\ a.type = "kConnectResp" /\ a.err = "kInvalidRemoteRpcId" /\ a.token = m.token
        /\ a.client = m.client /\ a.server = m.server
    BY <2>1, <2>4 DEF sm_construct_resp
  <2>6. Origin(a) \in Origins /\ PacketNamed(a)
    BY <2>5, HasOrigin DEF Origin, PacketNamed
  <2> QED BY <1>1, <2>2, <2>6, SmSends
<1>8. ASSUME NEW m \in udp, handle_sm_rx_st(m) PROVE SmInv'
  <2>1. hook[Target(m)]
    BY <1>8 DEF handle_sm_rx_st
  <2>2. CASE handle_connect_req_st(Target(m), m)
    <3>1. Target(m) = m.server.rpc
      BY <2>2 DEF handle_connect_req_st, Target, Reqs
    <3> QED BY <1>1, <2>1, <2>2, <3>1, SmConnectReq
  <2>3. CASE handle_connect_resp_st(Target(m), m)
    <3>1. Target(m) = m.client.rpc
      BY <2>3 DEF handle_connect_resp_st, Target, Reqs
    <3> QED BY <1>1, <2>3, <3>1, SmConnectResp
  <2>4. CASE handle_disconnect_req_st(Target(m), m)
    <3>1. Target(m) = m.server.rpc
      BY <2>4 DEF handle_disconnect_req_st, Target, Reqs
    <3> QED BY <1>1, <2>4, <3>1, SmDisconnectReq
  <2>5. CASE handle_disconnect_resp_st(Target(m), m)
    <3>1. Target(m) = m.client.rpc
      BY <2>5 DEF handle_disconnect_resp_st, Target, Reqs
    <3> QED BY <1>1, <2>5, <3>1, SmDisconnectResp
  <2> QED BY <1>8, <2>2, <2>3, <2>4, <2>5 DEF handle_sm_rx_st
<1>9. ASSUME NEW m \in udp, Lose(m) PROVE SmInv'
  BY <1>1, <1>9, SmSends DEF Lose
<1>10. CASE UNCHANGED vars
  BY <1>1, <1>10, SmSends DEF vars
<1> QED BY <1>2, <1>3, <1>4, <1>5, <1>6, <1>7, <1>8, <1>9, <1>10 DEF Next

-------------------------------------------------------------------------------
(***************************************************************************)
(* The theorems.                                                           *)
(***************************************************************************)
\* The types of the session management state, with the asserts on the number of
\* ring entries available, whichever Rpcs are deleted and created again.
THEOREM TypesHold == Spec => []TypeOK
<1>1. BaseInv => TypeOK
  BY DEF BaseInv
<1> QED BY <1>1, BaseInvariance, PTL

\* alloc_ring_entries and free_ring_entries keep the books, whichever Rpcs are
\* deleted and created again: available entries and those of the live sessions
\* add up to the RX ring.
THEOREM RingsHold == Spec => []RingsConserved
<1>1. BaseInv => RingsConserved
  BY DEF BaseInv
<1> QED BY <1>1, BaseInvariance, PTL

\* As long as no Rpc is deleted, the inductive invariant of the handshake holds:
\* the handlers of connect and disconnect packets keep it however packets are
\* lost, repeated and reordered.
THEOREM SmInvariance == ASSUME Deleted = {} PROVE Spec => []SmInv
<1>1. Init => SmInv /\ TokensFcn
  BY SmInit DEF Init, TokensFcn
<1>2. SmInv /\ TokensFcn /\ [Next]_vars => (SmInv /\ TokensFcn)'
  BY SmStep, TokensFcnStep
<1> QED BY <1>1, <1>2, PTL DEF Spec

\* pkt_loss_scan_st finds a live session waiting for a response behind every
\* pending request, and every connecting session is among them.
THEOREM PendingHolds == ASSUME Deleted = {} PROVE Spec => []PendingLive
<1>1. SmInv => PendingLive
  BY DEF SmInv
<1> QED BY <1>1, SmInvariance, PTL

\* A server session that the token map leads to is the session named by it.
LEMMA ServerFound ==
    ASSUME CoreInv, NEW o \in Origins, Accepted(o), ServerOf(o) # Null,
           NEW k, k = tokens[o.srv][o.token], NEW c, c = ServerOf(o)
    PROVE  /\ o.srv \in Rpcs /\ k \in Live(o.srv) /\ vec[o.srv][k] = c /\ c \in Session
           /\ c.role = "kServer" /\ c.state = "kConnected" /\ c.token = o.token
           /\ c.client = o.client /\ c.server = [rpc |-> o.srv, num |-> k]
<1>1. /\ o.srv \in Rpcs /\ k \in Live(o.srv) /\ c \in Session /\ c.role = "kServer"
      /\ Origin(c) = o
  BY ServerIs
<1>2. vec[o.srv][k] = c
  BY DEF ServerOf
<1>3. SlotNamed(o.srv, k)
  BY <1>1 DEF CoreInv, SlotsNamed
<1>4. c.state = "kConnected" /\ c.server = [rpc |-> o.srv, num |-> k]
  BY SMTT(60), <1>1, <1>2, <1>3 DEF SlotNamed
<1> QED BY <1>1, <1>2, <1>4 DEF Origin

LEMMA SmInvPeersAgree == SmInv => PeersAgree
<1> SUFFICES ASSUME CoreInv, NEW r \in Rpcs, NEW n \in Live(r), vec[r][n].role = "kClient",
                    vec[r][n].state = "kConnected"
             PROVE  Matched(r, n, vec[r][n].server.num)
  BY DEF SmInv, PeersAgree
<1>1. PICK s, o : s = vec[r][n] /\ o = Origin(vec[r][n])
  OBVIOUS
<1>2. s \in Session /\ o \in Origins /\ s.role = "kClient" /\ s.state = "kConnected"
  BY <1>1, HasOrigin, LiveSession DEF CoreInv, BaseInv, TypeOK, VecType
<1>3. ClientServed(s) /\ o = Origin(s)
  BY <1>1 DEF CoreInv, ClientsServed
<1>4. ServerNamed(s) /\ Accepted(o) /\ ServerOf(o) # Null
  BY <1>2, <1>3 DEF ClientServed, ServerNamed
<1>5. PICK k, c : k = s.server.num /\ c = ServerOf(o)
  OBVIOUS
<1>6. o.srv = s.server.rpc /\ o.token = s.token /\ o.client = s.client
      /\ k = tokens[o.srv][o.token]
  BY <1>3, <1>4, <1>5 DEF Origin, ServerNamed
<1>7. /\ k \in Live(o.srv) /\ vec[o.srv][k] = c /\ c \in Session
      /\ c.role = "kServer" /\ c.state = "kConnected" /\ c.token = o.token
      /\ c.client = o.client /\ c.server = [rpc |-> o.srv, num |-> k]
  BY <1>2, <1>4, <1>5, <1>6, ServerFound
<1>8. s.server = [rpc |-> o.srv, num |-> k]
  BY <1>2, <1>5, <1>6 DEF Session, Endpoint
<1>9. c = [s EXCEPT !.role = "kServer", !.state = "kConnected"]
  <2>1. DOMAIN s = {"role", "state", "token", "client", "server"}
    BY <1>2 DEF Session
  <2>2. [s EXCEPT !.role = "kServer", !.state = "kConnected"] =
          [f \in DOMAIN s |-> IF f = "state" THEN "kConnected"
                              ELSE IF f = "role" THEN "kServer" ELSE s[f]]
    BY <2>1
  <2>3. [s EXCEPT !.role = "kServer", !.state = "kConnected"] =
          [role |-> "kServer", state |-> "kConnected", token |-> s.token,
           client |-> s.client, server |-> s.server]
    BY <2>1, <2>2
  <2>4. c = [role |-> c.role, state |-> c.state, token |-> c.token,
             client |-> c.client, server |-> c.server]
    BY <1>7 DEF Session
  <2> QED BY <1>6, <1>7, <1>8, <2>3, <2>4
<1> QED BY <1>1, <1>5, <1>6, <1>7, <1>9 DEF Matched

\* A client session that FinishConnect left in kConnected has its counterpart
\* at the server.
THEOREM PeersHold == ASSUME Deleted = {} PROVE Spec => []PeersAgree
  BY SmInvPeersAgree, SmInvariance, PTL

\* What a packet that is looked up by its number finds.
LEMMA AddressedIs ==
    ASSUME CoreInv, NEW m \in ByNumber, NEW s, s = Addressed(m)
    PROVE  /\ m.type = "kDisconnectReq" =>
                /\ m.server.num \in 1..Len(vec[Target(m)])
                /\ s # Null => /\ s.role = "kServer" /\ s.state = "kConnected"
                               /\ s.token = m.token
                               /\ s.client = m.client /\ s.server = m.server
           /\ m.type # "kDisconnectReq" =>
                /\ m.client.num \in 1..Len(vec[Target(m)])
                /\ s # Null => /\ s.role = "kClient" /\ s.token = m.token
                               /\ s.client = m.client /\ s.server.rpc = m.server.rpc
                               /\ s.state = "kConnectInProgress" =>
                                    s.server.num = kInvalidSessionNum
           /\ m.type = "kDisconnectResp" /\ s # Null =>
                s.state = "kDisconnectInProgress" /\ s.server = m.server
<1>1. /\ m \in udp /\ m \in SmPkt /\ m.type \in {"kDisconnectReq", "kConnectResp", "kDisconnectResp"}
      /\ m.server \in Endpoint
  BY PacketFacts DEF ByNumber, CoreInv, Reqs, Resps
<1>2. PICK o : o = Origin(m)
  OBVIOUS
<1>3. /\ o \in Origins /\ o.token = m.token /\ o.client = m.client /\ o.srv = m.server.rpc
      /\ PacketNamed(m)
  BY <1>1, <1>2, HasOrigin DEF Origin, CoreInv, PacketsNamed
<1>4. CASE m.type = "kDisconnectReq"
  <2>1. PICK r, n : r = m.server.rpc /\ n = m.server.num
    OBVIOUS
  <2>2. Target(m) = r
    BY <1>4, <2>1 DEF Target, Reqs
  <2>3. n \in 1..Len(vec[r])
    BY <1>1, <1>4, <2>1, DisconnectSession
  <2>4. s = IF n \in Live(r) THEN vec[r][n] ELSE Null
    BY <1>4, <2>1, <2>2 DEF Addressed
  <2>5. Accepted(o) /\ n = tokens[o.srv][o.token]
    BY <1>2, <1>3, <1>4, <2>1 DEF PacketNamed, ServerNamed
  <2>6. ASSUME s # Null
        PROVE  /\ s.role = "kServer" /\ s.state = "kConnected" /\ s.token = m.token
               /\ s.client = m.client /\ s.server = m.server
    <3>1. s = ServerOf(o)
      BY <1>3, <2>1, <2>4, <2>5, <2>6 DEF ServerOf
    <3>2. /\ s.role = "kServer" /\ s.state = "kConnected" /\ s.token = o.token
          /\ s.client = o.client /\ s.server = [rpc |-> o.srv, num |-> n]
      BY <1>3, <2>5, <2>6, <3>1, ServerFound
    <3>3. m.server = [rpc |-> o.srv, num |-> n]
      BY <1>1, <1>3, <2>1 DEF Endpoint
    <3> QED BY <1>3, <3>2, <3>3
  <2> QED BY <1>4, <2>1, <2>2, <2>3, <2>6
<1>5. CASE m.type # "kDisconnectReq"
  <2>1. PICK r, n : r = m.client.rpc /\ n = m.client.num
    OBVIOUS
  <2>2. Target(m) = r
    BY <1>1, <1>5, <2>1 DEF Target, Reqs
  <2>3. n \in 1..Len(vec[r]) /\ r \in Rpcs
    BY <1>1, <2>1, RespSlot
  <2>4. s = IF n \in Live(r) THEN vec[r][n] ELSE Null
    BY <1>5, <2>1, <2>2 DEF Addressed
  <2>5. ASSUME s # Null
        PROVE  /\ n \in Live(r) /\ s = vec[r][n] /\ s \in Session /\ s.role = "kClient"
               /\ s.token = m.token /\ s.client = m.client /\ s.server.rpc = m.server.rpc
    <3>1. n \in Live(r) /\ s = vec[r][n]
      BY <2>4, <2>5
    <3> QED BY <1>1, <2>1, <2>5, <3>1, RespSession
  <2>6. ASSUME s # Null PROVE ClientServed(s)
    BY <2>3, <2>5, <2>6 DEF CoreInv, ClientsServed
  <2>7. ASSUME s # Null, s.state = "kConnectInProgress" PROVE s.server.num = kInvalidSessionNum
    BY <2>5, <2>6, <2>7 DEF ClientServed
  <2>8. ASSUME s # Null, m.type = "kDisconnectResp"
        PROVE  s.state = "kDisconnectInProgress" /\ s.server = m.server
    <3>1. ClientOf(o) = s
      BY <1>3, <2>1, <2>5, <2>8 DEF ClientOf
    <3>2. s.state = "kDisconnectInProgress" /\ ServerNamed(m)
      BY <1>2, <1>3, <2>8, <3>1 DEF PacketNamed
    <3>3. ServerNamed(s)
      BY <2>5, <2>6, <2>8, <3>2 DEF ClientServed
    <3>4. s.server.num = m.server.num
      BY <2>5, <2>8, <3>2, <3>3 DEF ServerNamed
    <3>5. s.server \in Endpoint
      BY <2>5, <2>8 DEF Session
    <3> QED BY <1>1, <2>5, <2>8, <3>2, <3>4, <3>5 DEF Endpoint
  <2> QED BY <1>5, <2>1, <2>2, <2>3, <2>5, <2>7, <2>8
<1> QED BY <1>4, <1>5

LEMMA SmInvSmAsserts == SmInv => SmAsserts /\ TokenUnneeded
<1> SUFFICES ASSUME CoreInv PROVE SmAsserts /\ TokenUnneeded
  BY DEF SmInv
<1>1. SmAsserts
  BY AddressedIs DEF SmAsserts, Connecting
<1>2. TokenUnneeded
  BY AddressedIs DEF TokenUnneeded
<1> QED BY <1>1, <1>2

\* None of the asserts of the connect and disconnect handlers fires: a packet
\* looked up by number finds a session of the role, the state and the endpoints
\* it implies.
THEOREM AssertsHold == ASSUME Deleted = {} PROVE Spec => []SmAsserts
  BY SmInvSmAsserts, SmInvariance, PTL

\* The handlers that do not compare tokens never apply a packet to a session it
\* was not sent for.
THEOREM TokenUnneededHolds == ASSUME Deleted = {} PROVE Spec => []TokenUnneeded
  BY SmInvSmAsserts, SmInvariance, PTL

LEMMA SmInvOwned == SmInv => Owned
<1> SUFFICES ASSUME CoreInv, NEW r \in Rpcs, NEW n \in Live(r), vec[r][n].role = "kServer",
                    events[vec[r][n].token] # <<"kConnectFailed">>
             PROVE  /\ vec[r][n].client.num \in Live(vec[r][n].client.rpc)
                    /\ vec[vec[r][n].client.rpc][vec[r][n].client.num].token = vec[r][n].token
  BY DEF SmInv, Owned
<1>1. PICK s, o : s = vec[r][n] /\ o = Origin(vec[r][n])
  OBVIOUS
<1>2. /\ o \in Origins /\ o.token = s.token /\ o.client = s.client /\ o.srv = s.server.rpc
      /\ s # Null
  BY <1>1, HasOrigin DEF Origin, Live
<1>3. s.server = [rpc |-> r, num |-> n] /\ s.token \in DOMAIN tokens[r] /\ tokens[r][s.token] = n
  BY <1>1 DEF CoreInv, SlotsNamed, SlotNamed
<1>4. ServerOf(o) # Null
  BY <1>1, <1>2, <1>3 DEF ServerOf
<1>5. EventTells(o)
  BY <1>2 DEF CoreInv, EventsTell
<1>6. ClientOf(o) # Null
  BY <1>1, <1>2, <1>4, <1>5 DEF EventTells
<1>7. PICK c : c = ClientOf(o)
  OBVIOUS
<1>8. o.client.num \in Live(o.client.rpc) /\ Origin(c) = o
  BY <1>2, <1>6, <1>7, ClientIs
<1>9. c.token = s.token /\ c = vec[s.client.rpc][s.client.num]
  BY <1>2, <1>7, <1>8 DEF Origin, ClientOf
<1> QED BY <1>1, <1>2, <1>8, <1>9

\* handle_connect_req_st never leaves a server session behind that no client
\* session answers for, except when the client was told that connecting failed.
THEOREM OwnedHolds == ASSUME Deleted = {} PROVE Spec => []Owned
  BY SmInvOwned, SmInvariance, PTL

-------------------------------------------------------------------------------
(***************************************************************************)
(* Callbacks.                                                              *)
(***************************************************************************)
\* The callbacks of a session in state st.
Told(st) == IF st = "kConnectInProgress" THEN <<>> ELSE <<"kConnected">>

Histories == {<<>>, <<"kConnected">>, <<"kConnectFailed">>, <<"kConnected", "kDisconnected">>}

LEMMA AppendPair == ASSUME NEW a, NEW b PROVE Append(<<a>>, b) = <<a, b>>
<1>1. Append(<<a>>, b) = [i \in 1..2 |-> IF i = 2 THEN b ELSE a]
  OBVIOUS
<1>2. <<a, b>> = [i \in 1..2 |-> IF i = 2 THEN b ELSE a]
  OBVIOUS
<1> QED BY <1>1, <1>2

\* Two client sessions do not share a token.
LEMMA OneToken ==
    ASSUME CoreInv, NEW r \in Rpcs, NEW n \in Live(r), NEW q \in Rpcs, NEW k \in Live(q),
           vec[r][n].role = "kClient", vec[q][k].role = "kClient",
           vec[r][n].token = vec[q][k].token
    PROVE  q = r /\ k = n
<1>1. PICK o, p : o = Origin(vec[r][n]) /\ p = Origin(vec[q][k])
  OBVIOUS
<1>2. o \in Origins /\ p \in Origins /\ o.token = p.token
  BY <1>1, HasOrigin DEF Origin
<1>3. o.client = p.client
  BY <1>2 DEF CoreInv, OriginsAgree
<1>4. o.client = [rpc |-> r, num |-> n] /\ p.client = [rpc |-> q, num |-> k]
  BY <1>1, ClientSelf DEF Origin
<1>5. r = o.client.rpc /\ n = o.client.num /\ q = p.client.rpc /\ k = p.client.num
  BY <1>4
<1> QED BY <1>3, <1>5

\* No callback: a client session is new, or was already there, and if it moved
\* it had been connected.
LEMMA CalledQuiet ==
    ASSUME CoreInv, CreateCalledBack, TypeOK', events' = events, created' >= created,
           \A q \in Rpcs : \A k \in Live(q)' : vec'[q][k].role = "kClient" =>
             \/ /\ k \in Live(q) /\ vec[q][k].role = "kClient"
                /\ vec'[q][k].token = vec[q][k].token
                /\ Told(vec'[q][k].state) = Told(vec[q][k].state)
             \/ /\ vec'[q][k].token > created
                /\ vec'[q][k].state = "kConnectInProgress"
    PROVE  CreateCalledBack'
<1>0. created \in Nat /\ created' \in Nat /\ \A t \in 1..created' : t \in Token
  <2>1. created \in 0..MaxSessions /\ created' \in 0..MaxSessions
    BY DEF CoreInv, BaseInv, TypeOK
  <2> QED BY <2>1, SmAssumption DEF Token
<1>1. ASSUME NEW t \in 1..created', t > created PROVE events[t] = <<>>
  BY <1>0, <1>1 DEF CoreInv, EventsTell
<1>2. ASSUME NEW t \in 1..created' PROVE events'[t] \in Histories
  <2>1. CASE t > created
    BY <1>1, <2>1 DEF Histories
  <2>2. CASE t \in 1..created
    BY <2>2 DEF CreateCalledBack, Histories
  <2> QED BY <1>0, <2>1, <2>2
<1>3. ASSUME NEW t \in 1..created', NEW q \in Rpcs, NEW k \in Live(q)',
             vec'[q][k].role = "kClient", vec'[q][k].token = t
      PROVE  events'[t] = Told(vec'[q][k].state)
  <2>1. CASE /\ k \in Live(q) /\ vec[q][k].role = "kClient" /\ vec[q][k].token = t
             /\ Told(vec'[q][k].state) = Told(vec[q][k].state)
    <3>1. Origin(vec[q][k]) \in Origins /\ Origin(vec[q][k]).token = t
      BY <2>1, HasOrigin DEF Origin
    <3>2. t \in 1..created
      BY <3>1 DEF CoreInv, OriginsAgree
    <3>3. events[t] = Told(vec[q][k].state)
      BY <2>1, <3>2 DEF CreateCalledBack, Told
    <3> QED BY <2>1, <3>3
  <2>2. CASE t > created /\ vec'[q][k].state = "kConnectInProgress"
    BY <1>1, <2>2 DEF Told
  <2> QED BY <1>3, <2>1, <2>2
<1> QED BY <1>2, <1>3 DEF CreateCalledBack, Told, Histories

\* A callback, with which session n of r connects or ends.
LEMMA CalledOnce ==
    ASSUME CoreInv, CreateCalledBack, TypeOK', created' = created,
           NEW r \in Rpcs, NEW n \in Live(r), vec[r][n].role = "kClient",
           NEW v, Updated(r, n, v), v # Null => v.token = vec[r][n].token,
           NEW e, Callback(vec[r][n].token, e),
           \/ /\ vec[r][n].state = "kConnectInProgress" /\ e = "kConnected"
              /\ v # Null => v.state = "kConnected"
           \/ vec[r][n].state = "kConnectInProgress" /\ e = "kConnectFailed" /\ v = Null
           \/ vec[r][n].state = "kDisconnectInProgress" /\ e = "kDisconnected" /\ v = Null
    PROVE  CreateCalledBack'
<1>0. PICK s : s = vec[r][n]
  OBVIOUS
<1>1. s \in Session /\ s.role = "kClient" /\ s.token \in Token /\ TypeOK
  BY <1>0, LiveSession DEF CoreInv, BaseInv, TypeOK, VecType, Session
<1>2. s.token \in 1..created
  BY <1>0, HasOrigin DEF CoreInv, OriginsAgree, Origin
<1>3. events[s.token] = Told(s.state)
  BY <1>0, <1>1, <1>2 DEF CreateCalledBack, Told
<1>4. /\ events'[s.token] = Append(events[s.token], e)
      /\ \A u \in Token \ {s.token} : events'[u] = events[u]
  BY <1>0, <1>1, CallbackEffect
<1>5. /\ events'[s.token] \in Histories
      /\ v # Null => events'[s.token] = Told(v.state)
  <2>1. CASE s.state = "kConnectInProgress" /\ e = "kConnected"
    <3>1. events'[s.token] = <<"kConnected">>
      BY <1>3, <1>4, <2>1 DEF Told
    <3> QED BY <1>0, <2>1, <3>1 DEF Told, Histories
  <2>2. CASE s.state = "kConnectInProgress" /\ e = "kConnectFailed" /\ v = Null
    BY <1>3, <1>4, <2>2 DEF Told, Histories
  <2>3. CASE s.state = "kDisconnectInProgress" /\ e = "kDisconnected" /\ v = Null
    <3>1. events[s.token] = <<"kConnected">>
      BY <1>3, <2>3 DEF Told
    <3>2. events'[s.token] = <<"kConnected", "kDisconnected">>
      BY <1>4, <2>3, <3>1, AppendPair
    <3> QED BY <2>3, <3>2 DEF Histories
  <2> QED BY <1>0, <2>1, <2>2, <2>3
<1>6. \A t \in 1..created : t \in Token
  <2>1. created \in 0..MaxSessions
    BY <1>1 DEF TypeOK
  <2> QED BY <2>1, SmAssumption DEF Token
<1>7. ASSUME NEW t \in 1..created PROVE events'[t] \in Histories
  BY <1>4, <1>5, <1>6 DEF CreateCalledBack, Histories
<1>8. ASSUME NEW t \in 1..created, NEW q \in Rpcs, NEW k \in Live(q)',
             vec'[q][k].role = "kClient", vec'[q][k].token = t
      PROVE  events'[t] = Told(vec'[q][k].state)
  <2>1. CASE q = r /\ k = n
    BY <1>0, <1>5, <1>8, <2>1 DEF Updated, Live
  <2>2. CASE ~(q = r /\ k = n)
    <3>1. k \in Live(q) /\ vec'[q][k] = vec[q][k]
      <4>1. CASE q # r
        BY <1>8, <4>1 DEF Updated
      <4>2. CASE q = r
        BY <1>8, <2>2, <4>2 DEF Updated, Live
      <4> QED BY <4>1, <4>2
    <3>2. t # s.token
      BY <1>0, <1>1, <1>8, <2>2, <3>1, OneToken
    <3>3. events'[t] = events[t]
      BY <1>4, <1>6, <3>2
    <3> QED BY <1>8, <3>1, <3>3 DEF CreateCalledBack, Told
  <2> QED BY <2>1, <2>2
<1> QED BY <1>7, <1>8 DEF CreateCalledBack, Told, Histories

\* The callbacks of a client session whose slot is touched by nobody.
Same(q, k) == k \in Live(q) /\ vec'[q][k] = vec[q][k]

LEMMA CalledSame ==
    ASSUME CoreInv, CreateCalledBack, TypeOK', events' = events, created' = created,
           \A q \in Rpcs : \A k \in Live(q)' : vec'[q][k].role = "kClient" => Same(q, k)
    PROVE  CreateCalledBack'
<1>1. created' >= created
  BY DEF CoreInv, BaseInv, TypeOK
<1> QED BY <1>1, CalledQuiet DEF Same

\* The slots that an update leaves alone.
LEMMA UpdatedSame ==
    ASSUME NEW r, NEW n, NEW v, Updated(r, n, v), NEW q \in Rpcs, NEW k \in Live(q)',
           ~(q = r /\ k = n)
    PROVE  Same(q, k)
<1>1. CASE q # r
  BY <1>1 DEF Updated, Same
<1>2. CASE q = r
  BY <1>2 DEF Updated, Live, Same
<1> QED BY <1>1, <1>2

LEMMA AppendedSame ==
    ASSUME TypeOK, NEW r \in Rpcs, NEW s, Appended(r, s), NEW q \in Rpcs, NEW k \in Live(q)',
           ~(q = r /\ k = Len(vec[r]) + 1)
    PROVE  Same(q, k)
<1>1. CASE q # r
  BY <1>1 DEF Appended, Same
<1>2. CASE q = r
  BY <1>2 DEF Appended, Live, Same
<1> QED BY <1>1, <1>2

LEMMA CalledConnectResp ==
    ASSUME "client_resolve" \notin MayFail, SmInv, SmInv', CreateCalledBack, NEW m \in udp,
           handle_connect_resp_st(m.client.rpc, m)
    PROVE  CreateCalledBack'
<1>0. CoreInv /\ TypeOK /\ TypeOK'
  BY DEF SmInv, CoreInv, BaseInv
<1>1. PICK r, n : r = m.client.rpc /\ n = m.client.num
  OBVIOUS
<1>2. m \in SmPkt /\ r \in Rpcs /\ n \in 1..Len(vec[r]) /\ created' = created
  BY <1>0, <1>1, RespSlot DEF handle_connect_resp_st
<1>3. ASSUME Connecting(vec[r][n])
      PROVE  /\ n \in Live(r) /\ vec[r][n] \in Session /\ vec[r][n].role = "kClient"
             /\ vec[r][n].state = "kConnectInProgress"
  <2>1. vec[r][n] # Null /\ vec[r][n].state = "kConnectInProgress"
    BY <1>3 DEF Connecting
  <2> QED BY <1>0, <1>1, <2>1, RespSession
<1>4. CASE IgnoreConnectResp(r, m) \/ RetryConnect(r, m)
  <2>1. vec' = vec /\ events' = events
    BY <1>4 DEF IgnoreConnectResp, RetryConnect
  <2> QED BY <1>0, <1>2, <2>1, CalledSame DEF Same, Live
<1>5. CASE FailConnect(r, m)
  <2>1. Connecting(vec[r][n]) /\ Callback(vec[r][n].token, "kConnectFailed") /\ bury_session_st(r, n)
    BY <1>1, <1>5 DEF FailConnect
  <2>2. Updated(r, n, Null)
    BY <1>0, <1>2, <2>1, BuryEffect
  <2> QED BY <1>0, <1>2, <1>3, <2>1, <2>2, CalledOnce
<1>6. ~UnresolvedServer(r, m)
  BY DEF UnresolvedServer
<1>7. CASE FinishConnect(r, m)
  <2>1. Connecting(vec[r][n]) /\ Callback(vec[r][n].token, "kConnected")
    BY <1>1, <1>7 DEF FinishConnect
  <2>2. PICK v : v = Moved(vec[r][n], "kConnected", m.server)
    OBVIOUS
  <2>3. Updated(r, n, v)
    BY <1>0, <1>1, <1>2, <1>7, <2>2, FinishConnectEffect
  <2>4. v.state = "kConnected" /\ v.token = vec[r][n].token
    BY <2>2 DEF Moved
  <2> QED BY <1>0, <1>2, <1>3, <2>1, <2>3, <2>4, CalledOnce
<1> QED BY <1>1, <1>4, <1>5, <1>6, <1>7 DEF handle_connect_resp_st

LEMMA CalledDisconnectResp ==
    ASSUME SmInv, SmInv', CreateCalledBack, NEW m \in udp,
           handle_disconnect_resp_st(m.client.rpc, m)
    PROVE  CreateCalledBack'
<1>0. CoreInv /\ TypeOK /\ TypeOK'
  BY DEF SmInv, CoreInv, BaseInv
<1>1. PICK r, n : r = m.client.rpc /\ n = m.client.num
  OBVIOUS
<1>2. m \in SmPkt /\ r \in Rpcs /\ n \in 1..Len(vec[r])
  BY <1>0, <1>1, RespSlot
<1>3. /\ created' = created /\ m.type = "kDisconnectResp"
      /\ vec[r][n] = Null => UNCHANGED <<vec, events>>
      /\ vec[r][n] # Null => Callback(vec[r][n].token, "kDisconnected") /\ bury_session_st(r, n)
  BY <1>1 DEF handle_disconnect_resp_st
<1>4. CASE vec[r][n] = Null
  BY <1>0, <1>3, <1>4, CalledSame DEF Same, Live
<1>5. CASE vec[r][n] # Null
  <2>1. n \in Live(r) /\ vec[r][n].role = "kClient"
    BY <1>0, <1>1, <1>5, RespSession
  <2>2. vec[r][n].state = "kDisconnectInProgress"
    <3>1. PacketNamed(m) /\ ClientOf(Origin(m)) = vec[r][n]
      BY <1>0, <1>1 DEF CoreInv, PacketsNamed, ClientOf, Origin
    <3> QED BY <1>3, <1>5, <3>1 DEF PacketNamed
  <2>3. Updated(r, n, Null)
    BY <1>0, <1>2, <1>3, <1>5, BuryEffect
  <2> QED BY <1>0, <1>2, <1>3, <1>5, <2>1, <2>2, <2>3, CalledOnce
<1> QED BY <1>4, <1>5

LEMMA CalledServer ==
    ASSUME SmInv, SmInv', CreateCalledBack, NEW m \in udp,
           \/ handle_disconnect_req_st(m.server.rpc, m)
           \/ handle_connect_req_st(m.server.rpc, m)
    PROVE  CreateCalledBack'
<1>0. CoreInv /\ TypeOK /\ TypeOK'
  BY DEF SmInv, CoreInv, BaseInv
<1>1. PICK r : r = m.server.rpc
  OBVIOUS
<1>2. m \in SmPkt /\ r \in Rpcs /\ UNCHANGED <<created, events>>
  BY <1>0, <1>1, PacketFacts DEF CoreInv, handle_disconnect_req_st, handle_connect_req_st
<1>3. CASE vec' = vec
  BY <1>0, <1>2, <1>3, CalledSame DEF Same, Live
<1>4. CASE m.type = "kConnectReq" /\ AcceptConnect(r, m)
  <2>1. PICK s : s = NewServer(r, m)
    OBVIOUS
  <2>2. Appended(r, s)
    BY <1>0, <1>1, <1>2, <1>4, <2>1, AcceptEffect DEF Reqs
  <2>3. s.role = "kServer" /\ vec'[r][Len(vec[r]) + 1] = s
    BY <2>1, <2>2 DEF NewServer, Appended
  <2>4. ASSUME NEW q \in Rpcs, NEW k \in Live(q)', vec'[q][k].role = "kClient" PROVE Same(q, k)
    BY <1>0, <1>2, <2>2, <2>3, <2>4, AppendedSame
  <2> QED BY <1>0, <1>2, <2>4, CalledSame
<1>5. CASE m.type = "kDisconnectReq" /\ bury_session_st(r, m.server.num)
  <2>1. m.server.num \in 1..Len(vec[r])
    BY <1>0, <1>1, <1>5, DisconnectSession
  <2>2. Updated(r, m.server.num, Null)
    BY <1>0, <1>2, <1>5, <2>1, BuryEffect
  <2>3. m.server.num \notin Live(r)'
    BY <2>2 DEF Updated
  <2>4. ASSUME NEW q \in Rpcs, NEW k \in Live(q)' PROVE Same(q, k)
    BY <2>2, <2>3, UpdatedSame
  <2> QED BY <1>0, <1>2, <2>4, CalledSame
<1>6. CASE handle_disconnect_req_st(m.server.rpc, m)
  <2>1. m.type = "kDisconnectReq" /\ (vec' = vec \/ bury_session_st(r, m.server.num))
    BY <1>1, <1>6 DEF handle_disconnect_req_st
  <2> QED BY <1>3, <1>5, <2>1
<1>7. CASE handle_connect_req_st(m.server.rpc, m)
  <2>1. /\ m.type = "kConnectReq"
        /\ RepeatConnect(r, m) \/ RefuseConnect(r, m) \/ AcceptConnect(r, m)
    BY <1>1, <1>7 DEF handle_connect_req_st
  <2>2. CASE RepeatConnect(r, m)
    BY <1>3, <2>2 DEF RepeatConnect
  <2>3. CASE RefuseConnect(r, m)
    BY <1>3, <2>3 DEF RefuseConnect
  <2> QED BY <1>4, <2>1, <2>2, <2>3
<1> QED BY <1>6, <1>7

LEMMA CalledStep ==
    ASSUME Deleted = {}, "client_resolve" \notin MayFail, SmInv, SmInv', CreateCalledBack,
           [Next]_vars
    PROVE  CreateCalledBack'
<1>0. CoreInv /\ TypeOK /\ TypeOK'
  BY DEF SmInv, CoreInv, BaseInv
<1>1. ASSUME vec' = vec, UNCHANGED <<created, events>> PROVE CreateCalledBack'
  BY <1>0, <1>1, CalledSame DEF Same, Live
<1>2. ASSUME NEW r \in Rpcs, Rpc_ctor(r) PROVE CreateCalledBack'
  <2>1. /\ UNCHANGED <<created, events>> /\ ~hook[r] /\ vec' = [vec EXCEPT ![r] = <<>>]
    BY <1>2 DEF Rpc_ctor
  <2>2. vec[r] = <<>>
    BY <1>0, <2>1 DEF CoreInv, NotBuilt
  <2>3. vec' = vec
    BY <1>0, <2>1, <2>2 DEF TypeOK
  <2> QED BY <1>1, <2>1, <2>3
<1>3. ASSUME NEW r \in Rpcs, Rpc_dtor(r) PROVE CreateCalledBack'
  BY <1>3 DEF Rpc_dtor
<1>4. ASSUME NEW r \in Rpcs, NEW rem \in Rpcs, create_session_st(r, rem) PROVE CreateCalledBack'
  <2>1. PICK s : s = NewClient(r, rem)
    OBVIOUS
  <2>2. Appended(r, s) /\ created' = created + 1 /\ events' = events
    BY <1>0, <1>4, <2>1, CreateEffect DEF create_session_st
  <2>3. created \in Nat
    BY <1>0 DEF TypeOK
  <2>4. /\ s.token > created /\ s.state = "kConnectInProgress" /\ created' >= created
        /\ vec'[r][Len(vec[r]) + 1] = s
    BY <2>1, <2>2, <2>3 DEF NewClient, Appended
  <2>5. ASSUME NEW q \in Rpcs, NEW k \in Live(q)', vec'[q][k].role = "kClient"
        PROVE  \/ /\ k \in Live(q) /\ vec[q][k].role = "kClient"
                  /\ vec'[q][k].token = vec[q][k].token
                  /\ Told(vec'[q][k].state) = Told(vec[q][k].state)
               \/ /\ vec'[q][k].token > created
                  /\ vec'[q][k].state = "kConnectInProgress"
    <3>1. CASE q = r /\ k = Len(vec[r]) + 1
      BY <2>4, <3>1
    <3>2. CASE ~(q = r /\ k = Len(vec[r]) + 1)
      BY <1>0, <2>2, <2>5, <3>2, AppendedSame DEF Same
    <3> QED BY <3>1, <3>2
  <2> QED BY <1>0, <2>2, <2>4, <2>5, CalledQuiet
<1>5. ASSUME NEW r \in Rpcs, NEW n \in 1..Len(vec[r]), destroy_session_st(r, n)
      PROVE  CreateCalledBack'
  <2>1. PICK s : s = vec[r][n]
    OBVIOUS
  <2>2. /\ s # Null /\ s.role = "kClient" /\ s.state = "kConnected"
        /\ StartDisconnect(r, n, s.server) /\ UNCHANGED <<created, events>>
    BY <1>5, <2>1 DEF destroy_session_st
  <2>3. n \in Live(r) /\ s.server \in Endpoint
    BY <1>0, <2>1, <2>2, LiveSession DEF Live, TypeOK, VecType, Session
  <2>4. PICK v : v = Moved(s, "kDisconnectInProgress", s.server)
    OBVIOUS
  <2>5. Updated(r, n, v)
    BY <1>0, <2>1, <2>2, <2>3, <2>4, StartDisconnectEffect
  <2>6. /\ v.token = s.token /\ v.state = "kDisconnectInProgress" /\ created' >= created
        /\ vec'[r][n] = v
    BY <1>0, <2>2, <2>4, <2>5 DEF Moved, Updated, TypeOK
  <2>7. ASSUME NEW q \in Rpcs, NEW k \in Live(q)', vec'[q][k].role = "kClient"
        PROVE  \/ /\ k \in Live(q) /\ vec[q][k].role = "kClient"
                  /\ vec'[q][k].token = vec[q][k].token
                  /\ Told(vec'[q][k].state) = Told(vec[q][k].state)
               \/ /\ vec'[q][k].token > created
                  /\ vec'[q][k].state = "kConnectInProgress"
    <3>1. CASE q = r /\ k = n
      BY <2>1, <2>2, <2>3, <2>6, <3>1 DEF Told
    <3>2. CASE ~(q = r /\ k = n)
      BY <2>5, <2>7, <3>2, UpdatedSame DEF Same
    <3> QED BY <3>1, <3>2
  <2> QED BY <1>0, <2>2, <2>6, <2>7, CalledQuiet
<1>6. ASSUME NEW r \in Rpcs, NEW n \in 1..Len(vec[r]), pkt_loss_scan_st(r, n)
      PROVE  CreateCalledBack'
  BY <1>1, <1>6 DEF pkt_loss_scan_st
<1>7. ASSUME NEW m \in udp, sm_thread_func(m) \/ Lose(m) PROVE CreateCalledBack'
  BY <1>1, <1>7 DEF sm_thread_func, Lose
<1>8. ASSUME NEW m \in udp, handle_sm_rx_st(m) PROVE CreateCalledBack'
  <2>2. CASE handle_connect_req_st(Target(m), m)
    <3>1. Target(m) = m.server.rpc
      BY <2>2 DEF handle_connect_req_st, Target, Reqs
    <3> QED BY <2>2, <3>1, CalledServer
  <2>3. CASE handle_connect_resp_st(Target(m), m)
    <3>1. Target(m) = m.client.rpc
      BY <2>3 DEF handle_connect_resp_st, Target, Reqs
    <3> QED BY <2>3, <3>1, CalledConnectResp
  <2>4. CASE handle_disconnect_req_st(Target(m), m)
    <3>1. Target(m) = m.server.rpc
      BY <2>4 DEF handle_disconnect_req_st, Target, Reqs
    <3> QED BY <2>4, <3>1, CalledServer
  <2>5. CASE handle_disconnect_resp_st(Target(m), m)
    <3>1. Target(m) = m.client.rpc
      BY <2>5 DEF handle_disconnect_resp_st, Target, Reqs
    <3> QED BY <2>5, <3>1, CalledDisconnectResp
  <2> QED BY <1>8, <2>2, <2>3, <2>4, <2>5 DEF handle_sm_rx_st
<1>9. CASE UNCHANGED vars
  BY <1>1, <1>9 DEF vars
<1> QED BY <1>2, <1>3, <1>4, <1>5, <1>6, <1>7, <1>8, <1>9 DEF Next

\* As long as no Rpc is deleted and the client can resolve the server's routing
\* info (handle_connect_resp_st), sm_handler_ is called with kConnected or
\* kConnectFailed once per created session, and with kDisconnected only after
\* kConnected.
THEOREM CallbacksHold ==
    ASSUME Deleted = {}, "client_resolve" \notin MayFail
    PROVE  Spec => []CreateCalledBack
<1>1. Init => CreateCalledBack
  BY DEF Init, CreateCalledBack
<1>2. SmInv /\ SmInv' /\ CreateCalledBack /\ [Next]_vars => CreateCalledBack'
  BY CalledStep
<1> QED BY <1>1, <1>2, SmInvariance, PTL DEF Spec
===============================================================================
