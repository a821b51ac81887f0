----------------------------- MODULE HeartbeatMgr -----------------------------
(***************************************************************************)
(* HeartbeatMgr: sends heartbeats to the tracked remote processes and      *)
(* checks that theirs arrive, from one time-ordered queue of events.  The  *)
(* Nexus constructs one and nothing drives it at this commit: any caller   *)
(* may call its operations at any time, one after the other (do_one takes  *)
(* no lock, so it is for its caller to keep the others away), and no call  *)
(* need ever come.                                                         *)
(*                                                                         *)
(* Times are kept relative to the present: an event by the time that       *)
(* remains until it is due (0 once it is in the past), a timestamp by its  *)
(* age.  The queue is the sequence of the events in the order of their     *)
(* timestamps.                                                             *)
(***************************************************************************)
EXTENDS Integers, Sequences, FiniteSets
LOCAL INSTANCE FiniteSetsExt

CONSTANTS Uris,              \* remote processes
          failure_timeout,   \* failure_timeout_tsc_
          hb_send_delta,     \* hb_send_delta_tsc_, about a tenth of it
          hb_check_delta,    \* hb_check_delta_tsc_, half of it
          MaxAdds            \* bound on calls of unlocked_add_remote

ASSUME HeartbeatAssumption ==
    /\ failure_timeout \in Nat /\ hb_send_delta \in Nat /\ hb_check_delta \in Nat
    /\ 0 < hb_send_delta /\ hb_send_delta <= hb_check_delta
    /\ hb_check_delta <= failure_timeout /\ MaxAdds \in Nat

VARIABLES hb_events,    \* hb_event_pqueue_
          last_hb_rx,   \* map_last_hb_rx_, an age per tracked URI
          failed_uris,  \* URIs that do_one reported since they were added
          silence,      \* time each tracked URI was not heard, kept when it is reported
          hb_alive,     \* remote processes that still send heartbeats
          hb_adds       \* calls of unlocked_add_remote per URI

hbvars == <<hb_events, last_hb_rx, failed_uris, silence, hb_alive, hb_adds>>

Ages == 0 .. failure_timeout + 1    \* one more than the timeout is long ago
Older(a) == IF a <= failure_timeout THEN a + 1 ELSE a

HbEvent == [type : {"send", "check"}, uri : Uris, due : 0 .. hb_check_delta]
tracked == DOMAIN last_hb_rx

HbInit ==
    /\ hb_events = <<>> /\ last_hb_rx = <<>>
    /\ failed_uris = {} /\ silence = [u \in Uris |-> 0]
    /\ hb_alive = Uris /\ hb_adds = [u \in Uris |-> 0]

\* The queues after a push onto the priority queue q: e goes behind the events
\* due before it; its place among those due in the same tick is open.
push(q, e) ==
    {SubSeq(q, 1, i) \o <<e>> \o SubSeq(q, i + 1, Len(q)) :
        i \in {j \in 0 .. Len(q) :
                 /\ \A k \in 1 .. j : q[k].due <= e.due
                 /\ \A k \in j + 1 .. Len(q) : q[k].due >= e.due}}


schedule_hb_send(q, u) == push(q, [type |-> "send", uri |-> u, due |-> hb_send_delta])
schedule_hb_check(q, u) == push(q, [type |-> "check", uri |-> u, due |-> hb_check_delta])

\* unordered_map::emplace keeps the value of a key that is there already.
emplace(m, u, a) == [v \in DOMAIN m \cup {u} |-> IF v \in DOMAIN m THEN m[v] ELSE a]

unlocked_add_remote(u) ==
    /\ MapThenSumSet(LAMBDA v : hb_adds[v], Uris) < MaxAdds
    /\ hb_adds' = [hb_adds EXCEPT ![u] = @ + 1]
    /\ last_hb_rx' = emplace(last_hb_rx, u, 0)
    /\ \E q \in schedule_hb_send(hb_events, u) : hb_events' \in schedule_hb_check(q, u)
    /\ silence' = [silence EXCEPT ![u] = 0]
    /\ failed_uris' = failed_uris \ {u}
    /\ UNCHANGED hb_alive

\* A heartbeat of an untracked URI is ignored.
unlocked_receive_hb(u) ==
    /\ u \in hb_alive /\ u \in tracked
    /\ last_hb_rx' = emplace(last_hb_rx, u, 0)
    /\ silence' = [silence EXCEPT ![u] = 0]
    /\ UNCHANGED <<hb_events, failed_uris, hb_alive, hb_adds>>

check_failed(u) ==
    /\ failed_uris' = failed_uris \cup {u}
    /\ last_hb_rx' = [v \in tracked \ {u} |-> last_hb_rx[v]]

\* One iteration of the loop in do_one, on the event at the head.  The loop
\* ends at an event in the future, and at one of an untracked URI, which stays
\* where it is.
do_one ==
    /\ hb_events # <<>>
    /\ LET e == Head(hb_events)
           rest == Tail(hb_events)
       IN  /\ e.due = 0
           /\ e.uri \in tracked
           /\ \/ /\ e.type = "send"
                 /\ hb_events' \in schedule_hb_send(rest, e.uri)
                 /\ UNCHANGED <<failed_uris, last_hb_rx>>
              \/ /\ e.type = "check" /\ last_hb_rx[e.uri] > failure_timeout
                 /\ check_failed(e.uri)
                 /\ hb_events' = rest
              \/ /\ e.type = "check" /\ last_hb_rx[e.uri] <= failure_timeout
                 /\ hb_events' \in schedule_hb_check(rest, e.uri)
                 /\ UNCHANGED <<failed_uris, last_hb_rx>>
    /\ UNCHANGED <<silence, hb_alive, hb_adds>>

\* The time-stamp counter, in ticks.
hb_tick ==
    /\ hb_events' = [i \in DOMAIN hb_events |->
                        [hb_events[i] EXCEPT !.due = IF @ = 0 THEN 0 ELSE @ - 1]]
    /\ last_hb_rx' = [u \in tracked |-> Older(last_hb_rx[u])]
    /\ silence' = [u \in Uris |-> IF u \in tracked THEN Older(silence[u]) ELSE silence[u]]
    /\ UNCHANGED <<failed_uris, hb_alive, hb_adds>>

\* A remote process fails, and sends no more.
hb_peer_dies(u) ==
    /\ u \in hb_alive /\ hb_alive' = hb_alive \ {u}
    /\ UNCHANGED <<hb_events, last_hb_rx, failed_uris, silence, hb_adds>>

HbNext ==
    \/ \E u \in Uris : unlocked_add_remote(u) \/ unlocked_receive_hb(u) \/ hb_peer_dies(u)
    \/ do_one
    \/ hb_tick

HbSpec == HbInit /\ [][HbNext]_hbvars

HbTypeOK ==
    /\ hb_events \in Seq(HbEvent)
    /\ tracked \subseteq Uris /\ last_hb_rx \in [tracked -> Ages]
    /\ failed_uris \subseteq Uris /\ silence \in [Uris -> Ages]
    /\ hb_alive \subseteq Uris /\ hb_adds \in [Uris -> 0 .. MaxAdds]

HbPending(t, u) == {i \in DOMAIN hb_events : hb_events[i].type = t /\ hb_events[i].uri = u}


\* A process that is reported failed has been silent for the whole failure
\* timeout: "Its value for a remote URI is the timestamp when we last received
\* a heartbeat from the remote URI" (heartbeat_mgr.h:253-254).  The code breaks
\* it: emplace keeps the first time stamp (heartbeat_mgr.h:99).
OnlySilentFail == \A u \in failed_uris : silence[u] > failure_timeout
=============================================================================
