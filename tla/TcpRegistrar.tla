---------------------------- MODULE TcpRegistrar ----------------------------
(***************************************************************************)
(* center/TcpRegistrar over the ServiceRegistry, the connections of its    *)
(* TcpServer, and the requests of the clients (core/bus/IBusNet).  What a  *)
(* client does with the answers is left out: told keeps what they say.     *)
(*                                                                         *)
(* At the centre two threads run: the accept thread, which reads messages  *)
(* and sees connections closed by the peer, and the timer thread, which    *)
(* kicks connections that were silent for 30 s.  A handler is one step per *)
(* lock it takes, because the timer thread can come in between.            *)
(***************************************************************************)
EXTENDS ServiceRegistry, Integers

CONSTANTS MaxConn,     \* bound: connections each instance makes, one after the other
          Mortal,      \* bound: the instances whose process may end
          MaxMishaps,  \* bound: leases of running instances that lapse, slow answers,
                       \* connections given up with a request in flight or kicked
          None

ASSUME RegistrarAssumption == /\ MaxConn \in [Ids -> Nat]
                              /\ MaxMishaps \in Nat /\ Mortal \subseteq Ids
                              /\ IsFiniteSet(Ids)

VARIABLES
  conns,                                          \* conn_map_ of the TcpServer
  fd_to_id_, fd_to_inst_, fd_to_got_full_update_, \* the keys of the three maps
  pc, handling, deltas,   \* accept thread: step, connection, what pop_deltas returned
  kicked,                 \* conns_to_close of the timer thread
  disconnecting,          \* the connection handleDisconnect is working on
  online,                 \* the instances whose process runs
  made,                   \* how many connections each has made; it uses the last
  ready_,                 \* IBusNet: the registration was confirmed
  late,                   \* connections no longer used, with a request in flight
  mishaps,
  told, disturbed         \* history: what the answers to each instance add up to, and
                          \* the instances to which something unusual has happened

mapvars == <<fd_to_id_, fd_to_inst_, fd_to_got_full_update_>>
handlervars == <<pc, handling, deltas>>
timervars == <<kicked, disconnecting>>
clientvars == <<online, made, ready_>>
vars == <<registryvars, conns, mapvars, handlervars, timervars, clientvars, late,
          mishaps, told, disturbed>>

Conns == UNION {{i} \X (1 .. MaxConn[i]) : i \in Ids}

ASSUME NoneAssumption == None \notin Conns

Owner(c) == c[1]                \* every message on a connection names its owner
Current(i) == <<i, made[i]>>

Init == /\ RegistryInit
        /\ conns = {} /\ fd_to_id_ = {} /\ fd_to_inst_ = {} /\ fd_to_got_full_update_ = {}
        /\ pc = "idle" /\ handling = None /\ deltas = <<>>
        /\ kicked = {} /\ disconnecting = None
        /\ online = {}
        /\ made = [i \in Ids |-> 0] /\ ready_ = [i \in Ids |-> FALSE]
        /\ late = {} /\ mishaps = 0 /\ told = [i \in Ids |-> {}] /\ disturbed = {}

----------------------------------------------------------------------------
(* The clients.                                                            *)

NewConnection(i) == /\ made[i] < MaxConn[i]
                    /\ made' = [made EXCEPT ![i] = @ + 1]
                    /\ conns' = conns \cup {<<i, made[i] + 1>>}

\* A process starts, or starts again after Stop.
Start(i) == /\ i \notin online
            /\ NewConnection(i)
            /\ online' = online \cup {i}
            /\ ready_' = [ready_ EXCEPT ![i] = FALSE]
            /\ UNCHANGED <<registryvars, mapvars, handlervars, timervars, late,
                           mishaps, told, disturbed>>

Mishap == mishaps < MaxMishaps /\ mishaps' = mishaps + 1

\* The connection that is given up may have a request in flight.
GiveUp(i) == \/ UNCHANGED <<late, mishaps>>
             \/ Mishap /\ late' = late \cup ({Current(i)} \cap conns)

\* A process ends or crashes.
Stop(i) == /\ i \in online \cap Mortal
           /\ online' = online \ {i}
           /\ GiveUp(i)
           /\ UNCHANGED <<registryvars, conns, mapvars, handlervars, timervars, made,
                          ready_, told, disturbed>>

\* TcpClient::checkHeartbeat: 30 s without traffic, stop() and start().  ready_ stays.
Reconnect(i) == /\ i \in online
                /\ NewConnection(i)
                /\ GiveUp(i)
                /\ UNCHANGED <<registryvars, mapvars, handlervars, timervars, online,
                               ready_, told, disturbed>>

\* What the changes in a list, applied in order, make of a set of ids.
Apply(ids, infos) ==
  LET latest(i) == CHOOSE n \in DOMAIN infos :
                     infos[n].inst = i /\ \A m \in DOMAIN infos : infos[m].inst = i => m <= n
      Named == {infos[n].inst : n \in DOMAIN infos}
  IN  (ids \ Named) \cup {i \in Named : infos[latest(i)].op = "UPSERT"}

----------------------------------------------------------------------------
(* The accept thread.  "locked" is a step that needs conn_mu_ or the       *)
(* conn_mutex_ of the server, which handleDisconnect holds.                *)

At(step) == pc = step
Goto(step) == pc' = step
Locked == disconnecting = None
me == Owner(handling)

\* A request is read.  regist2Center sends one every second until it is ready,
\* updateServiceStatusReq one every five from then on.  An instance is disturbed when the
\* centre still holds another connection of it.
Read(c, kind) ==
  /\ At("idle") /\ Locked /\ c \in conns
  /\ \/ c \in late
     \/ /\ Owner(c) \in online /\ c = Current(Owner(c))
        /\ kind = IF ready_[Owner(c)] THEN "status" ELSE "regist"
  /\ late' = late \ {c}
  /\ handling' = c
  /\ disturbed' = IF \E d \in conns : d # c /\ Owner(d) = Owner(c)
                  THEN disturbed \cup {Owner(c)} ELSE disturbed

\* onRegist: the slot comes before the registration.
RegistSubscribe(c) == /\ Read(c, "regist")
                      /\ subscribe(Owner(c))
                      /\ Goto("regist_register")
                      /\ UNCHANGED <<conns, mapvars, deltas, timervars, clientvars,
                                     mishaps, told>>

RegistRegister == /\ At("regist_register") /\ Goto("regist_map")
                  /\ register_instance(me, TRUE)
                  /\ UNCHANGED <<conns, mapvars, handling, deltas, timervars,
                                 clientvars, late, mishaps, told, disturbed>>

RegistMap == /\ At("regist_map") /\ Goto("idle") /\ Locked
             /\ fd_to_id_' = fd_to_id_ \cup {handling}
             /\ fd_to_inst_' = fd_to_inst_ \cup {handling}
             /\ \/ /\ handling \in conns /\ handling = Current(me)
                   /\ ready_' = [ready_ EXCEPT ![me] = TRUE]
                   /\ UNCHANGED mishaps
                \/ /\ handling \notin conns \/ handling # Current(me)
                   /\ UNCHANGED <<ready_, mishaps>>
                \/ Mishap /\ UNCHANGED ready_
             /\ handling' = None
             /\ UNCHANGED <<registryvars, conns, fd_to_got_full_update_, deltas,
                            timervars, online, made, late, told, disturbed>>

\* onUpdateServiceStatus: is the instance in the cache?
StatusLookup(c) == /\ Read(c, "status")
                   /\ Goto(IF c \in fd_to_inst_ THEN "renew" ELSE "find")
                   /\ UNCHANGED <<registryvars, conns, mapvars, deltas, timervars,
                                  clientvars, mishaps, told>>

\* It is: renewed, which puts it in the registry if it is no longer there.
Renew == /\ At("renew") /\ Goto("pop")
         /\ register_instance(me, FALSE)
         /\ UNCHANGED <<conns, mapvars, handling, deltas, timervars, clientvars, late,
                        mishaps, told, disturbed>>

\* It is not: looked for in a snapshot of the registry.
Find == /\ At("find") /\ Goto(IF me \in registry THEN "renew_found" ELSE "resubscribe")
        /\ UNCHANGED <<registryvars, conns, mapvars, handling, deltas, timervars,
                       clientvars, late, mishaps, told, disturbed>>

RenewFound == /\ At("renew_found") /\ Goto("map_found")
              /\ register_instance(me, FALSE)
              /\ UNCHANGED <<conns, mapvars, handling, deltas, timervars, clientvars,
                             late, mishaps, told, disturbed>>

\* Found: only fd_to_inst_ learns of the connection.
MapFound == /\ At("map_found") /\ Goto("pop") /\ Locked
            /\ fd_to_inst_' = fd_to_inst_ \cup {handling}
            /\ UNCHANGED <<registryvars, conns, fd_to_id_, fd_to_got_full_update_,
                           handling, deltas, timervars, clientvars, late, mishaps,
                           told, disturbed>>

\* Not found: registered anew.
Resubscribe == /\ At("resubscribe") /\ Goto("reregister")
               /\ subscribe(me)
               /\ UNCHANGED <<conns, mapvars, handling, deltas, timervars, clientvars,
                              late, mishaps, told, disturbed>>

\* Mutant of the next: the instance is taken for one that is known already.
ReregisterSilently == /\ At("reregister") /\ Goto("remap")
                      /\ register_instance(me, FALSE)
                      /\ UNCHANGED <<conns, mapvars, handling, deltas, timervars,
                                     clientvars, late, mishaps, told, disturbed>>

Reregister == /\ At("reregister") /\ Goto("remap")
              /\ register_instance(me, TRUE)
              /\ UNCHANGED <<conns, mapvars, handling, deltas, timervars, clientvars,
                             late, mishaps, told, disturbed>>

Remap == /\ At("remap") /\ Goto("pop") /\ Locked
         /\ fd_to_id_' = fd_to_id_ \cup {handling}
         /\ fd_to_inst_' = fd_to_inst_ \cup {handling}
         /\ fd_to_got_full_update_' = fd_to_got_full_update_ \ {handling}
         /\ UNCHANGED <<registryvars, conns, handling, deltas, timervars, clientvars,
                        late, mishaps, told, disturbed>>

Pop == /\ At("pop") /\ Goto("answer")
       /\ deltas' = Deltas(me)
       /\ pop_deltas(me)
       /\ UNCHANGED <<conns, mapvars, handling, timervars, clientvars, late, mishaps,
                      told, disturbed>>

\* The changes if there are any, else everything on the first request of the connection.
\* The answer goes nowhere when the connection is gone.
Respond ==
  LET full == deltas = <<>> /\ handling \notin fd_to_got_full_update_
  IN  /\ At("answer") /\ Goto("cleanup") /\ Locked
      /\ IF handling \in conns /\ handling = Current(me)
         THEN told' = [told EXCEPT ![me] = IF full THEN registry ELSE Apply(@, deltas)]
         ELSE UNCHANGED told
      /\ fd_to_got_full_update_' = IF full THEN fd_to_got_full_update_ \cup {handling}
                                   ELSE fd_to_got_full_update_
      /\ deltas' = <<>>
      /\ UNCHANGED <<registryvars, conns, fd_to_id_, fd_to_inst_, handling, timervars,
                     clientvars, late, mishaps, disturbed>>

\* Mutant of the next: the registry is not cleaned.
CleanupMissing == /\ At("cleanup") /\ Goto("idle")
                  /\ handling' = None
                  /\ UNCHANGED <<registryvars, conns, mapvars, deltas, timervars,
                                 clientvars, late, mishaps, told, disturbed>>

\* Every request ends by clearing out what has expired.
Cleanup == /\ At("cleanup") /\ Goto("idle")
           /\ cleanup_expired
           /\ handling' = None
           /\ UNCHANGED <<conns, mapvars, deltas, timervars, clientvars, late,
                          mishaps, told, disturbed>>

----------------------------------------------------------------------------
(* Connections that end: removeConnection and handleDisconnect.            *)

\* conn_map_ loses the connection; if it is registered its instance is deregistered.
BeginDisconnect(c) ==
  /\ Locked
  /\ conns' = conns \ {c}
  /\ late' = late \ {c}
  /\ IF c \in fd_to_id_ \cap fd_to_inst_
     THEN deregister_instance(Owner(c)) /\ disconnecting' = c
     ELSE UNCHANGED <<registryvars, disconnecting>>

\* The accept thread sees that the peer has closed.
PeerClosed(c) == /\ At("idle") /\ c \in conns
                 /\ Owner(c) \notin online \/ c # Current(Owner(c))
                 /\ BeginDisconnect(c)
                 /\ Goto(IF c \in fd_to_id_ \cap fd_to_inst_ THEN "closing" ELSE "idle")
                 /\ UNCHANGED <<mapvars, handling, deltas, kicked, clientvars,
                                mishaps, told, disturbed>>

\* Then its slot is freed and the maps forget the connection.
EndDisconnect == /\ disconnecting # None
                 /\ unsubscribe(Owner(disconnecting))
                 /\ fd_to_id_' = fd_to_id_ \ {disconnecting}
                 /\ fd_to_inst_' = fd_to_inst_ \ {disconnecting}
                 /\ fd_to_got_full_update_' = fd_to_got_full_update_ \ {disconnecting}
                 /\ disconnecting' = None
                 /\ Goto(IF pc = "closing" THEN "idle" ELSE pc)
                 /\ UNCHANGED <<conns, handling, deltas, kicked, clientvars, late,
                                mishaps, told, disturbed>>

\* checkHeartbeats: connections that were silent for 30 s.  One that a registered
\* instance uses can be silent that long only when its lease of 15 s has lapsed, and one
\* that is not registered yet asks every second.  Each of them is a mishap.
Silent(c) == \/ Owner(c) \notin online \/ c # Current(Owner(c))
             \/ ready_[Owner(c)] /\ expirations[Owner(c)] # "future"

TimerPick(cs) == /\ cs # {} /\ \A c \in cs : Silent(c)
                 /\ kicked = {} /\ kicked' = cs
                 /\ mishaps' = mishaps + Cardinality(cs) /\ mishaps' \in 0 .. MaxMishaps
                 /\ UNCHANGED <<registryvars, conns, mapvars, handlervars,
                                disconnecting, clientvars, late, told, disturbed>>

\* An instance is disturbed when that is the connection whose message is being handled.
TimerRemove(c) == /\ c \in kicked
                  /\ kicked' = kicked \ {c}
                  /\ BeginDisconnect(c)
                  /\ disturbed' = IF c = handling THEN disturbed \cup {Owner(c)} ELSE disturbed
                  /\ UNCHANGED <<mapvars, handlervars, clientvars, mishaps, told>>

\* 15 s without a renewal.
LeaseLapses(i) == /\ Lapse(i)
                  /\ IF i \in online THEN Mishap ELSE UNCHANGED mishaps
                  /\ disturbed' = disturbed \cup {i}
                  /\ UNCHANGED <<conns, mapvars, handlervars, timervars, clientvars,
                                 late, told>>

----------------------------------------------------------------------------
Handler == \/ \E c \in Conns : RegistSubscribe(c) \/ StatusLookup(c)
           \/ RegistRegister \/ RegistMap \/ Renew \/ Find \/ RenewFound \/ MapFound
           \/ Resubscribe \/ Reregister \/ Remap \/ Pop \/ Respond \/ Cleanup

Next == \/ \E i \in Ids : \/ Start(i) \/ Stop(i) \/ Reconnect(i) \/ LeaseLapses(i)
        \/ Handler
        \/ \E c \in Conns : PeerClosed(c) \/ TimerRemove(c)
        \/ \E cs \in SUBSET conns : TimerPick(cs)
        \/ EndDisconnect

\* The centre's threads run, a running client goes on asking, and the lease
\* of a process that has ended lapses in time.
Fairness == /\ WF_vars(Handler) /\ WF_vars(EndDisconnect)
            /\ \A c \in Conns : WF_vars(PeerClosed(c)) /\ WF_vars(TimerRemove(c))
            /\ \A i \in Ids : WF_vars(i \notin online /\ LeaseLapses(i))

Spec == Init /\ [][Next]_vars /\ Fairness

----------------------------------------------------------------------------
\* The types of the state.
TypeOK == /\ RegistryTypeOK
          /\ \A i \in Ids : i \in registry <=> expirations[i] # "absent"
          /\ conns \subseteq Conns /\ kicked \subseteq Conns
          /\ fd_to_id_ \subseteq Conns /\ fd_to_inst_ \subseteq Conns
          /\ fd_to_got_full_update_ \subseteq Conns
          /\ pc \in {"idle", "regist_register", "regist_map", "renew", "find",
                     "renew_found", "map_found", "resubscribe", "reregister", "remap",
                     "pop", "answer", "cleanup", "closing"}
          /\ handling \in Conns \cup {None} /\ disconnecting \in Conns \cup {None}
          /\ deltas \in Seq(Delta)
          /\ online \subseteq Ids /\ disturbed \subseteq Ids
          /\ \A i \in Ids : made[i] \in 0 .. MaxConn[i]
          /\ ready_ \in [Ids -> BOOLEAN] /\ told \in [Ids -> SUBSET Ids]
          /\ late \subseteq Conns
          /\ mishaps \in 0 .. MaxMishaps

\* The centre has given s everything on the connection s now uses.
Synced(s) == s \in online /\ Current(s) \in conns \cap fd_to_got_full_update_

\* What s will know once it has received what is queued for it.
Knows(s) == Apply(told[s], (IF handling = Current(s) THEN deltas ELSE <<>>) \o Deltas(s))

\* The deltas are complete: what an instance has been told, is being told and will be
\* told by its queue agrees with the registry about every other instance.  It is claimed
\* of instances whose lease never lapsed and that never had two connections at a time.
\* Every variable has its type.
DeltasComplete ==
  /\ TypeOK
  /\ \A s, i \in Ids \ disturbed :
       s # i /\ Synced(s) => (i \in Knows(s) <=> i \in registry)

\* An instance whose process has ended is forgotten, as long as another one goes on
\* asking (cleanup_expired runs at the end of a request).
Forgotten == \A i, j \in Ids :
               i # j => (<>[](i \notin online /\ Current(j) \in conns /\ ready_[j])
                           => <>[](i \notin registry))

\* TcpRegistrar.cpp:175: an instance whose lease has run out is treated as registered
\* anew, so that the others are told that it is back: DeltasComplete, without the
\* exception for lapsed leases, for instances that keep the connection they started with.
LapsedAnnounced ==
  \A s, i \in Ids :
    /\ pc = "idle" /\ s # i /\ Synced(s) /\ i \in registry
    /\ \A k \in {s, i} : made[k] = 1 /\ Current(k) \in conns
    => i \in Knows(s)
=============================================================================
