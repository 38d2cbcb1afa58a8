------------------------------- MODULE IBusNet -------------------------------
(***************************************************************************)
(* core/bus/IBusNet: how a node registers at the centre and learns which   *)
(* instances there are, over a TcpClient whose connection is lost and made *)
(* again.  The centre is drawn with one step per request; TcpRegistrar has *)
(* its threads.  It knows this node by registered, slot (its delta queue)  *)
(* and, for the connection in use, cached (fd_to_inst_), mapped            *)
(* (fd_to_id_) and got_full.                                               *)
(***************************************************************************)
EXTENDS TcpClient

CONSTANTS
    Others,       \* the other instances
    Callers,      \* the threads that send to an instance by its name
    MaxMoves,   \* bound: registrations and departures of others
    NoTable

ASSUME NodeAssumption == /\ Callbacks = {"heartbeat", "status"}
                         /\ MaxMoves \in Nat
                         /\ \A table \in SUBSET Others : table # NoTable

VARIABLES
    has_center_, ready_, asking,   \* asking: main is in regist2Center
    ServiceMap_, NameInstances_,   \* the ids in the two tables
    storing,                       \* the new table, between the two stores
    target,                        \* what a sender has picked by its name: one, or none yet
    others, registered, slot, cached, mapped, got_full,
    queue,                         \* the deltas in the slot
    stale,                         \* mapped connections whose end the centre has not seen
    moves,
    seen, mislaid,                 \* history: ids that were in ServiceMap_; the slot of a
                                   \* node in the cache was dropped
    replaced                       \* history: the tables were being replaced when a sender
                                   \* picked, or have been since

sendvars == <<target, replaced>>
busvars == <<has_center_, ready_, asking, ServiceMap_, NameInstances_, storing, seen, sendvars>>
centervars == <<others, registered, slot, cached, mapped, got_full, queue, stale, moves,
                mislaid>>
nodevars == <<timervars, clientvars, busvars, centervars>>

Delta == [op : {"UPSERT", "OFFLINE"}, inst : Others]

NodeInit ==
    /\ has_center_ \in BOOLEAN
    /\ LinkInit(has_center_)
    /\ ready_ = FALSE /\ asking = has_center_
    /\ ServiceMap_ = {} /\ NameInstances_ = {} /\ storing = NoTable
    /\ target = [s \in Callers |-> {}] /\ replaced = [s \in Callers |-> FALSE]
    /\ others = {} /\ registered = FALSE /\ slot = FALSE
    /\ cached = FALSE /\ mapped = FALSE /\ got_full = FALSE
    /\ queue = <<>> /\ stale = 0 /\ moves = 0
    /\ seen = {} /\ mislaid = FALSE

----------------------------------------------------------------------------
(* The centre.                                                             *)

Answer(m) == answers' = Append(answers, m) /\ requests' = Tail(requests)

\* onRegist, from TcpRegistrar.
onRegist ==
    /\ requests # <<>> /\ Head(requests) = "regist"
    /\ slot' = TRUE /\ registered' = TRUE /\ mapped' = TRUE /\ cached' = TRUE
    /\ Answer([kind |-> "regist", infos |-> {}])
    /\ UNCHANGED <<others, got_full, queue, stale, moves, mislaid>>

\* The ids a list of deltas has the node put in its tables: one that comes and goes in the
\* same list is put in.
Upserted(list) == {list[n].inst : n \in {k \in DOMAIN list : list[k].op = "UPSERT"}}

\* onUpdateServiceStatus: renewed from the cache, found in the registry, or registered
\* anew; then the deltas, or everything on the first request without any, or nothing.
onUpdateServiceStatus ==
    LET anew == ~cached /\ ~registered
        full == queue = <<>> /\ (anew \/ ~got_full)
    IN  /\ requests # <<>> /\ Head(requests) = "status"
        /\ registered' = TRUE /\ cached' = TRUE
        /\ slot' = (slot \/ anew)
        /\ mapped' = (mapped \/ anew)
        /\ got_full' = (full \/ (got_full /\ ~anew))
        /\ queue' = <<>>
        /\ Answer([kind |-> "status", infos |-> IF full THEN others ELSE Upserted(queue)])
        /\ UNCHANGED <<others, stale, moves, mislaid>>

Handle ==
    /\ onRegist \/ onUpdateServiceStatus
    /\ UNCHANGED <<timervars, busvars, running_, event_thread_, link, silent, at, losses,
                   terminated>>

\* Mutant of the next: an instance that registers is taken for one that is known.
QueuedKnown(op, i) ==
    IF slot /\ op = "OFFLINE" THEN Append(queue, [op |-> op, inst |-> i]) ELSE queue

Queued(op, i) == IF slot THEN Append(queue, [op |-> op, inst |-> i]) ELSE queue

\* Another instance registers, or leaves.
Change(i) ==
    /\ moves < MaxMoves
    /\ moves' = moves + 1
    /\ \/ i \notin others /\ others' = others \cup {i} /\ queue' = Queued("UPSERT", i)
       \/ i \in others /\ others' = others \ {i} /\ queue' = Queued("OFFLINE", i)
    /\ UNCHANGED <<timervars, clientvars, busvars, registered, slot, cached, mapped,
                   got_full, stale, mislaid>>

\* handleDisconnect of a connection that is in fd_to_id_.
Deregister == registered' = FALSE /\ slot' = FALSE /\ queue' = <<>>

\* The maps know nothing of a new connection, and of the old one until its end is seen.
Forget(seenclosed) ==
    /\ cached' = FALSE /\ mapped' = FALSE /\ got_full' = FALSE
    /\ stale' = stale + (IF mapped /\ ~seenclosed THEN 1 ELSE 0)

\* The end of an older connection is seen, perhaps after the next was made.
StaleClosed ==
    /\ stale > 0
    /\ stale' = stale - 1
    /\ Deregister
    /\ mislaid' = (mislaid \/ cached)
    /\ UNCHANGED <<timervars, clientvars, busvars, others, cached, mapped, got_full,
                   moves>>

\* The lease of a node without a connection runs out: cleanup_expired.
Expire ==
    /\ registered /\ link # "up"
    /\ registered' = FALSE
    /\ UNCHANGED <<timervars, clientvars, busvars, others, slot, cached, mapped, got_full,
                   queue, stale, moves, mislaid>>

\* The centre kicks the connection, or the network swallows what it carries.
Kick ==
    /\ Lose("cut")
    /\ IF mapped THEN Deregister ELSE UNCHANGED <<registered, slot, queue>>
    /\ Forget(TRUE)
    /\ UNCHANGED <<busvars, others, moves, mislaid>>

Die == Lose("dead") /\ Forget(FALSE) /\ UNCHANGED <<busvars, others, registered, slot,
                                                    queue, moves, mislaid>>

----------------------------------------------------------------------------
(* The main thread in regist2Center: a request every second until ready_.  *)

regist2Center ==
    /\ asking /\ has_center_ /\ ~ready_
    /\ send("main", "regist")
    /\ UNCHANGED <<timervars, busvars, centervars, event_thread_, link, answers,
                   terminated>>

Registered ==
    /\ asking /\ ready_ /\ at["main"] = "no"
    /\ asking' = FALSE
    /\ UNCHANGED <<timervars, clientvars, centervars, has_center_, ready_, ServiceMap_,
                   NameInstances_, storing, seen, sendvars>>

----------------------------------------------------------------------------
(* The timer thread.                                                       *)

updateServiceStatusReq ==
    /\ job = "status"
    /\ send("timer", "status")
    /\ IF at'["timer"] = "no" THEN Requeue ELSE UNCHANGED timervars
    /\ UNCHANGED <<busvars, centervars, event_thread_, link, answers, terminated>>

----------------------------------------------------------------------------
(* The event thread: onRecvMsg.                                            *)

\* Mutant of the next: a timer only for a node that is not ready, asked after ready_ was set.
RegistRspIdle ==
    /\ Receive /\ Head(answers).kind = "regist" /\ storing = NoTable
    /\ ready_' = TRUE
    /\ UNCHANGED <<made, due, job, centervars, has_center_, asking, ServiceMap_,
                   NameInstances_, storing, seen, sendvars, running_, event_thread_, link, at,
                   requests, losses, terminated>>

\* Every answer starts a timer of its own.
onCenterRegistRsp ==
    /\ Receive /\ Head(answers).kind = "regist" /\ storing = NoTable
    /\ ready_' = TRUE
    /\ runEvery("status")
    /\ UNCHANGED <<due, job, centervars, has_center_, asking, ServiceMap_, NameInstances_,
                   storing, seen, sendvars, running_, event_thread_, link, at, requests, losses,
                   terminated>>

\* onCenterUpdateServiceStatusRsp makes two new tables of what the answer names, and
\* stores one after the other.
StoreMap ==
    /\ Receive /\ Head(answers).kind = "status" /\ storing = NoTable
    /\ ServiceMap_' = Head(answers).infos
    /\ storing' = Head(answers).infos
    /\ seen' = seen \cup Head(answers).infos
    /\ replaced' = [s \in Callers |-> target[s] # {}]
    /\ UNCHANGED <<timervars, centervars, has_center_, ready_, asking, NameInstances_, target,
                   running_, event_thread_, link, at, requests, losses, terminated>>

\* Mutant of the next: what an answer does not name stays in the second table.
StoreNamesMerged ==
    /\ storing # NoTable
    /\ NameInstances_' = NameInstances_ \cup storing
    /\ storing' = NoTable
    /\ UNCHANGED <<timervars, clientvars, centervars, has_center_, ready_, asking,
                   ServiceMap_, seen, sendvars>>

StoreNames ==
    /\ storing # NoTable
    /\ NameInstances_' = storing
    /\ storing' = NoTable
    /\ UNCHANGED <<timervars, clientvars, centervars, has_center_, ready_, asking,
                   ServiceMap_, seen, sendvars>>

----------------------------------------------------------------------------
(* The threads that send.                                                  *)

\* sendMsgTo with a name: a new balancer picks one of NameInstances_ ...
PickByName(s) ==
    /\ target[s] = {}
    /\ \E i \in NameInstances_ : target' = [target EXCEPT ![s] = {i}]
    /\ replaced' = [replaced EXCEPT ![s] = storing # NoTable]
    /\ UNCHANGED <<timervars, clientvars, centervars, has_center_, ready_, asking, ServiceMap_,
                   NameInstances_, storing, seen>>

\* ... whose entry is looked up in ServiceMap_, which is loaded later: without one the
\* message is refused.
Refused(s) == ~(target[s] \subseteq ServiceMap_)

sendMsgTo(s) ==
    /\ target[s] # {}
    /\ target' = [target EXCEPT ![s] = {}]
    /\ replaced' = [replaced EXCEPT ![s] = FALSE]
    /\ UNCHANGED <<timervars, clientvars, centervars, has_center_, ready_, asking, ServiceMap_,
                   NameInstances_, storing, seen>>

----------------------------------------------------------------------------
Stopping(t) ==
    /\ \/ StopCheck(t) \/ StopJoined(t) \/ \E u \in Threads : JoinThrows(t, u)
       \/ StopClose(t) /\ link \notin {"up"} 
    /\ UNCHANGED <<busvars, centervars>>

\* conn_->close() of a connection that was up: the centre is to see it end.
StopClosesUp(t) ==
    /\ link = "up" /\ StopClose(t)
    /\ Forget(FALSE)
    /\ UNCHANGED <<busvars, others, registered, slot, queue, moves, mislaid>>

Restarting ==
    /\ StartBegin \/ ConnectFails \/ ConnectSucceeds \/ checkHeartbeat
    /\ UNCHANGED <<busvars, centervars>>

Clock ==
    /\ TakeTask \/ \E cb \in Callbacks : FallDue(cb)
    /\ UNCHANGED <<clientvars, busvars, centervars>>

EventThread ==
    /\ storing = NoTable /\ (LoopEnds \/ eventHandler)
    /\ UNCHANGED <<busvars, centervars>>

Silence == FallSilent /\ UNCHANGED <<busvars, centervars>>

Timeout == GiveUp /\ UNCHANGED <<busvars, centervars>>

Node ==
    \/ regist2Center \/ Registered \/ updateServiceStatusReq
    \/ onCenterRegistRsp \/ StoreMap \/ StoreNames
    \/ \E t \in Threads : Stopping(t) \/ StopClosesUp(t)
    \/ Restarting \/ EventThread
    \/ \E s \in Callers : PickByName(s) \/ sendMsgTo(s)

Center == Handle \/ StaleClosed \/ Expire \/ Kick \/ Die \/ \E i \in Others : Change(i)

NodeNext == ~terminated /\ (Node \/ Center \/ Clock \/ Silence \/ Timeout)

NodeSpec == NodeInit /\ [][NodeNext]_nodevars

Run(A) == ~terminated /\ A

FairSpec ==
    /\ NodeSpec
    /\ WF_nodevars(Run(regist2Center)) /\ WF_nodevars(Run(Registered))
    /\ WF_nodevars(Run(updateServiceStatusReq))
    /\ WF_nodevars(Run(onCenterRegistRsp)) /\ WF_nodevars(Run(StoreMap)) /\ WF_nodevars(Run(StoreNames))
    /\ \A t \in Threads : WF_nodevars(Run(Stopping(t) \/ StopClosesUp(t)))
    /\ WF_nodevars(Run(StartBegin /\ UNCHANGED <<busvars, centervars>>))
    /\ SF_nodevars(Run(ConnectSucceeds /\ UNCHANGED <<busvars, centervars>>))
    /\ WF_nodevars(Run((ConnectSucceeds \/ ConnectFails) /\ UNCHANGED <<busvars, centervars>>))
    /\ WF_nodevars(Run(checkHeartbeat /\ UNCHANGED <<busvars, centervars>>))
    /\ WF_nodevars(Run(EventThread))
    /\ WF_nodevars(Run(TakeTask /\ UNCHANGED <<clientvars, busvars, centervars>>))
    /\ \A cb \in Callbacks :
          WF_nodevars(Run(FallDue(cb) /\ UNCHANGED <<clientvars, busvars, centervars>>))
    /\ WF_nodevars(Run(Silence)) /\ WF_nodevars(Run(Timeout)) /\ WF_nodevars(Run(Handle)) /\ WF_nodevars(Run(StaleClosed))

----------------------------------------------------------------------------

\* The types; that each connection leaves at most one end for the centre to see later; that
\* start() never replaces an event thread nobody has joined; and that sendMsgTo refuses one it
\* has picked by its name only if the tables were being replaced when it loaded the names, or
\* have been since.
NodeTypeOK ==
    /\ TimerTypeOK /\ ClientTypeOK
    /\ ServiceMap_ \subseteq Others /\ NameInstances_ \subseteq Others
    /\ storing = NoTable \/ storing \subseteq Others
    /\ target \in [Callers -> SUBSET Others] /\ replaced \in [Callers -> BOOLEAN]
    /\ \A s \in Callers : Refused(s) => replaced[s]
    /\ stale \in 0 .. made["heartbeat"]
    /\ queue \in Seq(Delta)
    /\ at["timer"] \in {"start", "connect"} => event_thread_ = "none"

\* The main thread died of a second join, or waits for the end of an event thread that the
\* heartbeat started after stop() had cleared running_.
Stuck == terminated \/ at["main"] = "join"

\* A node that reached the centre when it started is registered there in the end, whatever
\* becomes of its connections.
Rejoins == has_center_ => <>[]registered \/ <>[]Stuck

\* An instance that stays registered gets into the tables of the node at least once.
Discovered ==
    \A i \in Others : has_center_ /\ <>[](i \in others) => <>(i \in seen \/ mislaid) \/ <>[]Stuck

\* IBusNet.h:98 calls the answer the full table: an instance that is registered all the
\* while and was in the table is still in it.
StaysKnown ==
    [][\A i \in ServiceMap_ : i \in others /\ moves = moves' => i \in ServiceMap_']_nodevars
=============================================================================
