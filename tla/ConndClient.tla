---------------------------- MODULE ConndClient ----------------------------
(***************************************************************************)
(* client/main.cpp against connd and the account service: a client that    *)
(* sends a request and takes the next frame of its connection for the      *)
(* answer.                                                                 *)
(*                                                                         *)
(* connd answers authentications and heartbeats itself, in their order,    *)
(* though the client may have given up waiting.  Other connections log in  *)
(* and leave on other threads: of them the accounts they are bound to      *)
(* count (ConndMsgDispatcher has their own steps).  A request for a token  *)
(* goes over the bus to the account service, whose answer is addressed to  *)
(* src_name_, which nobody fills in: it goes nowhere, and the client has   *)
(* its tokens from its user.  A frame arrives whole.                       *)
(***************************************************************************)
EXTENDS JwtToken, FiniteSets

CONSTANTS
    AccountKey,    \* the account service's secret: it does not start without one
    Keys,          \* secrets connd may have
    Ttl,           \* jwt_ttl_
    MaxTime,       \* bound: the clock
    MaxRequests,   \* bound: requests
    MaxConnects    \* bound: connections

\* The expiry is one byte in a token.
ASSUME TokenAssumption ==
    /\ Accounts \subseteq Seq(0 .. 255)
    /\ AccountKey \in 1 .. 255 /\ Keys \subseteq 0 .. 255
    /\ Ttl \in Nat /\ MaxTime \in Nat /\ MaxTime + Ttl <= 255

VARIABLES
    now,
    secret,        \* jwt_secret_ of the account service and secret_ of connd
    fd,            \* the client's socket: "none", "open", or "shut" by the server
    op,            \* the call the client is in, or "none"
    arg,           \* its account or token
    result,        \* what the last call returned
    toServer,      \* frames sent on the connection
    toClient,      \* frames not received yet
    onBus,         \* accounts of the requests the bus has
    loggedIn,      \* whom connd has authenticated the connection as
    held,          \* the accounts that user_to_conn_ gives to other connections
    rebinding,     \* the account whose old connection was kicked, to be bound to this one
    sentTokens,    \* history: tokens sent on this connection
    issued,        \* history: what the account service has signed
    raced,         \* history: accounts another connection took between the kick and the bind
    spent          \* requests and connections so far

clientVars == <<fd, op, arg, result>>
wireVars == <<toServer, toClient>>
loginVars == <<loggedIn, held, rebinding, raced>>
conndVars == <<onBus, loginVars>>
pastVars == <<sentTokens, issued, spent>>
ccVars == <<now, secret, clientVars, wireVars, conndVars, pastVars>>

Nothing == <<>>

ClientInit ==
    /\ now = 0
    /\ secret \in [account : {AccountKey}, connd : Keys]
    /\ fd = "none" /\ op = "none" /\ arg = Nothing
    /\ result = [op |-> "none", ok |-> FALSE]
    /\ toServer = <<>> /\ toClient = <<>> /\ onBus = {}
    /\ loggedIn = {} /\ held = {} /\ rebinding = {} /\ raced = {}
    /\ sentTokens = {} /\ issued = {}
    /\ spent = [requests |-> 0, connects |-> 0]

-----------------------------------------------------------------------------
(* The client.  A call of the REPL begins when the last one has returned. *)

Return(o, ok) ==
    /\ op' = "none" /\ arg' = Nothing
    /\ result' = [op |-> o, ok |-> ok]

\* connd forgets the connection.
Unbind == loggedIn' = {} /\ rebinding' = {} /\ UNCHANGED held

connect ==
    /\ fd = "none" /\ op = "none" /\ spent.connects < MaxConnects
    /\ fd' = "open"
    /\ spent' = [spent EXCEPT !.connects = @ + 1]
    /\ toServer' = <<>> /\ toClient' = <<>> /\ Unbind /\ raced' = {} /\ sentTokens' = {}
    /\ result' = [op |-> "none", ok |-> FALSE]
    /\ UNCHANGED <<now, secret, op, arg, onBus, issued>>

disconnect ==
    /\ fd # "none" /\ op = "none"
    /\ fd' = "none" /\ toServer' = <<>> /\ toClient' = <<>> /\ Unbind
    /\ result' = [op |-> "none", ok |-> FALSE]
    /\ UNCHANGED <<now, secret, op, arg, onBus, raced, pastVars>>

\* send to a socket the server has shut may still succeed.
sendPack(o, a) ==
    /\ spent.requests < MaxRequests
    /\ spent' = [spent EXCEPT !.requests = @ + 1]
    /\ op' = o /\ arg' = a
    /\ toServer' = IF fd = "open" THEN Append(toServer, [id |-> o, arg |-> a]) ELSE toServer
    /\ sentTokens' = IF o = "auth" THEN sentTokens \cup {a} ELSE sentTokens
    /\ UNCHANGED <<now, secret, fd, result, toClient, conndVars, issued>>

sendFails ==
    /\ fd = "shut" /\ op = "none"
    /\ \E o \in {"apply", "auth", "heart"} : Return(o, FALSE)
    /\ UNCHANGED <<now, secret, fd, wireVars, conndVars, pastVars>>

applyToken == op = "none" /\ fd # "none" /\ \E a \in Accounts : sendPack("apply", a)

\* The REPL's command, with a token its user has got hold of.
auth == op = "none" /\ fd # "none" /\ \E i \in issued : sendPack("auth", i.token)

heart == op = "none" /\ fd # "none" /\ sendPack("heart", Nothing)

\* A bug: auth takes any frame for its answer.
FitsAny(frame) == op # "apply" \/ frame.id = op

\* applyToken and auth look at the id of the frame, heart does not.
Fits(frame) == op = "heart" \/ frame.id = op

\* recvPack gives a frame to the call that waits, whichever request it answers.
recvPack ==
    /\ op # "none" /\ toClient # <<>>
    /\ LET frame == Head(toClient)
           ok == Fits(frame) /\ frame.ok
       IN /\ toClient' = Tail(toClient)
          /\ Return(op, ok)
    /\ UNCHANGED <<now, secret, fd, toServer, conndVars, pastVars>>

\* Five seconds without a frame, or the end of the stream: the socket is kept.
recvFails ==
    /\ op # "none" /\ toClient = <<>>
    /\ Return(op, FALSE)
    /\ UNCHANGED <<now, secret, fd, wireVars, conndVars, pastVars>>

-----------------------------------------------------------------------------
(* connd, the bus and the account service. *)

Frame(id, ok) == [id |-> id, ok |-> ok]

\* The first frame on the connection, when its thread is at none.
Arrived(id) == fd = "open" /\ toServer # <<>> /\ Head(toServer).id = id /\ rebinding = {}

\* handleLogin: refused; bound and answered by the first on_auth_ok; or the connection that
\* has the account is kicked, close_conn and on_disconnect.
handleLogin ==
    /\ Arrived("auth")
    /\ \E who \in verify(secret.connd, Head(toServer).arg, now) :
          IF who \in held \ {NoAccount}
          THEN /\ held' = held \ {who} /\ rebinding' = {who}
               /\ UNCHANGED <<toServer, toClient, loggedIn>>
          ELSE /\ loggedIn' = IF who # NoAccount THEN {who} ELSE loggedIn
               /\ toClient' = Append(toClient, Frame("auth", who # NoAccount))
               /\ toServer' = Tail(toServer)
               /\ UNCHANGED <<held, rebinding>>
    /\ UNCHANGED <<now, secret, clientVars, onBus, raced, pastVars>>

\* The second on_auth_ok, of which nobody asks whether it bound the connection.
rebind ==
    /\ fd = "open" /\ rebinding # {}
    /\ rebinding' = {}
    /\ IF rebinding \subseteq held
       THEN raced' = raced \cup rebinding /\ UNCHANGED loggedIn
       ELSE loggedIn' = rebinding /\ UNCHANGED raced
    /\ toClient' = Append(toClient, Frame("auth", TRUE))
    /\ toServer' = Tail(toServer)
    /\ UNCHANGED <<now, secret, clientVars, onBus, held, pastVars>>

\* Other connections are bound to an account, and leave.  One that logs in with the account
\* of this connection kicks it: serverCloses.
othersLogin ==
    /\ \E i \in issued :
          /\ i.account \notin loggedIn
          /\ held' \in {held \cup {i.account}, held \ {i.account}}
    /\ UNCHANGED <<now, secret, clientVars, wireVars, onBus, loggedIn, rebinding, raced, pastVars>>

\* A heartbeat needs no login.  CreateSSPack has no answer to give when the
\* generated table of the services' messages does not have it.
onHeart ==
    /\ Arrived("heart")
    /\ toClient' \in {toClient, Append(toClient, Frame("heart", TRUE))}
    /\ toServer' = Tail(toServer)
    /\ UNCHANGED <<now, secret, clientVars, conndVars, pastVars>>

forwardToAccount ==
    /\ Arrived("apply")
    /\ onBus' = onBus \cup {Head(toServer).arg}
    /\ toServer' = Tail(toServer)
    /\ UNCHANGED <<now, secret, clientVars, toClient, loginVars, pastVars>>

\* The account service signs a token; its Reply is lost.
accountSigns ==
    \E account \in onBus :
        LET exp == now + Ttl
            made == onApplyToken(secret.account, account, exp)
        IN /\ onBus' = onBus \ {account}
           /\ issued' = issued \cup {[account |-> account, exp |-> exp, token |-> t] : t \in made}
           /\ UNCHANGED <<now, secret, clientVars, wireVars, loginVars, sentTokens, spent>>

\* The service is not there.
busLoses ==
    /\ \E account \in onBus : onBus' = onBus \ {account}
    /\ UNCHANGED <<now, secret, clientVars, wireVars, loginVars, pastVars>>

\* The connection is kicked, idle or broken.
serverCloses ==
    /\ fd = "open"
    /\ fd' = "shut" /\ toServer' = <<>> /\ Unbind
    /\ result' = [op |-> "none", ok |-> FALSE]
    /\ UNCHANGED <<now, secret, op, arg, toClient, onBus, raced, pastVars>>

tick ==
    /\ now < MaxTime /\ now' = now + 1
    /\ UNCHANGED <<secret, clientVars, wireVars, conndVars, pastVars>>

ClientNext ==
    \/ connect \/ disconnect \/ applyToken \/ auth \/ heart
    \/ sendFails \/ recvPack \/ recvFails
    \/ handleLogin \/ rebind \/ othersLogin \/ onHeart \/ forwardToAccount \/ accountSigns \/ busLoses
    \/ serverCloses \/ tick

ClientSpec == ClientInit /\ [][ClientNext]_ccVars

-----------------------------------------------------------------------------
\* A token the account service has signed for a plain account is good at connd for that
\* account, until it expires, if both have one secret, and for nobody else; and with two
\* secrets no token is good for anybody.
IssuedVerifies ==
    \A i \in issued :
        /\ PlainText(i.account) =>
              verify(secret.connd, i.token, now) =
                  {IF secret.account = secret.connd /\ now <= i.exp THEN i.account ELSE NoAccount}
        /\ secret.account # secret.connd => verify(secret.connd, i.token, now) = {NoAccount}

\* When auth has returned true and the connection still stands, the client sent on this very
\* connection a token that the account service signed: no late answer to another kind of
\* request and none from an earlier connection is taken for a success.  If the token is a
\* plain account's, connd has the connection for it, unless another connection took the
\* account between the kick and the second on_auth_ok.
AuthTrue ==
    result.op = "auth" /\ result.ok /\ fd = "open" =>
        \E i \in issued :
            /\ i.token \in sentTokens
            /\ PlainText(i.account) => loggedIn = {i.account} \/ i.account \in raced

Accepted == IssuedVerifies /\ AuthTrue
=============================================================================
