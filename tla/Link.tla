-------------------------------- MODULE Link --------------------------------
(***************************************************************************)
(* The life of one connection: Serve makes a listener for the network of   *)
(* the service address, Connect of the client dials it, over HTTP both go  *)
(* through a CONNECT, and from then on requests, responses and heartbeats  *)
(* meet the deadlines that each side sets.                                 *)
(*                                                                         *)
(* Client and server split the same service address, so that they agree on *)
(* the network.  A message has an age; it arrives within MaxDelay units of *)
(* time, a method returns within MaxHandling, and a goroutine that can run *)
(* does so before time passes.  A client has one call of its user and one  *)
(* heartbeat under way at most.  What a request is about, how calls are    *)
(* numbered and what else may break a connection is left to ClientConn and *)
(* Exchange.                                                               *)
(***************************************************************************)
EXTENDS Integers, Sequences

CONSTANTS
    ReadTimeouts,   \* what the client's readTimeout may be; 0 is none
    WriteTimeouts,  \* its writeTimeout
    ServerTimeouts, \* the readTimeout and the writeTimeout of the server
    Interval,       \* heartbeatInterval
    MaxDelay,       \* how long a message may be under way
    MaxHandling,    \* how long a method may take
    MaxWait,        \* bound on a count of the time; no timeout is longer
    nil

ASSUME LinkAssumption ==
    /\ ReadTimeouts \cup WriteTimeouts \cup ServerTimeouts \subseteq Nat
    /\ Interval \in Nat \ {0}
    /\ MaxDelay \in Nat \ {0}
    /\ MaxHandling \in Nat
    /\ MaxWait \in Nat /\ \A t \in ServerTimeouts : t <= MaxWait
    /\ nil \notin Int

VARIABLES
    network,        \* the part of the service address before the "@"
    copt, sopt,     \* the options of the client and of the server
    listener,       \* the listener of Serve
    conn,           \* where the client's end of the connection is
    served,         \* where the server's end is
    up, down,       \* what is under way to the server and to the client
    readLeft,       \* the time to the client's read deadline; nil: none
    writeLeft,      \* the time to its write deadline
    uptime,         \* history: how long a client with a readTimeout is up
    ticker,         \* the time to the next tick of heartbeat()
    tick,           \* a tick waits in the ticker's channel
    waiting,        \* the calls of the client that wait for a response
    waited,         \* how long serveConn has waited for a request
    respondLeft,    \* the time to the server's write deadline; nil: none
    handling,       \* the age of the requests that are handled, or nil
    lost,           \* history: what the buffers of the handshake swallowed
    dropped         \* history: a response could not be written

optVars    == <<network, copt, sopt>>
clientVars == <<readLeft, writeLeft, uptime, ticker, tick, waiting>>
serverVars == <<waited, respondLeft, handling>>
histVars   == <<lost, dropped>>
vars == <<optVars, listener, conn, served, up, down, clientVars, serverVars,
          histVars>>

Requests == {"call", "heartbeat"}
Larger(a, b) == IF a > b THEN a ELSE b

\* time.Now().Add(timeout), unless the timeout is 0.
Deadline(timeout) == IF timeout = 0 THEN nil ELSE timeout
Passed(deadline) == deadline = 0
Sooner(deadline) == IF deadline = nil THEN nil ELSE Larger(deadline - 1, 0)

Msg(m) == [m |-> m, age |-> 0]
Older(msgs) ==
    [i \in DOMAIN msgs |->
        [msgs[i] EXCEPT !.age = IF @ < MaxDelay THEN @ + 1 ELSE @]]
Texts(msgs) == {msgs[i].m : i \in DOMAIN msgs}

\* The options that matter to the network; an rpcPath of "" is the default.
Init ==
    /\ network \in {"tcp", "http", "quic", "kcp", "unix"}
    /\ copt \in [readTimeout : ReadTimeouts, writeTimeout : WriteTimeouts,
                 heartbeat : BOOLEAN, rpcPath : {"", "other"},
                 block : BOOLEAN]
    /\ sopt \in [readTimeout : ServerTimeouts, writeTimeout : ServerTimeouts,
                 rpcPath : {"", "other"}, tlsConfig : BOOLEAN,
                 BlockCrypt : BOOLEAN]
    /\ network # "http" => copt.rpcPath = "" /\ sopt.rpcPath = ""
    /\ network # "quic" => ~sopt.tlsConfig
    /\ network # "kcp" => ~copt.block /\ ~sopt.BlockCrypt
    /\ listener = "none" /\ conn = "idle" /\ served = "none"
    /\ up = <<>> /\ down = <<>>
    /\ readLeft = nil /\ writeLeft = nil /\ uptime = 0
    /\ ticker = Interval /\ tick = FALSE /\ waiting = {}
    /\ waited = 0 /\ respondLeft = nil
    /\ handling = [m \in Requests |-> nil]
    /\ lost = {} /\ dropped = FALSE

-----------------------------------------------------------------------------
(* The server: Serve, ServeHTTP and serveConn. *)

\* makeListener: the networks of makeListeners, with what they need.  An
\* address may be in use.
CanListen == CASE network \in {"tcp", "http"} -> TRUE
               [] network = "quic" -> sopt.tlsConfig
               [] network = "kcp" -> sopt.BlockCrypt
               [] OTHER -> FALSE

makeListener ==
    /\ listener = "none"
    /\ \/ CanListen /\ listener' = "open"
       \/ listener' = "failed"
    /\ UNCHANGED <<optVars, conn, served, up, down, clientVars, serverVars,
                   histVars>>

\* A session of KCP begins with its first packet.
Accept ==
    /\ listener = "open"
    /\ served = "queued"
    /\ network = "kcp" => up # <<>>
    /\ served' = IF network = "http" THEN "http" ELSE "serving"
    /\ waited' = 0
    /\ UNCHANGED <<optVars, listener, conn, up, down, clientVars, respondLeft,
                   handling, histVars>>

\* A fault: ServeHTTP takes the connection over and does not say so.
ServeHTTPSilent ==
    /\ served = "http"
    /\ up # <<>>
    /\ up' = <<>>
    /\ served' = "serving"
    /\ waited' = 0
    /\ UNCHANGED <<optVars, listener, conn, down, clientVars, respondLeft,
                   handling, histVars>>

\* net/http reads the CONNECT, and what has come after it, into a buffer that
\* ServeHTTP gets from Hijack and drops.  Another path is not found.
ServeHTTP ==
    /\ served = "http"
    /\ up # <<>>
    /\ up' = <<>>
    /\ IF copt.rpcPath = sopt.rpcPath
         THEN /\ served' = "serving"
              /\ down' = Append(down, Msg("200"))
              /\ lost' = lost \cup Texts(Tail(up))
         ELSE /\ served' = "closed"
              /\ down' = Append(down, Msg("404"))
              /\ UNCHANGED lost
    /\ waited' = 0
    /\ UNCHANGED <<optVars, listener, conn, clientVars, respondLeft, handling,
                   dropped>>

\* A fault: the read deadline is set once, before the loop.
ReadRequestOnce ==
    /\ served = "serving"
    /\ up # <<>>
    /\ handling' = [handling EXCEPT ![Head(up).m] = 0]
    /\ up' = Tail(up)
    /\ respondLeft' = Deadline(sopt.writeTimeout)
    /\ UNCHANGED <<optVars, listener, conn, served, down, clientVars, waited,
                   histVars>>

\* serveConn reads a request.  The write deadline is counted from the time
\* before the read, and so is the read deadline of the next one from now.
ReadRequest ==
    /\ served = "serving"
    /\ up # <<>>
    /\ handling' = [handling EXCEPT ![Head(up).m] = 0]
    /\ up' = Tail(up)
    /\ respondLeft' = IF sopt.writeTimeout = 0 THEN nil
                      ELSE Larger(sopt.writeTimeout - waited, 0)
    /\ waited' = 0
    /\ UNCHANGED <<optVars, listener, conn, served, down, clientVars, histVars>>

ReadExpired ==
    served = "serving" /\ sopt.readTimeout # 0 /\ waited >= sopt.readTimeout

\* decodeRequest fails at the read deadline, or because the client has closed
\* its end, and serveConn closes the connection.
ServeConnEnds ==
    /\ served \in {"queued", "http", "serving"}
    /\ ReadExpired \/ conn = "refused"
    /\ served' = "closed"
    /\ up' = <<>>
    /\ UNCHANGED <<optVars, listener, conn, down, clientVars, serverVars,
                   histVars>>

\* The goroutine of a request, or of a heartbeat: an error of conn.Write is
\* ignored.
Respond(m) ==
    /\ handling[m] # nil
    /\ handling' = [handling EXCEPT ![m] = nil]
    /\ IF Passed(respondLeft) \/ served = "closed"
         THEN dropped' = TRUE /\ UNCHANGED down
         ELSE /\ down' = IF conn = "up" THEN Append(down, Msg(m)) ELSE down
              /\ UNCHANGED dropped
    /\ UNCHANGED <<optVars, listener, conn, served, up, clientVars, waited,
                   respondLeft, lost>>

\* The server's process ends.  Its kernel closes the connections, but nobody
\* tells the peer of a KCP session.
Crash ==
    /\ listener = "open"
    /\ listener' = "crashed"
    /\ served' = IF served = "none" THEN "none"
                 ELSE IF network = "kcp" THEN "gone" ELSE "closed"
    /\ up' = <<>>
    /\ handling' = [m \in Requests |-> nil]
    /\ UNCHANGED <<optVars, conn, down, clientVars, waited, respondLeft,
                   histVars>>

-----------------------------------------------------------------------------
(* The client: Connect, heartbeat, send and handleResponse. *)

\* The end of Connect: deadlines are set, and the goroutines are started.
Connected ==
    /\ conn' = "up"
    /\ readLeft' = Deadline(copt.readTimeout)
    /\ writeLeft' = Deadline(copt.writeTimeout)
    /\ ticker' = Interval
    /\ UNCHANGED <<uptime, tick, waiting>>

\* A fault: newHttpConn does not wait for the response.
newHttpConnHurries ==
    /\ up' = <<Msg("CONNECT")>>
    /\ Connected

\* newHttpConn writes its CONNECT and waits.
newHttpConn ==
    /\ conn' = "connect"
    /\ up' = <<Msg("CONNECT")>>
    /\ UNCHANGED clientVars

\* newKcpConn: nothing is dialled, and packets are repeated until a server
\* listens.  Without a block the type assertion panics.
newKcpConn ==
    /\ IF copt.block THEN Connected ELSE conn' = "panic" /\ UNCHANGED clientVars
    /\ UNCHANGED up

\* quic.Dial, with a tls.Config of its own if the user has given none.
newQuicConn == Connected /\ UNCHANGED up

newDirectConn == Connected /\ UNCHANGED up

Connect ==
    /\ conn = "idle"
    /\ \/ /\ listener = "open" \/ network = "kcp"
          /\ CASE network = "http" -> newHttpConn
               [] network = "kcp" -> newKcpConn
               [] network = "quic" -> newQuicConn
               [] OTHER -> newDirectConn
          /\ served' = IF conn' = "panic" THEN "none" ELSE "queued"
       \/ /\ network # "kcp"
          /\ conn' = "refused"
          /\ UNCHANGED <<served, up, clientVars>>
    /\ UNCHANGED <<optVars, listener, down, serverVars, histVars>>

\* http.ReadResponse, through a buffer that newHttpConn drops; or the stream
\* ends.
ReadResponse ==
    /\ conn = "connect"
    /\ \/ /\ down # <<>>
          /\ IF Head(down).m = "200"
               THEN Connected
               ELSE conn' = "refused" /\ UNCHANGED clientVars
          /\ lost' = lost \cup Texts(Tail(down))
          /\ down' = <<>>
       \/ /\ down = <<>> /\ served = "closed"
          /\ conn' = "refused"
          /\ UNCHANGED <<clientVars, lost, down>>
    /\ UNCHANGED <<optVars, listener, served, up, serverVars, dropped>>

\* send: a request that cannot be written ends its call at once.
Write(m) ==
    IF Passed(writeLeft)
      THEN UNCHANGED <<waiting, up>>
      ELSE /\ waiting' = waiting \cup {m}
           /\ up' = IF served \in {"closed", "gone"} THEN up
                                                      ELSE Append(up, Msg(m))

Call ==
    /\ conn = "up"
    /\ "call" \notin waiting
    /\ Write("call")
    /\ UNCHANGED <<optVars, listener, conn, served, down, readLeft, writeLeft,
                   uptime, ticker, tick, serverVars, histVars>>

\* heartbeat(): a tick that comes during a CallDirect is kept in the channel.
Heartbeat ==
    /\ conn = "up"
    /\ tick
    /\ "heartbeat" \notin waiting
    /\ tick' = FALSE
    /\ Write("heartbeat")
    /\ UNCHANGED <<optVars, listener, conn, served, down, readLeft, writeLeft,
                   uptime, ticker, serverVars, histVars>>

\* A fault: the read deadline is set anew for each response.
HandleResponseRenews ==
    /\ conn = "up"
    /\ down # <<>>
    /\ waiting' = waiting \ {Head(down).m}
    /\ down' = Tail(down)
    /\ readLeft' = Deadline(copt.readTimeout)
    /\ UNCHANGED <<optVars, listener, conn, served, up, writeLeft, uptime,
                   ticker, tick, serverVars, histVars>>

HandleResponse ==
    /\ conn = "up"
    /\ down # <<>>
    /\ waiting' = waiting \ {Head(down).m}
    /\ down' = Tail(down)
    /\ UNCHANGED <<optVars, listener, conn, served, up, readLeft, writeLeft,
                   uptime, ticker, tick, serverVars, histVars>>

\* A fault: the calls that wait are not completed.
ReaderEndsSilently ==
    /\ conn = "up"
    /\ Passed(readLeft) \/ (served = "closed" /\ down = <<>>)
    /\ conn' = "over"
    /\ down' = <<>>
    /\ UNCHANGED <<optVars, listener, served, up, clientVars, serverVars,
                   histVars>>

\* handleResponse ends at the read deadline, or with the stream, and completes
\* the calls that wait.  The connection is not closed.
ReaderEnds ==
    /\ conn = "up"
    /\ Passed(readLeft) \/ (served = "closed" /\ down = <<>>)
    /\ conn' = "over"
    /\ waiting' = {}
    /\ down' = <<>>
    /\ UNCHANGED <<optVars, listener, served, up, readLeft, writeLeft, uptime,
                   ticker, tick, serverVars, histVars>>

-----------------------------------------------------------------------------
\* Nothing is left to do before time passes.
Prompt ==
    /\ listener = "open" => \A i \in DOMAIN up : up[i].age < MaxDelay
    /\ \A i \in DOMAIN down : down[i].age < MaxDelay
    /\ \A m \in Requests : handling[m] # nil => handling[m] < MaxHandling
    /\ ~ReadExpired
    /\ conn = "up" => /\ ~Passed(readLeft)
                      /\ ~(tick /\ "heartbeat" \notin waiting)

Tick ==
    /\ Prompt
    /\ up' = Older(up) /\ down' = Older(down)
    /\ handling' = [m \in Requests |-> IF handling[m] = nil THEN nil
                                                         ELSE handling[m] + 1]
    /\ readLeft' = Sooner(readLeft)
    /\ writeLeft' = Sooner(writeLeft)
    /\ respondLeft' = Sooner(respondLeft)
    /\ waited' = IF served = "serving" /\ waited < MaxWait THEN waited + 1
                                                           ELSE waited
    /\ IF conn = "up" /\ copt.heartbeat
         THEN /\ ticker' = IF ticker = 1 THEN Interval ELSE ticker - 1
              /\ tick' = (tick \/ ticker = 1)
         ELSE UNCHANGED <<ticker, tick>>
    /\ uptime' = IF conn = "up" /\ copt.readTimeout # 0 THEN uptime + 1
                                                        ELSE uptime
    /\ UNCHANGED <<optVars, listener, conn, served, waiting, histVars>>

Server ==
    Accept \/ ServeHTTP \/ ReadRequest \/ ServeConnEnds
    \/ \E m \in Requests : Respond(m)

Client == ReadResponse \/ Heartbeat \/ HandleResponse \/ ReaderEnds

Next == Server \/ Client \/ makeListener \/ Crash \/ Connect \/ Call \/ Tick

Spec == Init /\ [][Next]_vars

\* The goroutines run, and time passes.  Nobody has to serve, to connect or to
\* call.
FairSpec ==
    /\ Spec
    /\ WF_vars(Accept) /\ WF_vars(ServeHTTP) /\ WF_vars(ServeConnEnds)
    /\ WF_vars(ReadRequest) /\ \A m \in Requests : WF_vars(Respond(m))
    /\ WF_vars(ReadResponse) /\ WF_vars(Heartbeat)
    /\ WF_vars(HandleResponse) /\ WF_vars(ReaderEnds)
    /\ WF_vars(Tick)

-----------------------------------------------------------------------------
\* Neither buffer that the CONNECT goes through, and that is dropped with what
\* it holds, has read a message of the RPC protocol.
HandshakeLosesNothing == lost = {}

\* ConnTimeout and ReadTimeout limit the life of a connection: Connect sets
\* the deadline once, and neither responses nor heartbeats put it off.
NeverOutlivesReadTimeout ==
    conn = "up" /\ copt.readTimeout # 0 => uptime <= copt.readTimeout

\* The time between two requests that heartbeats guarantee.
Gap == 2 * MaxDelay + Larger(Interval, MaxHandling)

\* A client with heartbeats is not dropped by a server whose read deadline
\* leaves time for them, and its responses are written, although the write
\* deadline runs from before the request came.
HeartbeatsKeepConnection ==
    /\ listener = "open"
    /\ copt.heartbeat /\ copt.writeTimeout = 0
    /\ sopt.readTimeout = 0 \/ sopt.readTimeout > Gap
    /\ sopt.writeTimeout = 0 \/ sopt.writeTimeout > Gap + MaxHandling
    => (conn = "up" => served # "closed" /\ ~dropped)

\* Connect returns, if the server does its part.
ConnectReturns == conn = "connect" ~> conn \in {"up", "refused"}

\* With a readTimeout a call ends, although its response may be dropped or the
\* server may not exist.
CallEnds ==
    copt.readTimeout # 0 => ("call" \in waiting ~> "call" \notin waiting)
=============================================================================
