------------------------------- MODULE Server -------------------------------
(***************************************************************************)
(* The Server of server/server.go: the accept loop of Serve, the HTTP      *)
(* handler that hijacks connections, one serveConn goroutine per           *)
(* connection and one goroutine per request, racing with Close.            *)
(*                                                                         *)
(* A step is a critical section of Server.mu or a system call on a         *)
(* listener or a connection, with the controllers that run before the next *)
(* one.  What a request asks for is left out: it is answered by a          *)
(* response, or it is one-way.  The frame of a request is always good.     *)
(***************************************************************************)
EXTENDS Naturals, Sequences, FiniteSets

CONSTANTS
    Conns,          \* connections that clients make
    Requests,       \* requests that clients send
    Oneway,         \* those that expect no response
    Slow,           \* those whose service method may never return
    Capacity,       \* RateLimit.Capacity
    MaxFills,       \* bound on the tokens that come into the bucket
    nil

ASSUME ServerAssumption ==
    /\ IsFiniteSet(Conns) /\ IsFiniteSet(Requests)
    /\ Oneway \subseteq Requests
    /\ Slow \subseteq Requests
    /\ Capacity \in Nat \ {0} /\ MaxFills \in Nat
    /\ nil \notin Conns

VARIABLES
    controllers,    \* controllerServer.controllers
    tokens,         \* what the bucket of RateLimit holds
    fills,          \* history: the tokens that came into it
    clientMeter,    \* the meters of Metric
    readQps, writeQps,
    network,        \* the argument of Serve
    loop,           \* where Serve is
    cur,            \* the connection in the hands of the accept loop
    why,            \* what made Accept fail
    ret,            \* what Serve returned
    lnSet,          \* Server.ln is set
    lnOpen,         \* the listener exists and is open
    done,           \* doneChan is closed
    activeConn,     \* Server.activeConn
    state,          \* where each connection is
    open,           \* the connections that are open on this side
    via,            \* the connection each request was sent on, or nil
    request         \* where each request is

loopVars == <<loop, cur, why, ret>>
reqVars  == <<via, request>>
lnVars   == <<network, lnSet>>
bucket   == <<tokens, fills>>
qps      == <<readQps, writeQps>>
ctrlVars == <<controllers, bucket, clientMeter, qps>>
vars == <<loopVars, lnVars, lnOpen, done, activeConn, state, open, reqVars,
          ctrlVars>>

Move(c, where) == state' = [state EXCEPT ![c] = where]

\* What the user has added with Metric and RateLimit.  A Trace keeps nothing
\* and refuses nothing.
Chains == {<<>>, <<"Metric", "RateLimit">>, <<"RateLimit", "Metric">>}

\* The place of a controller in the chain, or 0.
Place(name) == IF \E p \in DOMAIN controllers : controllers[p] = name
                 THEN CHOOSE p \in DOMAIN controllers : controllers[p] = name
                 ELSE 0

\* A mark on a meter of Metric, if there is a Metric.
Mark(meter) == IF Place("Metric") = 0 THEN meter ELSE meter + 1

Init ==
    /\ controllers \in Chains
    /\ tokens = Capacity /\ fills = 0
    /\ clientMeter = 0 /\ readQps = 0 /\ writeQps = 0
    /\ network \in {"tcp", "http"}
    /\ loop = "idle" /\ cur = nil /\ why = "none" /\ ret = "none"
    /\ lnSet = FALSE /\ lnOpen = FALSE /\ done = FALSE
    /\ activeConn = {}
    /\ state = [c \in Conns |-> "none"]
    /\ open = {}
    /\ via = [r \in Requests |-> nil]
    /\ request = [r \in Requests |-> "none"]

-----------------------------------------------------------------------------
(* Faults that the properties below detect. *)

\* Close leaves the connections to their clients.
CloseKeepsConns ==
    /\ done' = TRUE
    /\ lnOpen' = (lnOpen /\ ~lnSet)
    /\ UNCHANGED <<loopVars, lnVars, activeConn, state, open, reqVars,
                   ctrlVars>>

\* The loop retries after every error of Accept.
CheckDoneRetries ==
    /\ loop = "failed"
    /\ loop' = "accept"
    /\ UNCHANGED <<cur, why, ret, lnVars, lnOpen, done, activeConn, state,
                   open, reqVars, ctrlVars>>

\* HandleConn lets a connection pass when the bucket has just run dry.
HandleConnLate ==
    /\ tokens' = IF Place("RateLimit") = 0 \/ tokens = 0 THEN tokens ELSE tokens - 1
    /\ clientMeter' = Mark(clientMeter)
    /\ Move(cur, "serving")
    /\ UNCHANGED open

\* ServeHTTP serves a hijacked connection without registering it.
ServeHTTPSkips(c) ==
    /\ state[c] = "http"
    /\ Move(c, "serving")
    /\ UNCHANGED <<loopVars, lnVars, lnOpen, done, activeConn, open, reqVars,
                   ctrlVars>>

\* serveConn ends only for a connection that is still registered.
LeaveIfTracked(c) ==
    /\ state[c] = "serving"
    /\ c \in activeConn
    /\ Move(c, "leaving")
    /\ activeConn' = activeConn \ {c}
    /\ UNCHANGED <<loopVars, lnVars, lnOpen, done, open, reqVars, ctrlVars>>

\* serveConn handles a request before it reads the next one.
ReadSerially(c, r) ==
    /\ state[c] = "serving"
    /\ c \in open
    /\ via[r] = c /\ request[r] = "sent"
    /\ \A q \in Requests : via[q] = c => request[q] # "handling"
    /\ request' = [request EXCEPT ![r] = "handling"]
    /\ readQps' = Mark(readQps)
    /\ UNCHANGED <<loopVars, lnVars, lnOpen, done, activeConn, state, open,
                   via, controllers, bucket, clientMeter, writeQps>>

-----------------------------------------------------------------------------
(* Serve: serveListener, or serveHTTPListner and net/http's own loop. *)

\* Serve: makeListener, which fails on an unknown network or an address in
\* use.
MakeListener ==
    /\ loop = "idle"
    /\ \/ loop' = "start" /\ lnOpen' = TRUE /\ UNCHANGED ret
       \/ loop' = "returned" /\ ret' = "err" /\ UNCHANGED lnOpen
    /\ UNCHANGED <<cur, why, lnVars, done, activeConn, state, open, reqVars,
                   ctrlVars>>

\* s.ln = ln
Listen ==
    /\ loop = "start"
    /\ loop' = "accept"
    /\ lnSet' = TRUE
    /\ UNCHANGED <<network, cur, why, ret, lnOpen, done, activeConn, state,
                   open, reqVars, ctrlVars>>

Accept(c) ==
    /\ loop = "accept"
    /\ lnOpen
    /\ state[c] = "queued"
    /\ open' = open \cup {c}
    /\ IF network = "http" THEN Move(c, "http") /\ UNCHANGED <<loop, cur>>
               ELSE Move(c, "accepted") /\ loop' = "register" /\ cur' = c
    /\ UNCHANGED <<why, ret, lnVars, lnOpen, done, activeConn, reqVars,
                   ctrlVars>>

\* Accept fails for good, on a closed listener or otherwise, or for a while.
\* net/http's Serve returns the error or retries, and Serve returns nil.
AcceptFails ==
    /\ loop = "accept"
    /\ \/ ~lnOpen /\ why' = "closed"
       \/ lnOpen /\ why' \in {"permanent", "temporary"}
    /\ IF network = "tcp" THEN loop' = "failed" /\ UNCHANGED ret
       ELSE IF why' = "temporary" THEN UNCHANGED <<loop, ret>>
       ELSE loop' = "returned" /\ ret' = "nil"
    /\ UNCHANGED <<cur, lnVars, lnOpen, done, activeConn, state, open, reqVars,
                   ctrlVars>>

\* serveListener looks at doneChan, under mu, and returns or sleeps and
\* goes on.
CheckDone ==
    /\ loop = "failed"
    /\ loop' = IF ~done /\ why = "temporary" THEN "accept" ELSE "returned"
    /\ ret' = CASE done -> "ErrServerClosed"
                [] ~done /\ why = "temporary" -> ret
                [] OTHER -> "err"
    /\ UNCHANGED <<cur, why, lnVars, lnOpen, done, activeConn, state, open,
                   reqVars, ctrlVars>>

\* s.activeConn[conn] = struct{}{}, under mu.
Track ==
    /\ loop = "register"
    /\ loop' = "control"
    /\ activeConn' = activeConn \cup {cur}
    /\ UNCHANGED <<cur, why, ret, lnVars, lnOpen, done, state, open, reqVars,
                   ctrlVars>>

\* HandleConn of the controllers, one after the other: Metric counts, and
\* RateLimit takes a token if there is one.  The first that refuses ends the
\* chain, the connection is closed, and it stays in activeConn.
Refused == Place("RateLimit") # 0 /\ tokens = 0

HandleConn ==
    /\ tokens' = IF Place("RateLimit") = 0 \/ Refused THEN tokens ELSE tokens - 1
    /\ clientMeter' = IF Refused /\ Place("RateLimit") < Place("Metric")
                        THEN clientMeter ELSE Mark(clientMeter)
    /\ IF Refused THEN Move(cur, "rejected") /\ open' = open \ {cur}
                  ELSE Move(cur, "serving") /\ UNCHANGED open

Control ==
    /\ loop = "control"
    /\ loop' = "accept"
    /\ cur' = nil
    /\ HandleConn
    /\ UNCHANGED <<why, ret, lnVars, lnOpen, done, activeConn, reqVars,
                   controllers, fills, qps>>

\* A token comes into the bucket at every FillInterval, unless it is full.
Fill ==
    /\ fills < MaxFills
    /\ tokens < Capacity
    /\ tokens' = tokens + 1
    /\ fills' = fills + 1
    /\ UNCHANGED <<loopVars, lnVars, lnOpen, done, activeConn, state, open,
                   reqVars, controllers, clientMeter, qps>>

\* ServeHTTP: the hijacked connection is registered and served.  One whose
\* request is not a CONNECT, or that cannot be hijacked, stays with net/http,
\* which closes it.
ServeHTTP(c) ==
    /\ state[c] = "http"
    /\ \/ /\ Move(c, "serving")
          /\ activeConn' = activeConn \cup {c}
          /\ UNCHANGED open
       \/ /\ Move(c, "rejected")
          /\ open' = open \ {c}
          /\ UNCHANGED activeConn
    /\ UNCHANGED <<loopVars, lnVars, lnOpen, done, reqVars, ctrlVars>>

-----------------------------------------------------------------------------
(* serveConn and the requests. *)

\* decodeRequest, with PostRequest of the controllers.
Read(c, r) ==
    /\ state[c] = "serving"
    /\ c \in open
    /\ via[r] = c /\ request[r] = "sent"
    /\ request' = [request EXCEPT ![r] = "handling"]
    /\ readQps' = Mark(readQps)
    /\ UNCHANGED <<loopVars, lnVars, lnOpen, done, activeConn, state, open,
                   via, controllers, bucket, clientMeter, writeQps>>

\* A fault: serveConn closes its connection and leaves it in activeConn.
LeaveTracked(c) ==
    /\ state[c] = "serving"
    /\ Move(c, "leaving")
    /\ UNCHANGED <<loopVars, lnVars, lnOpen, done, activeConn, open, reqVars,
                   ctrlVars>>

\* decodeRequest fails: the client is gone, a deadline has passed, or Close
\* has closed the connection.  The deferred function takes it out of
\* activeConn.
Leave(c) ==
    /\ state[c] = "serving"
    /\ Move(c, "leaving")
    /\ activeConn' = activeConn \ {c}
    /\ UNCHANGED <<loopVars, lnVars, lnOpen, done, open, reqVars, ctrlVars>>

\* The deferred function closes the connection.
CloseConn(c) ==
    /\ state[c] = "leaving"
    /\ Move(c, "over")
    /\ open' = open \ {c}
    /\ UNCHANGED <<loopVars, lnVars, lnOpen, done, activeConn, reqVars,
                   ctrlVars>>

Reply(r) == IF r \in Oneway THEN "finished"
            ELSE IF via[r] \in open THEN "answered" ELSE "dropped"

\* A fault: the goroutine of a one-way request has nothing to do at its end.
RespondReturns(r) ==
    /\ request[r] = "handling"
    /\ request' = [request EXCEPT ![r] = Reply(r)]
    /\ writeQps' = IF r \in Oneway THEN writeQps ELSE Mark(writeQps)
    /\ UNCHANGED <<loopVars, lnVars, lnOpen, done, activeConn, state, open,
                   via,
                   controllers, bucket, clientMeter, readQps>>

\* The goroutine of a request: handleRequest returns a response or an error
\* response, and conn.Write, whose error is ignored, sends it unless the
\* request is one-way.  PostResponse of the controllers follows in any case.
Respond(r) ==
    /\ request[r] = "handling"
    /\ request' = [request EXCEPT ![r] = Reply(r)]
    /\ writeQps' = Mark(writeQps)
    /\ UNCHANGED <<loopVars, lnVars, lnOpen, done, activeConn, state, open,
                   via,
                   controllers, bucket, clientMeter, readQps>>

-----------------------------------------------------------------------------
\* Close, under mu: doneChan is closed unless it is already, the listener if
\* Serve has stored it, and every connection of activeConn.
Close ==
    /\ done' = TRUE
    /\ lnOpen' = (lnOpen /\ ~lnSet)
    /\ open' = open \ activeConn
    /\ activeConn' = {}
    /\ UNCHANGED <<loopVars, lnVars, state, reqVars, ctrlVars>>

-----------------------------------------------------------------------------
(* The clients. *)

Dial(c) ==
    /\ lnOpen
    /\ state[c] = "none"
    /\ Move(c, "queued")
    /\ UNCHANGED <<loopVars, lnVars, lnOpen, done, activeConn, open, reqVars,
                   ctrlVars>>

Send(c, r) ==
    /\ state[c] \notin {"none", "rejected", "over"}
    /\ request[r] = "none"
    /\ via' = [via EXCEPT ![r] = c]
    /\ request' = [request EXCEPT ![r] = "sent"]
    /\ UNCHANGED <<loopVars, lnVars, lnOpen, done, activeConn, state, open,
                   ctrlVars>>

AcceptLoop ==
    \/ MakeListener \/ Listen \/ (\E c \in Conns : Accept(c)) \/ AcceptFails
    \/ CheckDone \/ Track \/ Control

ServeConn(c) == ServeHTTP(c) \/ (\E r \in Requests : Read(c, r)) \/ Leave(c)
                \/ CloseConn(c)

Next ==
    \/ AcceptLoop \/ Close \/ Fill
    \/ \E c \in Conns : ServeConn(c) \/ Dial(c) \/ \E r \in Requests : Send(c, r)
    \/ \E r \in Requests : Respond(r)

Spec == Init /\ [][Next]_vars

\* The goroutines of the server run: an Accept or a read on something closed
\* returns, a request that has arrived is read, and a service method ends
\* unless it is slow.  Nothing is assumed of the clients or of the user.
FairSpec ==
    /\ Spec
    /\ WF_vars(Listen \/ (~lnOpen /\ AcceptFails) \/ CheckDone \/ Track
               \/ Control)
    /\ \A c \in Conns : WF_vars(ServeHTTP(c) \/ (c \notin open /\ Leave(c))
                                \/ CloseConn(c))
    /\ \A r \in Requests : WF_vars(\E c \in Conns : Read(c, r))
    /\ \A r \in Requests \ Slow : WF_vars(Respond(r))

-----------------------------------------------------------------------------
\* The variables keep their types: the accept loop, every serveConn and every
\* request's goroutine are at a step the code has.
TypeOK ==
    /\ controllers \in Chains
    /\ tokens \in 0 .. Capacity /\ fills \in 0 .. MaxFills
    /\ clientMeter \in Nat /\ readQps \in Nat /\ writeQps \in Nat
    /\ network \in {"tcp", "http"}
    /\ loop \in {"idle", "start", "accept", "register", "control", "failed",
                 "returned"}
    /\ cur \in Conns \cup {nil}
    /\ why \in {"none", "closed", "permanent", "temporary"}
    /\ ret \in {"none", "nil", "err", "ErrServerClosed"}
    /\ lnSet \in BOOLEAN /\ lnOpen \in BOOLEAN /\ done \in BOOLEAN
    /\ activeConn \subseteq Conns
    /\ state \in [Conns -> {"none", "queued", "accepted", "http", "serving",
                            "rejected", "leaving", "over"}]
    /\ open \subseteq Conns
    /\ via \in [Requests -> Conns \cup {nil}]
    /\ request \in [Requests -> {"none", "sent", "handling", "answered",
                                 "dropped", "finished"}]

\* Accepted and not yet registered.
Unregistered(c) ==
    state[c] = "http" \/ (state[c] = "accepted" /\ loop = "register")

\* Close can reach every open connection, except one that is not registered
\* yet and one that its own serveConn is about to close.
OpenIsTracked ==
    \A c \in open :
        c \in activeConn \/ Unregistered(c) \/ state[c] = "leaving"

\* Close stops the server but for a connection caught between Accept and its
\* registration: once it has closed the listener, at most one connection of
\* the accept loop is still open and not about to be closed.
CloseLeavesAtMostOne ==
    done /\ lnSet /\ ~lnOpen /\ network = "tcp" =>
        Cardinality({c \in open : state[c] # "leaving"}) <= 1

\* activeConn does not grow with the connections that have ended: what it
\* holds is open, except the connections that RateLimit turned away.
TrackedIsLive == \A c \in activeConn : c \in open \/ state[c] = "rejected"

In(states) == {c \in Conns : state[c] \in states}

\* RateLimit admits no more connections than the bucket held and was given.
\* That goes for the accept loop; ServeHTTP does not ask the controllers.
AdmittedWithinLimit ==
    Place("RateLimit") # 0 /\ network = "tcp" =>
        Cardinality(In({"serving", "leaving", "over"})) <= Capacity + fills

\* The meters of Metric agree with each other: the requests that Read_Qps has
\* and Write_Qps has not are those that are being handled, whether they are
\* one-way, answered, or cannot be answered any more.
MetersAgree ==
    Place("Metric") # 0 =>
        readQps = writeQps + Cardinality({r \in Requests : request[r] = "handling"})

\* Once Close has closed the listener, Serve returns.
ServeReturns == (done /\ lnSet /\ ~lnOpen) ~> loop = "returned"

\* A connection that Close has closed is given up by its serveConn.
ServingEnds ==
    \A c \in Conns : (state[c] = "serving" /\ c \notin open) ~> state[c] = "over"

\* A request is handled although another request on the same connection
\* never ends, as long as the connection is served.
NoHeadOfLineBlocking ==
    \A r \in Requests \ Slow : \A c \in Conns :
        (request[r] = "sent" /\ via[r] = c)
        ~> \/ request[r] \in {"answered", "dropped", "finished"}
           \/ state[c] # "serving"
           \/ c \notin open
=============================================================================
