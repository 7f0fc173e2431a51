----------------------------- MODULE ClientPool -----------------------------
(***************************************************************************)
(* A Client with service discovery: the clients it has connected           *)
(* (cachedClient), the goroutines in Call with its three fail modes,       *)
(* removeClient, and Close.                                                *)
(*                                                                         *)
(* A connected client is the connection that ClientConn models.  Here it   *)
(* is its two flags, and what a CallDirect on it may return.  A step is a  *)
(* critical section of the parent's mutex, a CallDirect, or a Close.       *)
(***************************************************************************)
EXTENDS Naturals

CONSTANTS
    Callers,        \* goroutines that run Call once
    Servers,        \* the server names the selector was created with
    Kids,           \* the client objects getCachedClient may create
    Retries,        \* option.retries
    nil

ASSUME PoolAssumption ==
    /\ Retries \in Nat
    /\ nil \notin Servers \cup Kids

VARIABLES
    mode,           \* controllerClient.failMode
    servers,        \* the servers of the selector
    cache,          \* cachedClient; nil where the map has no entry
    host,           \* the server each client is connected to, or nil
    shutdown,       \* the clients whose shutdown flag is set
    closing,        \* the clients whose closing flag is set
    closed,         \* history: the clients on which Close was called
    pc,             \* where each caller is
    cname,          \* its local cname; nil is the empty name
    kid,            \* its local client
    left,           \* its local retries
    err,            \* its local err
    first,          \* it is still in Call's own selectClient
    served,         \* history: the callers a CallDirect has succeeded for
    poolClosed,     \* Close was called on the parent
    unwatching,     \* the goroutine of some Close is about to run
    watching        \* the registry channel is registered and open

poolVars == <<cache, host>>
kidVars  == <<shutdown, closing, closed>>
watchVars == <<poolClosed, unwatching, watching>>
localVars == <<cname, kid, left, err, first>>
vars == <<mode, servers, poolVars, kidVars, pc, localVars, served, watchVars>>

NoError == "nil"
Errors == {NoError, "ErrClientNoServer", "connect", "ErrShutdown",
           "ServiceError", "other"}
Modes == {"FailFast", "FailOver", "FailTry"}

Dead(k) == k \in shutdown \cup closing

Set(f, u, v) == [f EXCEPT ![u] = v]

Init ==
    /\ mode \in Modes
    /\ servers \in {Servers, {}}
    /\ cache = [s \in Servers |-> nil]
    /\ host = [k \in Kids |-> nil]
    /\ shutdown = {} /\ closing = {} /\ closed = {}
    /\ pc = [u \in Callers |-> "idle"]
    /\ cname = [u \in Callers |-> nil]
    /\ kid = [u \in Callers |-> nil]
    /\ left = [u \in Callers |-> Retries]
    /\ err = [u \in Callers |-> NoError]
    /\ first = [u \in Callers |-> TRUE]
    /\ served = {}
    /\ poolClosed = FALSE /\ unwatching = FALSE /\ watching = TRUE

-----------------------------------------------------------------------------
(* Call, selectClient and getCachedClient. *)

Call(u) ==
    /\ pc[u] = "idle"
    /\ pc' = Set(pc, u, "select")
    /\ UNCHANGED <<mode, servers, poolVars, kidVars, localVars, served,
                   watchVars>>

\* The client or error of selectClient or getCachedClient: Call returns an
\* error of its own selectClient in every mode, since no failMode is a
\* FailFastMod value.
Got(u, k, e) ==
    /\ kid' = Set(kid, u, k)
    /\ err' = Set(err, u, e)
    /\ first' = Set(first, u, FALSE)
    /\ pc' = Set(pc, u, IF first[u] /\ e # NoError THEN "returned" ELSE "try")

\* selectClient: the selector picks a server, if it has one.
Select(u) ==
    /\ pc[u] = "select"
    /\ \/ \E s \in servers :
             /\ cname' = Set(cname, u, s)
             /\ pc' = Set(pc, u, "lookup")
             /\ UNCHANGED <<kid, err, first>>
       \/ /\ servers = {}
          /\ cname' = Set(cname, u, nil)
          /\ Got(u, nil, "ErrClientNoServer")
    /\ UNCHANGED <<mode, servers, poolVars, kidVars, left, served, watchVars>>

\* getCachedClient, under the read lock: a cached client that is not dead.
Lookup(u) ==
    /\ pc[u] = "lookup"
    /\ IF cache[cname[u]] # nil /\ ~Dead(cache[cname[u]])
         THEN Got(u, cache[cname[u]], NoError)
         ELSE pc' = Set(pc, u, "connect") /\ UNCHANGED <<kid, err, first>>
    /\ UNCHANGED <<mode, servers, poolVars, kidVars, cname, left, served,
                   watchVars>>

\* A fault: the cache is not looked up again under the lock.
ConnectUnchecked(u) ==
    /\ pc[u] = "connect"
    /\ \E k \in Kids :
          /\ host[k] = nil
          /\ host' = Set(host, k, cname[u])
          /\ cache' = Set(cache, cname[u], k)
          /\ Got(u, k, NoError)
    /\ UNCHANGED <<mode, servers, kidVars, cname, left, served, watchVars>>

\* getCachedClient, under the lock: whatever is cached by now, else a new
\* connection, else the error of Connect.
Connect(u) ==
    /\ pc[u] = "connect"
    /\ LET s == cname[u]
       IN \/ /\ cache[s] # nil
             /\ Got(u, cache[s], NoError)
             /\ UNCHANGED poolVars
          \/ /\ cache[s] = nil
             /\ Got(u, nil, "connect")
             /\ UNCHANGED poolVars
          \/ /\ cache[s] = nil
             /\ \E k \in Kids :
                   /\ host[k] = nil
                   /\ host' = Set(host, k, s)
                   /\ cache' = Set(cache, s, k)
                   /\ Got(u, k, NoError)
    /\ UNCHANGED <<mode, servers, kidVars, cname, left, served, watchVars>>

-----------------------------------------------------------------------------
(* The fail modes. *)

\* What CallDirect may return: send refuses a client that is dead.
Outcomes(k) == IF Dead(k) THEN {"ErrShutdown"}
                          ELSE {NoError, "ServiceError", "other"}

\* A CallDirect on the client at hand, when the loop goes round, and where a
\* success leads.
TryWith(u, enough, onSuccess) ==
    /\ pc[u] = "try"
    /\ kid[u] # nil
    /\ mode = "FailFast" \/ enough
    /\ left' = IF mode = "FailFast" THEN left
                                    ELSE Set(left, u, left[u] - 1)
    /\ \E e \in Outcomes(kid[u]) :
          /\ err' = Set(err, u, e)
          /\ served' = IF e = NoError THEN served \cup {u} ELSE served
          /\ pc' = Set(pc, u, CASE e = NoError -> onSuccess
                               [] mode = "FailFast" /\ e = "ServiceError"
                                    -> "returned"
                               [] OTHER -> "remove")
    /\ UNCHANGED <<mode, servers, poolVars, kidVars, cname, kid, first,
                   watchVars>>

\* A fault: a success after which the loop goes on.
TryGoesOn(u) == TryWith(u, left[u] > 0, "remove")

\* One CallDirect.  FailFast makes one and keeps the client after an error of
\* the service; the other modes make up to Retries, and replace the client
\* after any error.
Try(u) == TryWith(u, left[u] > 0, "returned")

\* A fault: only attempts with a client are counted.
TryNoneUncounted(u) ==
    /\ pc[u] = "try"
    /\ mode # "FailFast"
    /\ kid[u] = nil
    /\ left[u] > 0
    /\ pc' = Set(pc, u, "remove")
    /\ UNCHANGED <<mode, servers, poolVars, kidVars, localVars, served,
                   watchVars>>

\* FailOver and FailTry without a client: the attempt is spent.
TryNone(u) ==
    /\ pc[u] = "try"
    /\ mode # "FailFast"
    /\ kid[u] = nil
    /\ left[u] > 0
    /\ left' = Set(left, u, left[u] - 1)
    /\ pc' = Set(pc, u, "remove")
    /\ UNCHANGED <<mode, servers, poolVars, kidVars, cname, kid, err, first,
                   served, watchVars>>

\* FailOver and FailTry return the err of the last selection.
GiveUp(u) ==
    /\ pc[u] = "try"
    /\ mode # "FailFast"
    /\ left[u] = 0
    /\ pc' = Set(pc, u, "returned")
    /\ UNCHANGED <<mode, servers, poolVars, kidVars, localVars, served,
                   watchVars>>

\* What a fail mode does once removeClient is done.
AfterRemove == CASE mode = "FailFast" -> "returned"
                 [] mode = "FailOver" -> "select"
                 [] mode = "FailTry"  -> "lookup"

\* Faults: the entry stays, and the entry goes whichever client it holds.
RemoveKeeps(u) ==
    /\ pc[u] = "remove"
    /\ pc' = Set(pc, u, IF kid[u] = nil THEN AfterRemove ELSE "close")
    /\ UNCHANGED <<mode, servers, poolVars, kidVars, localVars, served,
                   watchVars>>

RemoveAny(u) ==
    /\ pc[u] = "remove"
    /\ cache' = [s \in Servers |-> IF s = cname[u] THEN nil ELSE cache[s]]
    /\ pc' = Set(pc, u, IF kid[u] = nil THEN AfterRemove ELSE "close")
    /\ UNCHANGED <<mode, servers, host, kidVars, localVars, served, watchVars>>

\* removeClient, under the lock: the entry goes if it is this client.
Remove(u) ==
    /\ pc[u] = "remove"
    /\ cache' = [s \in Servers |-> IF s = cname[u] /\ cache[s] = kid[u]
                                     THEN nil ELSE cache[s]]
    /\ pc' = Set(pc, u, IF kid[u] = nil THEN AfterRemove ELSE "close")
    /\ UNCHANGED <<mode, servers, host, kidVars, localVars, served, watchVars>>

\* removeClient: Close of the client, which has no cachedClient of its own,
\* and shares the registryClient of its parent.
Close(u) ==
    /\ pc[u] = "close"
    /\ shutdown' = shutdown \cup {kid[u]}
    /\ closed' = closed \cup {kid[u]}
    /\ unwatching' = TRUE
    /\ pc' = Set(pc, u, AfterRemove)
    /\ UNCHANGED <<mode, servers, poolVars, closing, localVars, served,
                   poolClosed, watching>>

-----------------------------------------------------------------------------
(* Close of the parent, the registry channel, and the connections. *)

Cached == {k \in Kids : \E s \in Servers : cache[s] = k}

\* Close: close of every cached client, all under the parent's mutex.
PoolClose ==
    /\ ~poolClosed
    /\ poolClosed' = TRUE
    /\ closing' = closing \cup (Cached \ shutdown)
    /\ cache' = [s \in Servers |-> nil]
    /\ unwatching' = TRUE
    /\ UNCHANGED <<mode, servers, host, shutdown, closed, pc, localVars, served,
                   watching>>

\* The goroutine of Close: RemoveWatcher, and close of the channel; closing
\* it again panics, and the panic is recovered.
Unwatch ==
    /\ unwatching
    /\ unwatching' = FALSE
    /\ watching' = FALSE
    /\ UNCHANGED <<mode, servers, poolVars, kidVars, pc, localVars, served,
                   poolClosed>>

\* The reader of a connection ends.
Die(k) ==
    /\ host[k] # nil
    /\ k \notin shutdown
    /\ shutdown' = shutdown \cup {k}
    /\ UNCHANGED <<mode, servers, poolVars, closing, closed, pc, localVars,
                   served, watchVars>>

Caller(u) ==
    \/ Select(u) \/ Lookup(u) \/ Connect(u) \/ Try(u) \/ TryNone(u)
    \/ GiveUp(u) \/ Remove(u) \/ Close(u)

Next ==
    \/ \E u \in Callers : Call(u) \/ Caller(u)
    \/ PoolClose \/ Unwatch
    \/ \E k \in Kids : Die(k)

Spec == Init /\ [][Next]_vars

\* A goroutine in Call runs on, and its CallDirect returns.
FairSpec == Spec /\ \A u \in Callers : WF_vars(Caller(u))

-----------------------------------------------------------------------------
\* The variables keep their types; no fail mode counts its retries below zero
\* or above the ones it was given.
TypeOK ==
    /\ mode \in Modes
    /\ servers \subseteq Servers
    /\ cache \in [Servers -> Kids \cup {nil}]
    /\ host \in [Kids -> Servers \cup {nil}]
    /\ shutdown \subseteq Kids /\ closing \subseteq Kids
    /\ closed \subseteq Kids
    /\ pc \in [Callers -> {"idle", "select", "lookup", "connect", "try",
                           "remove", "close", "returned"}]
    /\ cname \in [Callers -> Servers \cup {nil}]
    /\ kid \in [Callers -> Kids \cup {nil}]
    /\ left \in [Callers -> 0 .. Retries]
    /\ err \in [Callers -> Errors]
    /\ first \in [Callers -> BOOLEAN]
    /\ served \subseteq Callers
    /\ poolClosed \in BOOLEAN /\ unwatching \in BOOLEAN /\ watching \in BOOLEAN

\* No connection is lost: a client that is connected and not dead is in the
\* cache, where the next call finds it and Close reaches it, or in the hands
\* of a caller that is about to close it.
NoStrayClient ==
    \A k \in Kids : host[k] # nil =>
        \/ Dead(k)
        \/ cache[host[k]] = k
        \/ \E u \in Callers : pc[u] = "close" /\ kid[u] = k

\* removeClient takes a client out of the cache before it closes it, and no
\* path puts it back: Close of the parent never calls close on a client
\* that has been given to Close.
ClosedIsEvicted == closed \cap Cached = {}

\* A caller evicts the client its own CallDirect failed on, and never the
\* client that another caller has connected in its place.
EvictsItsOwnClient ==
    [][\A s \in Servers : cache[s] # nil /\ cache'[s] # cache[s] =>
          \/ poolClosed' # poolClosed
          \/ \E u \in Callers :
                pc[u] = "remove" /\ pc'[u] = "close" /\ kid[u] = cache[s]]_vars

\* A caller whose CallDirect has succeeded returns without an error and makes
\* no further attempt, and under FailFast the converse holds.
ServedReturnsNil ==
    \A u \in Callers :
        /\ u \in served => pc[u] = "returned" /\ err[u] = NoError
        /\ mode = "FailFast" /\ pc[u] = "returned" /\ err[u] = NoError
             => u \in served

\* Every Call returns, whatever the connections and the other callers do.
EveryCallReturns ==
    \A u \in Callers : pc[u] = "select" ~> pc[u] = "returned"

-----------------------------------------------------------------------------
(* What the tests of the fail modes take for granted, and the code does not *)
(* do.                                                                      *)

\* A Call that returns nil has been served: the tests print reply.C then.
NilMeansServed ==
    \A u \in Callers :
        pc[u] = "returned" /\ err[u] = NoError => u \in served

-----------------------------------------------------------------------------
(* The inductive invariant behind the safety properties. *)

\* A client is cached under the name of the server it is connected to.
CacheInv == \A s \in Servers : cache[s] # nil => host[cache[s]] = s

\* A caller has the client of the server it has selected, and has selected
\* one whenever it looks one up: under FailTry it never selects again.
LocalInv ==
    \A u \in Callers :
        /\ pc[u] \in {"lookup", "connect"} => cname[u] # nil
        /\ pc[u] \in {"try", "remove", "close"} /\ kid[u] # nil
             => host[kid[u]] = cname[u] /\ cname[u] # nil
        /\ mode = "FailTry" /\ pc[u] \in {"try", "remove", "close"}
             => cname[u] # nil
        /\ mode = "FailTry" /\ pc[u] \in {"idle", "select"} => first[u]
        /\ pc[u] = "idle" => first[u]

\* A client that is about to be closed has left the cache.
CloseInv ==
    \A u \in Callers : pc[u] = "close" =>
        kid[u] # nil /\ cache[cname[u]] # kid[u]

\* A client that was closed has been connected and has left the cache.
ClosedInv == \A k \in closed : host[k] # nil /\ cache[host[k]] # k

\* FailFast removes a client after an error only.
FailedInv ==
    \A u \in Callers :
        mode = "FailFast" /\ pc[u] \in {"remove", "close"} => err[u] # NoError

PoolInv ==
    /\ TypeOK /\ CacheInv /\ LocalInv /\ CloseInv /\ ClosedInv /\ FailedInv
    /\ NoStrayClient /\ ServedReturnsNil
=============================================================================
