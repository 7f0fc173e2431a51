----------------------------- MODULE ClientConn -----------------------------
(***************************************************************************)
(* One connected Client of client/client.go: the table of pending calls,   *)
(* the goroutines that issue calls (Go, call and heartbeat, all of which   *)
(* run send), the reader goroutine (handleResponse), Close and close, and  *)
(* the connection with the server at its other end.                        *)
(*                                                                         *)
(* A step is a critical section of client.mutex, or a piece of code        *)
(* between two of them that another goroutine can observe.  A payload is   *)
(* abstracted to the call whose arguments it encodes, an error to its      *)
(* origin.  Storing call.Error and the send of done() that follows it are  *)
(* one step.                                                               *)
(*                                                                         *)
(* The client is either connected by its user (Cached = FALSE: the user    *)
(* may call Go on it, and nothing calls close), or an entry of a parent's  *)
(* cachedClient (Cached = TRUE: it is reached through CallDirect only, and *)
(* the parent's Close calls close on it).                                  *)
(***************************************************************************)
EXTENDS Naturals

CONSTANTS
    Calls,          \* the Call objects issued on the connection
    Beats,          \* those that heartbeat() issues, with context.Background()
    Async,          \* those a user issues with Go
    Cancellable,    \* those of call() whose ctx may be cancelled or time out
    Cached,         \* is the client an entry of a parent's cachedClient?
    DoneCap,        \* capacity of the Done channel of Go
    MaxSeq,         \* bound: the largest sequence number that is handed out
    nil

ASSUME ConnAssumption ==
    /\ Beats \subseteq Calls
    /\ Async \subseteq Calls \ Beats
    /\ Cancellable \subseteq Calls \ (Beats \cup Async)
    /\ Cached \in BOOLEAN
    /\ Cached => Async = {}
    /\ DoneCap \in Nat \ {0}
    /\ MaxSeq \in Nat
    /\ nil \notin Calls

VARIABLES
    seq,            \* Client.seq
    pending,        \* Client.pending; nil where the map has no entry
    closing,        \* Client.closing
    shutdown,       \* Client.shutdown
    pc,             \* where the goroutine of each call is
    mySeq,          \* the local seq of send
    err,            \* Call.Error
    done,           \* len(Call.Done): every element is the call itself
    ret,            \* the error each caller was given
    beating,        \* heartbeat() has not returned
    reader,         \* where handleResponse is
    held,           \* its local call
    res,            \* its local res
    rerr,           \* its local err
    closer,         \* where close() is
    connOpen,       \* conn.Close() has not been called on this side
    link,           \* what a read of the connection meets once it is empty
    requests,       \* requests the server has not handled
    responses,      \* responses the reader has not decoded
    handled,        \* history: calls whose request the server has handled
    answered,       \* history: calls that a response has completed
    userClosed      \* history: Close() has been called

tableVars  == <<seq, pending, closing, shutdown>>
callVars   == <<err, done>>
callerVars == <<pc, mySeq, ret, beating>>
readerVars == <<reader, held, res, rerr, answered>>
closeVars  == <<closer, connOpen, userClosed>>
netVars    == <<link, requests, responses, handled>>
vars == <<tableVars, callVars, callerVars, readerVars, closeVars, netVars>>

Seqs == 0 .. MaxSeq

NoError == "nil"
Errors == {NoError, "ErrShutdown", "ErrUnsupportedCodec", "encode", "write",
           "ctx", "ServiceError", "decode", "read", "EOF",
           "ErrUnexpectedEOF"}

Request == [seq : Seqs, call : Calls]

\* What a response makes the reader do: complete the call without an error
\* (ok, beat), with a ServiceError, or fail to decode the payload (garbled).
Response == [seq : Seqs, call : Calls,
             status : {"ok", "beat", "error", "garbled"}]

\* call() makes its own channel of capacity 1.
Cap(c) == IF c \in Async THEN DoneCap ELSE 1

Dead == shutdown \/ closing

Pending == {c \in Calls : \E s \in Seqs : pending[s] = c}

\* call.Error = e; call.done() for the calls of S: done drops the call when
\* its channel is full.
Complete(S, e) ==
    /\ err' = [c \in Calls |-> IF c \in S THEN e ELSE err[c]]
    /\ done' = [c \in Calls |-> IF c \in S /\ done[c] < Cap(c)
                                  THEN done[c] + 1 ELSE done[c]]

Goto(c, where) == pc' = [pc EXCEPT ![c] = where]

Init ==
    /\ seq = 0
    /\ pending = [s \in Seqs |-> nil]
    /\ closing = FALSE
    /\ shutdown = FALSE
    /\ pc = [c \in Calls |-> "idle"]
    /\ mySeq = [c \in Calls |-> 0]
    /\ err = [c \in Calls |-> NoError]
    /\ done = [c \in Calls |-> 0]
    /\ ret = [c \in Calls |-> nil]
    /\ beating = TRUE
    /\ reader = "read"
    /\ held = nil
    /\ res = nil
    /\ rerr = NoError
    /\ closer = "idle"
    /\ connOpen = TRUE
    /\ link = "up"
    /\ requests = {}
    /\ responses = {}
    /\ handled = {}
    /\ answered = {}
    /\ userClosed = FALSE

-----------------------------------------------------------------------------
(* Faults that the properties below detect, one per property. *)

\* send registers a call without looking at shutdown and closing.
RegisterUnchecked(c) ==
    /\ pc[c] = "send"
    /\ seq < MaxSeq
    /\ seq' = seq + 1
    /\ pending' = [pending EXCEPT ![seq] = c]
    /\ mySeq' = [mySeq EXCEPT ![c] = seq]
    /\ Goto(c, IF c \in Beats THEN "write" ELSE "encode")
    /\ UNCHANGED <<closing, shutdown, callVars, ret, beating, readerVars,
                   closeVars, netVars>>

\* send forgets client.seq++.
RegisterSameSeq(c) ==
    /\ pc[c] = "send"
    /\ ~Dead
    /\ pending' = [pending EXCEPT ![seq] = c]
    /\ mySeq' = [mySeq EXCEPT ![c] = seq]
    /\ Goto(c, IF c \in Beats THEN "write" ELSE "encode")
    /\ UNCHANGED <<seq, closing, shutdown, callVars, ret, beating, readerVars,
                   closeVars, netVars>>

\* A failed write deletes the entry and does not complete the call.
WriteFailsDrops(c) ==
    /\ pc[c] = "write"
    /\ pending' = [pending EXCEPT ![mySeq[c]] = nil]
    /\ Goto(c, "wait")
    /\ UNCHANGED <<seq, closing, shutdown, callVars, mySeq, ret, beating,
                   readerVars, closeVars, netVars>>

\* A failed write completes the call without its error.
WriteFailsSilently(c) ==
    /\ pc[c] = "write"
    /\ pending' = [pending EXCEPT ![mySeq[c]] = nil]
    /\ Complete({pending[mySeq[c]]}, NoError)
    /\ Goto(c, "wait")
    /\ UNCHANGED <<seq, closing, shutdown, mySeq, ret, beating, readerVars,
                   closeVars, netVars>>

\* handleResponse looks a call up and leaves it in the table.
ReadResponseKeeps(m) ==
    /\ reader = "read"
    /\ m \in responses
    /\ responses' = responses \ {m}
    /\ held' = pending[m.seq]
    /\ res' = IF held' = nil THEN nil ELSE m
    /\ reader' = IF held' = nil THEN "read" ELSE "deliver"
    /\ UNCHANGED <<tableVars, callVars, callerVars, rerr, answered, closeVars,
                   link, requests, handled>>

\* handleResponse returns without completing the calls of the table.
DrainSkips ==
    /\ reader = "exit"
    /\ reader' = "exited"
    /\ shutdown' = TRUE
    /\ UNCHANGED <<seq, pending, closing, callVars, callerVars, held, res, rerr,
                   answered, closeVars, netVars>>

\* close() completes the calls and leaves them in the table.
CloseTableKeeps ==
    /\ Cached
    /\ closer = "idle"
    /\ ~userClosed
    /\ Complete(Pending, "ErrShutdown")
    /\ closing' = (closing \/ ~shutdown)
    /\ closer' = IF Dead THEN "closed" ELSE "conn"
    /\ UNCHANGED <<seq, pending, shutdown, callerVars, readerVars, connOpen,
                   userClosed, netVars>>

-----------------------------------------------------------------------------
(* The callers: Go, call, heartbeat and send. *)

\* A user calls Go or CallDirect.
Start(c) ==
    /\ c \notin Beats
    /\ pc[c] = "idle"
    /\ Goto(c, "send")
    /\ UNCHANGED <<tableVars, callVars, mySeq, ret, beating, readerVars,
                   closeVars, netVars>>

\* A tick of heartbeat(): the flags are read without the mutex, and the next
\* tick is taken only after the previous CallDirect has returned.
Tick(c) ==
    /\ c \in Beats
    /\ beating
    /\ pc[c] = "idle"
    /\ \A b \in Beats : pc[b] \in {"idle", "returned"}
    /\ beating' = ~Dead
    /\ Goto(c, IF Dead THEN "idle" ELSE "send")
    /\ UNCHANGED <<tableVars, callVars, mySeq, ret, readerVars, closeVars,
                   netVars>>

\* send: the connection is down, or the codec is not known.  The user of a
\* client may change its serialize type between two calls; a cached client
\* keeps the one it was created with, here a known one.
Refuse(c) ==
    /\ pc[c] = "send"
    /\ Dead \/ ~Cached
    /\ Complete({c}, IF Dead THEN "ErrShutdown" ELSE "ErrUnsupportedCodec")
    /\ Goto(c, "wait")
    /\ UNCHANGED <<tableVars, mySeq, ret, beating, readerVars, closeVars,
                   netVars>>

\* send: the call gets a sequence number and enters the table.
Register(c) ==
    /\ pc[c] = "send"
    /\ ~Dead
    /\ seq < MaxSeq
    /\ seq' = seq + 1
    /\ pending' = [pending EXCEPT ![seq] = c]
    /\ mySeq' = [mySeq EXCEPT ![c] = seq]
    /\ Goto(c, IF c \in Beats THEN "write" ELSE "encode")
    /\ UNCHANGED <<closing, shutdown, callVars, ret, beating, readerVars,
                   closeVars, netVars>>

Encode(c) ==
    /\ pc[c] = "encode"
    /\ Goto(c, "write")
    /\ UNCHANGED <<tableVars, callVars, mySeq, ret, beating, readerVars,
                   closeVars, netVars>>

\* send: codec.Encode or util.Zip fails; the entry stays in the table.
EncodeFails(c) ==
    /\ pc[c] = "encode"
    /\ Complete({c}, "encode")
    /\ Goto(c, "wait")
    /\ UNCHANGED <<tableVars, mySeq, ret, beating, readerVars, closeVars,
                   netVars>>

\* conn.Write succeeds.  What is written to a link that is gone is lost, but
\* the request still reaches the server if only the read deadline has passed.
Write(c) ==
    /\ pc[c] = "write"
    /\ connOpen
    /\ \/ /\ link # "eof"
          /\ requests' = requests \cup {[seq |-> mySeq[c], call |-> c]}
       \/ link # "up" /\ UNCHANGED requests
    /\ Goto(c, "wait")
    /\ UNCHANGED <<tableVars, callVars, mySeq, ret, beating, readerVars,
                   closeVars, link, responses, handled>>

\* conn.Write fails, at the latest when the write deadline of Connect has
\* passed: whichever call has the sequence number is completed.
WriteFails(c) ==
    /\ pc[c] = "write"
    /\ pending' = [pending EXCEPT ![mySeq[c]] = nil]
    /\ Complete({pending[mySeq[c]]}, "write")
    /\ Goto(c, "wait")
    /\ UNCHANGED <<seq, closing, shutdown, mySeq, ret, beating, readerVars,
                   closeVars, netVars>>

\* call(), or the user of Go, receives from Done and reads call.Error.
Receive(c) ==
    /\ pc[c] = "wait"
    /\ done[c] > 0
    /\ done' = [done EXCEPT ![c] = @ - 1]
    /\ ret' = [ret EXCEPT ![c] = err[c]]
    /\ Goto(c, "returned")
    /\ UNCHANGED <<tableVars, err, mySeq, beating, readerVars, closeVars,
                   netVars>>

\* call(): ctx.Done() is ready.  The context that would carry the sequence
\* number to send is discarded, so *seq is still 0.
Cancel(c) ==
    /\ c \in Cancellable
    /\ pc[c] = "wait"
    /\ pending' = [pending EXCEPT ![0] = nil]
    /\ Complete({pending[0]}, "ctx")
    /\ ret' = [ret EXCEPT ![c] = "ctx"]
    /\ Goto(c, "returned")
    /\ UNCHANGED <<seq, closing, shutdown, mySeq, beating, readerVars,
                   closeVars, netVars>>

-----------------------------------------------------------------------------
(* The reader: handleResponse. *)

\* A response is decoded and its call is taken out of the table.
ReadResponse(m) ==
    /\ reader = "read"
    /\ m \in responses
    /\ responses' = responses \ {m}
    /\ pending' = [pending EXCEPT ![m.seq] = nil]
    /\ held' = pending[m.seq]
    /\ res' = IF held' = nil THEN nil ELSE m
    /\ reader' = IF held' = nil THEN "read" ELSE "deliver"
    /\ UNCHANGED <<seq, closing, shutdown, callVars, callerVars, rerr,
                   answered, closeVars, link, requests, handled>>

\* The call it has taken is completed.  A payload that does not decode ends
\* the loop: err is the variable the loop tests, and a codec may report a
\* short payload as io.EOF.
Deliver ==
    /\ reader = "deliver"
    /\ Complete({held}, IF res.status \in {"ok", "beat"} THEN err[held]
                                                        ELSE "ServiceError")
    /\ answered' = answered \cup {held}
    /\ IF res.status = "garbled"
         THEN reader' = "exit" /\ rerr' \in {"decode", "EOF"}
         ELSE reader' = "read" /\ UNCHANGED rerr
    /\ held' = nil
    /\ res' = nil
    /\ UNCHANGED <<tableVars, callerVars, closeVars, netVars>>

\* res.Decode fails: end of file, a broken link or read deadline, or a
\* connection that close() has closed.
ReadFails ==
    /\ reader = "read"
    /\ \/ link = "eof" /\ rerr' = "EOF"
       \/ (link = "broken" \/ ~connOpen) /\ rerr' = "read"
    /\ reader' = "exit"
    /\ UNCHANGED <<tableVars, callVars, callerVars, held, res, answered,
                   closeVars, netVars>>

\* After the loop: the calls of the table are completed, but stay in it.
Drain ==
    /\ reader = "exit"
    /\ reader' = "exited"
    /\ shutdown' = TRUE
    /\ Complete(Pending, IF rerr = "EOF"
                           THEN IF closing THEN "ErrShutdown"
                                           ELSE "ErrUnexpectedEOF"
                           ELSE rerr)
    /\ UNCHANGED <<seq, pending, closing, callerVars, held, res, rerr,
                   answered, closeVars, netVars>>

-----------------------------------------------------------------------------
(* Close and close. *)

\* Close, called by the user or by removeClient.  A connected client has no
\* cachedClient of its own, and the watcher it removes is not part of the
\* connection.
Close ==
    /\ ~userClosed
    /\ userClosed' = TRUE
    /\ shutdown' = TRUE
    /\ UNCHANGED <<seq, pending, closing, callVars, callerVars, readerVars,
                   closer, connOpen, netVars>>

\* close, called by Close of the parent: only for a client that is still
\* cached, and removeClient takes it out of the cache before it calls Close.
CloseTable ==
    /\ Cached
    /\ closer = "idle"
    /\ ~userClosed
    /\ Complete(Pending, "ErrShutdown")
    /\ pending' = [s \in Seqs |-> nil]
    /\ closing' = (closing \/ ~shutdown)
    /\ closer' = IF Dead THEN "closed" ELSE "conn"
    /\ UNCHANGED <<seq, shutdown, callerVars, readerVars, connOpen,
                   userClosed, netVars>>

\* close: conn.Close(), after the mutex is released.
CloseConn ==
    /\ closer = "conn"
    /\ closer' = "closed"
    /\ connOpen' = FALSE
    /\ UNCHANGED <<tableVars, callVars, callerVars, readerVars, userClosed,
                   netVars>>

-----------------------------------------------------------------------------
(* The server and the network. *)

\* The server handles each request in a goroutine of its own, so responses
\* come in any order.  A response to a link that is gone is lost.
Handle(r) ==
    /\ r \in requests
    /\ requests' = requests \ {r}
    /\ handled' = handled \cup {r.call}
    /\ \E st \in IF r.call \in Beats THEN {"beat"}
                                     ELSE {"ok", "error", "garbled"} :
          responses' = IF link = "up"
                         THEN responses \cup {[seq |-> r.seq,
                                               call |-> r.call,
                                               status |-> st]}
                         ELSE responses
    /\ UNCHANGED <<tableVars, callVars, callerVars, readerVars, closeVars,
                   link>>

\* The server closes the connection.
PeerCloses ==
    /\ link = "up"
    /\ link' = "eof"
    /\ UNCHANGED <<tableVars, callVars, callerVars, readerVars, closeVars,
                   requests, responses, handled>>

\* The network fails, or the read deadline that Connect sets once for the
\* life of the connection passes.
LinkBreaks ==
    /\ link = "up"
    /\ link' = "broken"
    /\ UNCHANGED <<tableVars, callVars, callerVars, readerVars, closeVars,
                   requests, responses, handled>>

-----------------------------------------------------------------------------
Caller(c) ==
    \/ Start(c) \/ Tick(c) \/ Refuse(c) \/ Register(c)
    \/ Encode(c) \/ EncodeFails(c) \/ Write(c) \/ WriteFails(c)
    \/ Receive(c) \/ Cancel(c)

Reader == (\E m \in responses : ReadResponse(m)) \/ Deliver \/ ReadFails
          \/ Drain

Closer == Close \/ CloseTable \/ CloseConn

Environment == (\E r \in requests : Handle(r)) \/ PeerCloses \/ LinkBreaks

Next == (\E c \in Calls : Caller(c)) \/ Reader \/ Closer \/ Environment

Spec == Init /\ [][Next]_vars

\* Goroutines that can run do run.  Nothing is assumed of the users, of the
\* server, or of the network.
FairSpec ==
    /\ Spec
    /\ \A c \in Calls :
          WF_vars(Refuse(c) \/ Register(c) \/ Encode(c) \/ EncodeFails(c)
                  \/ Write(c) \/ WriteFails(c) \/ Receive(c))
    /\ WF_vars(Reader)
    /\ WF_vars(CloseConn)

-----------------------------------------------------------------------------
(* Properties. *)

\* The variables keep their types; no Done channel holds more than its
\* capacity, because done() drops what does not fit.
TypeOK ==
    /\ seq \in Seqs
    /\ pending \in [Seqs -> Calls \cup {nil}]
    /\ closing \in BOOLEAN /\ shutdown \in BOOLEAN
    /\ pc \in [Calls -> {"idle", "send", "encode", "write", "wait",
                         "returned"}]
    /\ mySeq \in [Calls -> Seqs]
    /\ err \in [Calls -> Errors]
    /\ done \in [Calls -> Nat]
    /\ \A c \in Calls : done[c] <= Cap(c)
    /\ ret \in [Calls -> Errors \cup {nil}]
    /\ beating \in BOOLEAN
    /\ reader \in {"read", "deliver", "exit", "exited"}
    /\ held \in Calls \cup {nil}
    /\ res \in Response \cup {nil}
    /\ (reader = "deliver") = (held # nil)
    /\ reader = "deliver" => res \in Response
    /\ rerr \in {NoError, "read", "EOF", "decode"}
    /\ closer \in {"idle", "conn", "closed"}
    /\ connOpen \in BOOLEAN
    /\ link \in {"up", "eof", "broken"}
    /\ requests \subseteq Request
    /\ responses \subseteq Response
    /\ handled \subseteq Calls
    /\ answered \subseteq Calls
    /\ userClosed \in BOOLEAN

InFlight(c) == pc[c] \in {"encode", "write", "wait"}

\* No call is lost: a call that is under way and has nothing in its Done
\* channel is in the pending table or in the hands of the reader, so that a
\* response, a failed write, a cancellation, the end of the reader or close()
\* can still complete it.
NoLostCall ==
    \A c \in Calls : InFlight(c) /\ done[c] = 0 => c \in Pending \/ held = c

\* When handleResponse has returned, every call of the table has been
\* completed, and send admits no new one: it registers a call and
\* handleResponse sets shutdown and drains the table under the same mutex.
NoCallAfterReader ==
    reader = "exited" =>
        /\ shutdown
        /\ \A c \in Pending : done[c] > 0 \/ pc[c] = "returned"

\* A response is delivered to the call whose request it answers, whatever
\* the order of the responses and whatever was cancelled, failed or closed
\* in between: handleResponse finds the call by its sequence number.
ReplyToItsCall == reader = "deliver" => res.call = held

\* The reader touches the reply of a call that has returned only if the
\* caller gave up through its own context: call() leaves its entry in the
\* table, every other path that ends a call takes the entry out first or
\* leaves a request that was never sent.
LateReplyOnlyAfterCancel ==
    \A c \in Calls : held = c /\ pc[c] = "returned" =>
        c \in Cancellable /\ ret[c] = "ctx"

\* A call that a response has completed is never completed again, neither
\* by the end of the reader, nor by close(), nor by a cancellation: its
\* error status and its Done channel are only read from then on.
AnswerIsFinal ==
    [][\A c \in answered : err'[c] = err[c] /\ done'[c] <= done[c]]_vars

\* No call is stranded: once the connection is gone or close() has been
\* called, every call under way returns, whatever the server does.
NoCallStranded ==
    \A c \in Calls :
        (pc[c] \in {"send", "encode", "write", "wait"}
            /\ (link # "up" \/ closer # "idle"))
        ~> pc[c] = "returned"

-----------------------------------------------------------------------------
(* What a comment of the source says, and the code does not do. *)

\* Call.Error is "After completion, the error status" of that call: a call
\* whose own context cannot be cancelled does not end with the error of a
\* context.
ErrorIsOwnStatus == \A c \in Calls \ Cancellable : ret[c] # "ctx"

-----------------------------------------------------------------------------
(* A connection implements Rpc. *)

rpcStatus ==
    [c \in Calls |->
        CASE pc[c] = "idle"     -> "idle"
          [] pc[c] = "returned" -> IF ret[c] = NoError THEN "ok" ELSE "failed"
          [] OTHER              -> "active"]

Abstract == INSTANCE Rpc WITH status <- rpcStatus, executed <- handled

\* The connection implements the abstract call service: a call is executed
\* at most once, returns at most once, and returns without an error only if
\* the server has handled its request.
ImplementsRpc == Abstract!Spec

-----------------------------------------------------------------------------
(* The inductive invariant behind the safety properties. *)

Unregistered(c) == pc[c] \in {"idle", "send"}
Sent(c) == pc[c] \in {"wait", "returned"}

\* The caller has left call() through its context.
GaveUp(c) == c \in Cancellable /\ pc[c] = "returned" /\ ret[c] = "ctx"

\* An entry of the table belongs to the call that got its sequence number.
TableInv ==
    \A s \in Seqs : pending[s] # nil =>
        s < seq /\ mySeq[pending[s]] = s /\ ~Unregistered(pending[s])

\* A call that has not entered send's critical section is untouched.
FreshInv ==
    \A c \in Calls : Unregistered(c) => done[c] = 0

\* The slot of a call that is about to be written is not another call's.
SlotInv ==
    \A c \in Calls : pc[c] \in {"encode", "write"} =>
        mySeq[c] < seq /\ pending[mySeq[c]] \in {c, nil}

\* A message carries the sequence number of its call, and the slot of that
\* number is not another call's.
MsgInv ==
    /\ \A m \in requests \cup responses :
          /\ m.seq < seq
          /\ m.seq = mySeq[m.call]
          /\ pending[m.seq] \in {m.call, nil}
          /\ Sent(m.call)
    /\ \A m \in requests : m.call \notin handled
    /\ \A m \in responses : m.call \in handled
    /\ \A c \in handled : Sent(c)

\* The reader alone owns the call it has taken out of the table.
HeldInv ==
    reader = "deliver" =>
        /\ res.call = held
        /\ held \notin Pending
        /\ held \notin answered
        /\ held \in handled
        /\ done[held] > 0 \/ pc[held] = "returned" => GaveUp(held)

\* Nobody can complete an answered call again.
AnsweredInv == \A c \in answered : c \in handled /\ c \notin Pending

\* A call that was completed and is still in the table has no message that
\* could complete it again, unless nobody waits for it or nobody reads.
DoneInv ==
    \A c \in Pending : done[c] > 0 \/ pc[c] = "returned" =>
        \/ reader = "exited"
        \/ GaveUp(c)
        \/ Sent(c) /\ \A m \in requests \cup responses : m.call # c

\* Only a handled call ends without an error.
OkInv ==
    /\ \A c \in Calls : done[c] > 0 /\ err[c] = NoError => c \in handled
    /\ \A c \in Calls :
          pc[c] = "returned" /\ ret[c] = NoError => c \in handled
    /\ reader \in {"exit", "exited"} => rerr # NoError

IndInv ==
    /\ TypeOK
    /\ TableInv /\ FreshInv /\ SlotInv /\ MsgInv /\ HeldInv /\ AnsweredInv
    /\ DoneInv /\ OkInv /\ NoLostCall /\ NoCallAfterReader
=============================================================================
