------------------------------ MODULE Exchange ------------------------------
(***************************************************************************)
(* What happens to the bytes of a call, from send of the client through    *)
(* serveConn and handleRequest of the server to handleResponse, with the   *)
(* message pool that both sides use when they run in one process, as they  *)
(* do in the tests, and with services being registered meanwhile.          *)
(*                                                                         *)
(* A codec turns the arguments of a call into the byte that stands for     *)
(* them; it cannot decode what does not fit the type of the variable (two  *)
(* bytes) or what is zipped.  The pool is the set of contents that         *)
(* messages had when they were freed: sync.Pool may return any of them, or *)
(* a new message.  Connections that break, cancelled calls and arguments   *)
(* that cannot be encoded are the matter of ClientConn.                    *)
(***************************************************************************)
EXTENDS Message

CONSTANTS
    Calls,          \* the calls
    Wishes,         \* Wishes[c]: what call c may ask for
    Services,       \* Services[p]: the methods of the receiver of path p
    FirstSeq,       \* the calls that were made on the connection before
    nil

VARIABLES
    want,           \* what each call asks for
    serviceMap,     \* the service paths that are registered
    seq,            \* Client.seq
    pending,        \* Client.pending
    creq,           \* the local req of send, for each call
    up, down,       \* the bytes on the connection, in each direction
    serving,        \* where each goroutine of a request is
    req, res,       \* its local req and res
    rmsg,           \* the local res of handleResponse
    pool,           \* what GetMsgs may return, besides a new message
    ran,            \* history: the calls whose method was called
    result,         \* the error of each call that is completed
    resMetadata,    \* Call.resMetadata
    shutdown        \* Client.shutdown

clientVars == <<seq, pending, creq>>
serverVars == <<serving, req, res, ran>>
doneVars   == <<rmsg, result, resMetadata, shutdown>>
vars == <<want, serviceMap, clientVars, up, down, serverVars, pool, doneVars>>

\* The codecs and the compression: arguments that the method takes are one
\* byte, and zipped data has a byte before it.
ServiceError == <<101>>
Codecs == {0, 1, 2}
Decodes(data) == Len(data) = 1
ZipData(data) == <<31>> \o data
Zipped(data) == data # <<>> /\ data[1] = 31

\* The texts of the errors of handleRequest.
NoError == <<>>
NoService == <<1>>
NoMethod == <<2>>
NoCodec == <<3>>
BadArguments == <<4>>
MethodError == <<5>>
Errors == {NoService, NoMethod, NoCodec, BadArguments, MethodError}

\* m[k] = v, where keys are the first components of pairs.
SetAll(meta, more) == {kv \in meta : \A x \in more : x[1] # kv[1]} \cup more

\* What a call may ask for, and what its method does: it returns nil with a
\* reply that fits or one that does not, returns an error, or panics.
WishType ==
    [path : Texts, method : Texts, args : Texts, serialize : Codecs,
     compress : {None, Gzip}, big : BOOLEAN, meta : Metadata,
     returns : {"nil", "misfit", "error", "panic"}, resMeta : Metadata]

\* So short that all of a message fits its length field of four bytes.
Short(text) == Len(text) < 32 * 256 * 256 * 256

\* Arguments tell whose call it is, and are not empty if they are zipped; a
\* method leaves the key of the error to handleError; texts are short enough
\* for their length fields, and so are the sequence numbers.
ASSUME ExchangeAssumption ==
    /\ IsFiniteSet(Calls)
    /\ nil \notin Calls
    /\ nil \notin {"nil", "ServiceError", "ErrShutdown", "reader's err"}
    /\ FirstSeq \in Nat
    /\ FirstSeq + Cardinality(Calls) < 64 * 256 * 256 * 256
    /\ \A c \in Calls : \A w \in Wishes[c] :
          /\ w \in WishType
          /\ IsFiniteSet(w.meta) /\ IsFiniteSet(w.resMeta)
          /\ w.big => w.args # <<>>
          /\ \A kv \in w.resMeta : kv[1] # ServiceError
          /\ Short(w.path) /\ Short(w.method) /\ Short(ZipData(w.args))
          /\ Short(encodeMetadata(w.meta)) /\ Short(encodeMetadata(w.resMeta))
          /\ \A e \in Errors : Short(encodeMetadata(
                SetAll({<<ServiceError, e>>}, w.resMeta)))
          /\ \A d \in Calls \ {c} : \A v \in Wishes[d] : v.args # w.args

GetMsgs == pool \cup {NewMessage}

\* A service method: what suitableMethods looks at is its type.
Suitable(m) ==
    /\ m.exported
    /\ m.ins = <<"context", "exported", "pointer to exported">>
    /\ m.outs = <<"error">>
suitableMethods(p) == {m.name : m \in {x \in Services[p] : Suitable(x)}}

\* The server starts a goroutine for each request it reads.
Goroutines == 1 .. Cardinality(Calls)

Init ==
    /\ want \in [Calls -> UNION {Wishes[c] : c \in Calls}]
    /\ \A c \in Calls : want[c] \in Wishes[c]
    /\ serviceMap = {}
    /\ seq = FirstSeq
    /\ pending = [s \in FirstSeq .. FirstSeq + Cardinality(Calls) - 1 |-> nil]
    /\ creq = [c \in Calls |-> nil]
    /\ up = <<>> /\ down = <<>>
    /\ serving = [g \in Goroutines |-> "none"]
    /\ req = [g \in Goroutines |-> nil]
    /\ res = [g \in Goroutines |-> nil]
    /\ rmsg = NewMessage
    /\ pool = {}
    /\ ran = {}
    /\ result = [c \in Calls |-> nil]
    /\ resMetadata = [c \in Calls |-> {}]
    /\ shutdown = FALSE

\* RegisterWithMeta: a receiver without a suitable method is refused.
Register(p) ==
    /\ p \notin serviceMap
    /\ suitableMethods(p) # {}
    /\ serviceMap' = serviceMap \cup {p}
    /\ UNCHANGED <<want, clientVars, up, down, serverVars, pool, doneVars>>

-----------------------------------------------------------------------------
(* The client: send. *)

Heartbeat(w) == w.path = <<>> /\ w.method = <<>>
Zips(w) == w.big /\ w.compress = Gzip /\ ~Heartbeat(w)

\* The request that send builds in the message m: a heartbeat has no names.
NewRequest(w, m, s) ==
    LET h == SetSeq(SetMessageType(m.header, Request), s)
        st == SetSerializeType(h, w.serialize)
    IN IF Heartbeat(w)
         THEN [m EXCEPT !.header = SetHeartbeat(h, TRUE)]
         ELSE [m EXCEPT !.header = IF Zips(w) THEN SetCompressType(st, Gzip)
                                              ELSE st,
                        !.meta = IF w.meta = {} THEN @ ELSE w.meta,
                        !.path = w.path,
                        !.method = w.method,
                        !.payload = IF Zips(w) THEN ZipData(w.args) ELSE w.args]

Send(c) ==
    /\ creq[c] = nil
    /\ result[c] = nil
    /\ c \notin {pending[s] : s \in DOMAIN pending}
    /\ ~shutdown
    /\ pending' = [pending EXCEPT ![seq] = c]
    /\ seq' = seq + 1
    /\ \E m \in GetMsgs :
          creq' = [creq EXCEPT ![c] = NewRequest(want[c], m, seq)]
    /\ up' = up \o Encode(creq'[c])
    /\ UNCHANGED <<want, serviceMap, down, serverVars, pool, doneVars>>

SendRefused(c) ==
    /\ creq[c] = nil
    /\ result[c] = nil
    /\ c \notin {pending[s] : s \in DOMAIN pending}
    /\ shutdown
    /\ result' = [result EXCEPT ![c] = "ErrShutdown"]
    /\ UNCHANGED <<want, serviceMap, clientVars, up, down, serverVars, pool,
                   rmsg, resMetadata, shutdown>>

\* The end of send: FreeMsg, after which a one-way call would be completed.
FreeRequest(c) ==
    /\ creq[c] # nil
    /\ pool' = pool \cup {Reset(creq[c])}
    /\ creq' = [creq EXCEPT ![c] = nil]
    /\ UNCHANGED <<want, serviceMap, seq, pending, up, down, serverVars,
                   doneVars>>

-----------------------------------------------------------------------------
(* The server: serveConn and handleRequest. *)

\* serveConn reads a request, once all of it has arrived, and goes on with
\* the next one.
ReadRequest(g) ==
    /\ serving[g] = "none"
    /\ \A f \in 1 .. g - 1 : serving[f] # "none"
    /\ Complete(up)
    /\ \E m \in GetMsgs : req' = [req EXCEPT ![g] = Decode(m, up)]
    /\ up' = SubSeq(up, FrameLen(up) + 1, Len(up))
    /\ serving' = [serving EXCEPT ![g] = "read"]
    /\ UNCHANGED <<want, serviceMap, clientVars, down, res, ran, pool, doneVars>>

\* A heartbeat is sent back as it is; its message does not return to the pool.
EchoHeartbeat(g) ==
    /\ serving[g] = "read"
    /\ IsHeartbeat(req[g].header)
    /\ down' = down \o Encode([req[g] EXCEPT !.header =
                                  SetMessageType(@, Response)])
    /\ serving' = [serving EXCEPT ![g] = "over"]
    /\ UNCHANGED <<want, serviceMap, clientVars, up, req, res, ran, pool,
                   doneVars>>

\* What the method does is up to the call whose arguments it gets.
Caller(r) == CHOOSE c \in Calls : want[c].args = r.payload

\* Whether the method is called, and the error of handleRequest, or NoError.
Called(r) ==
    /\ r.path \in serviceMap
    /\ r.method \in suitableMethods(r.path)
    /\ SerializeType(r.header) \in Codecs
    /\ Decodes(r.payload)

Failure(r) ==
    IF Called(r)
      THEN IF want[Caller(r)].returns \in {"error", "panic"} THEN MethodError
                                                             ELSE NoError
      ELSE IF r.path \notin serviceMap THEN NoService
      ELSE IF r.method \notin suitableMethods(r.path) THEN NoMethod
      ELSE IF SerializeType(r.header) \notin Codecs THEN NoCodec
      ELSE BadArguments

\* What the method replies may not fit into the variable of the caller.
Reply(r) == IF want[Caller(r)].returns = "misfit" THEN <<200, 200>> ELSE <<200>>

\* A fault: an error is not marked in the header.
handleErrorUnmarked(m, e) ==
    [m EXCEPT !.meta = SetAll(@, {<<ServiceError, e>>})]

handleError(m, e) ==
    [m EXCEPT !.header = SetMessageStatusType(@, Error),
              !.meta = SetAll(@, {<<ServiceError, e>>})]

\* handleRequest: the response is a copy of the request, with the reply of
\* the method or an error.  A panic of the method is an error.
HandleRequest(g) ==
    /\ serving[g] = "read"
    /\ ~IsHeartbeat(req[g].header)
    /\ \E m \in GetMsgs :
          LET r == req[g]
              e == Failure(r)
              copy == [Copy(r, m) EXCEPT !.header = SetMessageType(@, Response)]
          IN res' = [res EXCEPT ![g] =
                        IF e = NoError THEN [copy EXCEPT !.payload = Reply(r)]
                                       ELSE handleError(copy, e)]
    /\ ran' = IF Called(req[g]) THEN ran \cup {Caller(req[g])} ELSE ran
    /\ serving' = [serving EXCEPT ![g] = "handled"]
    /\ UNCHANGED <<want, serviceMap, clientVars, up, down, req, pool, doneVars>>

\* The metadata that the method has set is added, the response is written,
\* and both messages return to the pool.
WriteResponse(g) ==
    /\ serving[g] = "handled"
    /\ LET set == IF \E c \in ran : want[c].args = req[g].payload
                    THEN want[Caller(req[g])].resMeta ELSE {}
       IN down' = down \o Encode([res[g] EXCEPT !.meta = SetAll(@, set)])
    /\ pool' = pool \cup {Reset(req[g]), Reset(res[g])}
    /\ serving' = [serving EXCEPT ![g] = "over"]
    /\ UNCHANGED <<want, serviceMap, clientVars, up, req, res, ran, doneVars>>

-----------------------------------------------------------------------------
(* The client: handleResponse. *)

\* A payload that handleResponse cannot unzip or decode.
Unreadable(m) ==
    LET zipped == CompressType(m.header) = Gzip
    IN m.payload # <<>> /\ \/ zipped # Zipped(m.payload)
                           \/ SerializeType(m.header) \notin Codecs
                           \/ ~zipped /\ ~Decodes(m.payload)

\* The message is decoded over the previous one, which was reset, and the
\* call with its sequence number is completed.  An err of the payload also
\* ends the loop: the connection is shut down, and with it the other calls.
HandleResponse ==
    /\ ~shutdown
    /\ Complete(down)
    /\ LET m == Decode(rmsg, down)
           s == Seq64(m.header)
           failed == MessageStatusType(m.header) = Error
           broken == ~failed /\ ~IsHeartbeat(m.header) /\ Unreadable(m)
           others == {pending[x] : x \in DOMAIN pending \ {s}} \ {nil}
       IN /\ pending' = [pending EXCEPT ![s] = nil]
          /\ result' = [c \in Calls |->
                IF c = pending[s]
                  THEN IF failed \/ broken THEN "ServiceError" ELSE "nil"
                  ELSE IF broken /\ c \in others THEN "reader's err"
                  ELSE result[c]]
          /\ resMetadata' = [resMetadata EXCEPT ![pending[s]] = m.meta]
          /\ rmsg' = Reset(m)
          /\ shutdown' = broken
    /\ down' = SubSeq(down, FrameLen(down) + 1, Len(down))
    /\ UNCHANGED <<want, serviceMap, seq, creq, up, serverVars, pool>>

Next ==
    \/ \E p \in DOMAIN Services : Register(p)
    \/ \E c \in Calls : Send(c) \/ SendRefused(c) \/ FreeRequest(c)
    \/ \E g \in Goroutines : \/ ReadRequest(g) \/ EchoHeartbeat(g)
                             \/ HandleRequest(g) \/ WriteResponse(g)
    \/ HandleResponse

Spec == Init /\ [][Next]_vars

-----------------------------------------------------------------------------
\* The server reads what the client has put into its request, field by field,
\* although all of them share a header of bits that are only ever set, in a
\* message that had another use before, behind other messages on the same
\* stream.
RequestIntact ==
    \A g \in Goroutines : serving[g] = "read" =>
        LET r == req[g]
            h == r.header
            s == Seq64(h)
        IN /\ s \in DOMAIN pending /\ pending[s] # nil
           /\ LET w == want[pending[s]]
              IN /\ r.path = w.path /\ r.method = w.method
                 /\ IsHeartbeat(h) = Heartbeat(w)
                 /\ MessageType(h) = Request /\ MessageStatusType(h) = Normal
                 /\ (CompressType(h) = Gzip) = Zips(w)
                 /\ ~Heartbeat(w) => /\ r.meta = w.meta
                                     /\ SerializeType(h) = w.serialize
                                     /\ r.payload = IF Zips(w) THEN ZipData(w.args)
                                                               ELSE w.args

\* A call that the server answers ends without an error if and only if it is
\* a heartbeat or its method was called and returned nil, with a reply that
\* fits: no failure on the server is taken for a success, nor the reverse.
ResultIsTheMethods ==
    \A c \in Calls :
        LET served == \/ Heartbeat(want[c])
                      \/ c \in ran /\ want[c].returns = "nil"
        IN /\ result[c] = "nil" => served
           /\ result[c] = "ServiceError" => ~served

\* The metadata a call gets is what its own method has set, and the text of
\* its own error: nothing is left over from another use of the messages.
MetadataIsTheMethods ==
    \A c \in Calls : result[c] \in {"nil", "ServiceError"} =>
        LET set == IF c \in ran THEN want[c].resMeta ELSE {}
            err == {kv \in resMetadata[c] : kv[1] = ServiceError}
        IN /\ resMetadata[c] \ err = set
           /\ IF c \in ran
                THEN err = IF want[c].returns \in {"error", "panic"}
                             THEN {<<ServiceError, MethodError>>} ELSE {}
                ELSE Heartbeat(want[c]) \/ Cardinality(err) = 1

\* A message from the pool is like a new one, which the setters rely on.
PooledIsBlank == pool \subseteq {NewMessage}

-----------------------------------------------------------------------------
(* What a test takes for granted, and the code does not do. *)

\* A client with Compress(protocol.Gzip) calls like any other: arguments that
\* the method takes are never refused by the server as undecodable.
GzipArgumentsDecode ==
    \A c \in Calls : Decodes(want[c].args) =>
        <<ServiceError, BadArguments>> \notin resMetadata[c]
=============================================================================
