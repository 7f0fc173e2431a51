---------------------------- MODULE ExchangeInv -----------------------------
(***************************************************************************)
(* The inductive invariant of Exchange: what the streams between client and *)
(* server hold, and whose request each goroutine of the server serves.     *)
(***************************************************************************)
EXTENDS Exchange

-----------------------------------------------------------------------------
(* Messages, and the streams of messages. *)

\* A message that can be sent: its texts fit into their length fields.
Messages == [header : Texts, path : Texts, method : Texts, meta : Metadata,
                 payload : Texts]
Sendable(x) ==
    /\ x \in Messages
    /\ Len(x.header) = 12
    /\ IsFiniteSet(x.meta)
    /\ Short(x.path) /\ Short(x.method) /\ Short(encodeMetadata(x.meta))
    /\ Short(x.payload)

\* What a message becomes when it is decoded into the message m.
Received(x, m) == [x EXCEPT !.meta = IF x.meta = {} THEN m.meta ELSE x.meta]

\* The stream begins with the message x, and goes on with rest.
Carries(stream, x, rest) ==
    /\ stream \in Texts
    /\ Complete(stream)
    /\ SubSeq(stream, FrameLen(stream) + 1, Len(stream)) = rest
    /\ \A m : Decode(m, stream) = Received(x, m)

\* What the stream begins with.
Begins(text, x, rest) == text = x \o rest /\ rest \in Texts

\* The texts of q that follow the first n of m, and those that d lists.
Unread(q, n, m) == [i \in 1 .. m - n |-> q[n + i]]
Unseen(q, d) == [i \in 1 .. Len(d) |-> q[d[i]]]

-----------------------------------------------------------------------------
(* The requests and the responses of the calls. *)

\* What ExchangeAssumption says of a single wish.
Proper(w) ==
    /\ w \in WishType
    /\ IsFiniteSet(w.meta) /\ IsFiniteSet(w.resMeta)
    /\ w.big => w.args # <<>>
    /\ \A kv \in w.resMeta : kv[1] # ServiceError
    /\ Short(w.path) /\ Short(w.method) /\ Short(ZipData(w.args))
    /\ Short(encodeMetadata(w.meta)) /\ Short(encodeMetadata(w.resMeta))
    /\ \A e \in Errors : Short(encodeMetadata(SetAll({<<ServiceError, e>>}, w.resMeta)))

\* What can be sent, and then freed.
Sound(x) == Sendable(x) /\ x.header[1] = 8

\* What the request of a call that asks for w carries.
PayloadOf(w) == IF Zips(w) THEN ZipData(w.args) ELSE w.args

\* The numbers of four bytes.
Numbered(s) == s \in Nat /\ s < 256 * 256 * 256 * 256

\* What the getters of the server read in a request r of the number s.
Gets(r, w, s) ==
    /\ Seq64(r.header) = s
    /\ r.path = w.path /\ r.method = w.method
    /\ IsHeartbeat(r.header) <=> Heartbeat(w)
    /\ MessageType(r.header) = Request /\ MessageStatusType(r.header) = Normal
    /\ CompressType(r.header) = Gzip <=> Zips(w)
    /\ ~Heartbeat(w) => /\ r.meta = w.meta
                        /\ SerializeType(r.header) = w.serialize
                        /\ r.payload = PayloadOf(w)

\* The response of handleRequest to the request r before it is filled in, and
\* what x may be afterwards.
Blank(r) == [NewMessage EXCEPT !.header = SetMessageType(r.header, Response),
                               !.path = r.path, !.method = r.method]
ReplyOf(w) == IF w.returns = "misfit" THEN <<200, 200>> ELSE <<200>>
Filled(x, r, w, called) ==
    IF called
      THEN /\ ~Zips(w)
           /\ x = IF w.returns \in {"error", "panic"}
                    THEN handleError(Blank(r), MethodError)
                    ELSE [Blank(r) EXCEPT !.payload = ReplyOf(w)]
      ELSE \E e \in Errors : x = handleError(Blank(r), e)

\* What the server writes for a request r of a call that asks for w, where x
\* is what handleRequest has made of it.
Written(x, r, w, called) ==
    IF Heartbeat(w)
      THEN [r EXCEPT !.header = SetMessageType(@, Response)]
      ELSE [x EXCEPT !.meta = SetAll(@, IF called THEN w.resMeta ELSE {})]

\* The client finds an error in y unless the call has been served, and the
\* metadata is that of the method, with the error if there is one.
Tells(y, w, called) ==
    LET failed == MessageStatusType(y.header) = Error
        broken == ~failed /\ ~IsHeartbeat(y.header) /\ Unreadable(y)
    IN failed \/ broken <=> ~(Heartbeat(w) \/ (called /\ w.returns = "nil"))
Notes(meta, w, called) ==
    LET set == IF called THEN w.resMeta ELSE {}
        err == {kv \in meta : kv[1] = ServiceError}
    IN /\ meta \ err = set
       /\ IF called
            THEN err = IF w.returns \in {"error", "panic"}
                         THEN {<<ServiceError, MethodError>>} ELSE {}
            ELSE Heartbeat(w) \/ Cardinality(err) = 1

\* Whatever the server writes, the client can tell from it what happened.
Answers(y, s, w, called) ==
    Sound(y) /\ Seq64(y.header) = s /\ Tells(y, w, called) /\ Notes(y.meta, w, called)

-----------------------------------------------------------------------------
(* The inductive invariant.  Operators of more than one variable take them   *)
(* as arguments: W is want, P is pending, A is ran.                          *)

Numbers == FirstSeq .. FirstSeq + Cardinality(Calls) - 1

TypeOK ==
    /\ want \in [Calls -> UNION {Wishes[c] : c \in Calls}]
    /\ \A c \in Calls : want[c] \in Wishes[c]
    /\ seq \in FirstSeq .. FirstSeq + Cardinality(Calls)
    /\ pending \in [Numbers -> Calls \cup {nil}]
    /\ serving \in [Goroutines -> {"none", "read", "handled", "over"}]
    /\ DOMAIN creq = Calls
    /\ DOMAIN req = Goroutines /\ DOMAIN res = Goroutines
    /\ result \in [Calls -> {nil, "nil", "ServiceError", "ErrShutdown",
                             "reader's err"}]
    /\ DOMAIN resMetadata = Calls
    /\ ran \subseteq Calls

\* Whoever takes a message from the pool, or decodes into the reader's, finds
\* it blank; what is to be freed has the magic number of a message.
BlankInv ==
    /\ pool \subseteq {NewMessage}
    /\ rmsg = NewMessage
    /\ \A c \in Calls : creq[c] # nil => creq[c].header[1] = 8

\* Goroutine g serves the request with the number Number(g), because requests
\* are written and read in the order of their numbers; Sent have been written.
Number(g) == FirstSeq + g - 1
Owner(P, g) == P[Number(g)]
Sent == seq - FirstSeq

\* The calls that send has seen.
Begun(R, P) == {c \in Calls : R[c] # nil \/ \E g \in Goroutines : Owner(P, g) = c}

\* Each call has one number, of those given out, until it is answered.
TableInv ==
    /\ Sent <= Cardinality(Begun(result, pending))
    /\ \A g \in Goroutines : Owner(pending, g) # nil => g <= Sent
    /\ \A f, g \in Goroutines :
          Owner(pending, f) = Owner(pending, g) /\ Owner(pending, g) # nil => f = g
    /\ \A g \in Goroutines :
          g <= Sent /\ serving[g] # "over" => Owner(pending, g) # nil
    /\ \A g \in Goroutines : Owner(pending, g) # nil =>
          result[Owner(pending, g)] \in {nil, "reader's err"}

\* What the client has sent for goroutine g, and what is on the stream when
\* the server has read n of m requests.
RequestOf(W, P, g) == NewRequest(W[Owner(P, g)], NewMessage, Number(g))
Requests(W, P) == [g \in Goroutines |-> Encode(RequestOf(W, P, g))]

UpInv ==
    \E n \in 0 .. Sent : /\ \A g \in Goroutines : serving[g] # "none" <=> g <= n
                         /\ up = Flatten(Unread(Requests(want, pending), n, Sent))

ReadInv ==
    \A g \in Goroutines : serving[g] # "none" /\ Owner(pending, g) # nil =>
        req[g] = RequestOf(want, pending, g)

\* A method has run only for a request that was handled, with its arguments.
RanInv ==
    /\ ran \subseteq Begun(result, pending)
    /\ \A c \in ran : Decodes(want[c].args)
    /\ \A g \in Goroutines :
          Owner(pending, g) \in ran => serving[g] \in {"handled", "over"}

Outcome(x, W, P, A, g) ==
    Filled(x, RequestOf(W, P, g), W[Owner(P, g)], Owner(P, g) \in A)

HandledInv ==
    \A g \in Goroutines :
        serving[g] \in {"handled", "over"} /\ Owner(pending, g) # nil =>
            IF Heartbeat(want[Owner(pending, g)])
              THEN serving[g] = "over" /\ Owner(pending, g) \notin ran
              ELSE Outcome(res[g], want, pending, ran, g)

ResponseOf(X, W, P, A, g) ==
    Written(X[g], RequestOf(W, P, g), W[Owner(P, g)], Owner(P, g) \in A)
Responses(X, W, P, A) == [g \in Goroutines |-> Encode(ResponseOf(X, W, P, A, g))]

DownInv ==
    \E d \in Seq(Goroutines) :
        /\ \A i, j \in 1 .. Len(d) : d[i] = d[j] => i = j
        /\ \A i \in 1 .. Len(d) : serving[d[i]] = "over" /\ Owner(pending, d[i]) # nil
        /\ down = Flatten(Unseen(Responses(res, want, pending, ran), d))

IndInv ==
    /\ TypeOK /\ BlankInv /\ TableInv /\ UpInv /\ ReadInv /\ RanInv
    /\ HandledInv /\ DownInv
    /\ ResultIsTheMethods /\ MetadataIsTheMethods

-----------------------------------------------------------------------------
(* What the steps need to know of the messages.  MessageProofs proves it.    *)

\* What Encode writes Decode reads, whatever follows it on the stream.
RoundTrips ==
    \A x, rest : Sendable(x) /\ rest \in Texts =>
        /\ Encode(x) \in Texts /\ Encode(x) # <<>>
        /\ Carries(Encode(x) \o rest, x, rest)

\* The server reads in a request what send has set in it.
RequestsSound ==
    \A w, s : Proper(w) /\ s \in Nat => Sound(NewRequest(w, NewMessage, s))
RequestsTell ==
    \A w, s : Proper(w) /\ Numbered(s) => Gets(NewRequest(w, NewMessage, s), w, s)

\* The client finds in a response what has become of the call.
ResponsesTell ==
    \A w, s, x, r : \A called \in BOOLEAN :
        /\ Proper(w) /\ Numbered(s)
        /\ r = NewRequest(w, NewMessage, s)
        /\ Heartbeat(w) => ~called
        /\ ~Heartbeat(w) => Filled(x, r, w, called)
        => /\ Answers(Written(x, r, w, called), s, w, called)
           /\ ~Heartbeat(w) => x.header[1] = 8

\* A stream of whole messages grows at its end and is read from its front.
UnreadGrows ==
    \A q, p : \A n, m \in Nat :
        /\ n <= m /\ p[m + 1] \in Texts
        /\ \A i \in n + 1 .. m : q[i] \in Texts /\ p[i] = q[i]
        => Flatten(Unread(p, n, m + 1)) = Flatten(Unread(q, n, m)) \o p[m + 1]
UnreadShrinks ==
    \A q : \A n, m \in Nat :
        n < m /\ (\A i \in n + 1 .. m : q[i] \in Texts) =>
        Begins(Flatten(Unread(q, n, m)), q[n + 1], Flatten(Unread(q, n + 1, m)))
UnseenGrows ==
    \A q, p : \A d \in Seq(Goroutines), g \in Goroutines :
        /\ p[g] \in Texts
        /\ \A i \in 1 .. Len(d) : q[d[i]] \in Texts /\ p[d[i]] = q[d[i]]
        => Flatten(Unseen(p, Append(d, g))) = Flatten(Unseen(q, d)) \o p[g]
UnseenShrinks ==
    \A q : \A d \in Seq(Goroutines) :
        d # <<>> /\ (\A i \in 1 .. Len(d) : q[d[i]] \in Texts) =>
        Begins(Flatten(Unseen(q, d)), q[d[1]], Flatten(Unseen(q, Tail(d))))

Wire ==
    /\ RoundTrips /\ RequestsSound /\ RequestsTell /\ ResponsesTell
    /\ UnreadGrows /\ UnreadShrinks /\ UnseenGrows /\ UnseenShrinks
    /\ Flatten(<<>>) = <<>>
=============================================================================
