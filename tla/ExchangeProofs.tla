--------------------------- MODULE ExchangeProofs ---------------------------
(***************************************************************************)
(* Requests and responses reach the call they belong to, intact, for any   *)
(* number of calls, whatever they ask for, send and return.                *)
(***************************************************************************)
EXTENDS MessageProofs, ExchangeSteps

-----------------------------------------------------------------------------
(* The messages of a call, and what is read of them. *)

\* The flags and the codec byte of the request of a call that asks for w.
FlagsOf(w) == IF Heartbeat(w) THEN 64 ELSE IF Zips(w) THEN 4 ELSE 0
CodecOf(w) == IF Heartbeat(w) THEN 0 ELSE 16 * w.serialize

\* The request that send makes of a blank message.
LEMMA NewRequestFacts ==
  ASSUME NEW w \in WishType, NEW s \in Nat
  PROVE  /\ FlagsOf(w) \in {0, 4, 64} /\ CodecOf(w) \in {0, 16, 32}
         /\ NewRequest(w, NewMessage, s) =
               [header |-> Header(FlagsOf(w), CodecOf(w), s),
                path |-> w.path, method |-> w.method,
                meta |-> IF Heartbeat(w) THEN {} ELSE w.meta,
                payload |-> IF Heartbeat(w) THEN <<>> ELSE PayloadOf(w)]
<1>0. w.serialize \in Codecs
  BY DEF WishType
<1>1. FlagsOf(w) \in {0, 4, 64} /\ CodecOf(w) \in {0, 16, 32}
  BY <1>0, SMT DEF FlagsOf, CodecOf, Codecs
<1>2. 0 \in Flags /\ 0 \in {0, 16, 32} /\ 0 \in Bytes /\ 0 \in Nat
  BY SMT DEF Flags, Bytes
<1>3. NewHeader = Header(0, 0, 0)
  <2>1. Uint32Bytes(0) = <<0, 0, 0, 0>>
    BY DEF Uint32Bytes
  <2>2. ASSUME NEW i \in 1 .. 12 PROVE NewHeader[i] = Header(0, 0, 0)[i]
    <3>1. i > 8 => Uint32Bytes(0)[i - 8] = 0
      BY <2>1
    <3>2. Header(0, 0, 0)[i] = IF i = 1 THEN 8 ELSE 0
      BY <3>1 DEF Header
    <3>3. NewHeader[i] = IF i = 1 THEN 8 ELSE 0
      BY DEF NewHeader
    <3> QED BY <3>2, <3>3
  <2>3. NewHeader = [i \in 1 .. 12 |-> NewHeader[i]]
    BY DEF NewHeader
  <2>4. Header(0, 0, 0) = [i \in 1 .. 12 |-> Header(0, 0, 0)[i]]
    BY Zenon DEF Header
  <2> QED BY <2>2, <2>3, <2>4, Zenon
<1>4. SetSeq(SetMessageType(NewHeader, Request), s) = Header(0, 0, s)
  <2>1. SetMessageType(Header(0, 0, 0), Request) = Header(0, 0, 0)
    BY <1>2, HeaderSets, Zenon
  <2>2. SetSeq(Header(0, 0, 0), s) = Header(0, 0, s)
    BY HeaderNumber
  <2> QED BY <1>3, <2>1, <2>2, Zenon
<1>5. CASE Heartbeat(w)
  <2>1. SetHeartbeat(Header(0, 0, s), TRUE) = Header(64, 0, s)
    BY <1>2, HeaderSets, Zenon
  <2>2. NewRequest(w, NewMessage, s) = [NewMessage EXCEPT !.header = Header(64, 0, s)]
    BY <1>4, <1>5, <2>1, Zenon DEF NewRequest, NewMessage
  <2>3. FlagsOf(w) = 64 /\ CodecOf(w) = 0 /\ w.path = <<>> /\ w.method = <<>>
    BY <1>5 DEF FlagsOf, CodecOf, Heartbeat
  <2>4. [NewMessage EXCEPT !.header = Header(64, 0, s)] =
           [header |-> Header(64, 0, s), path |-> <<>>, method |-> <<>>,
            meta |-> {}, payload |-> <<>>]
    <3>1. PICK h, k, e, n : h = Header(64, 0, s) /\ k = NewHeader /\ e = <<>> /\ n = {}
      OBVIOUS
    <3>2. NewMessage = [header |-> k, path |-> e, method |-> e, meta |-> n, payload |-> e]
      BY <3>1, Zenon DEF NewMessage
    <3>3. [NewMessage EXCEPT !.header = h] =
            [header |-> h, path |-> e, method |-> e, meta |-> n, payload |-> e]
      BY <3>2
    <3> QED BY <3>1, <3>3, Zenon
  <2> QED BY <1>1, <1>5, <2>2, <2>3, <2>4, Zenon
<1>6. CASE ~Heartbeat(w)
  <2>1. SetSerializeType(Header(0, 0, s), w.serialize) = Header(0, CodecOf(w), s)
    BY <1>0, <1>2, <1>6, HeaderSets, Zenon DEF CodecOf
  <2>2. SetCompressType(Header(0, CodecOf(w), s), Gzip) = Header(4, CodecOf(w), s)
    BY <1>1, <1>2, HeaderSets, Zenon
  <2>3. (IF Zips(w) THEN Header(4, CodecOf(w), s) ELSE Header(0, CodecOf(w), s))
           = Header(FlagsOf(w), CodecOf(w), s)
    BY <1>6, Zenon DEF FlagsOf
  <2>4. NewMessage.header = NewHeader /\ NewMessage.meta = {}
    BY DEF NewMessage
  <2>5. NewRequest(w, NewMessage, s) =
          [NewMessage EXCEPT
              !.header = IF Zips(w) THEN Header(4, CodecOf(w), s)
                                    ELSE Header(0, CodecOf(w), s),
              !.meta = IF w.meta = {} THEN @ ELSE w.meta,
              !.path = w.path,
              !.method = w.method,
              !.payload = IF Zips(w) THEN ZipData(w.args) ELSE w.args]
    BY <1>4, <1>6, <2>1, <2>2, <2>4, Zenon DEF NewRequest
  <2>6. PICK h, y : /\ h = Header(FlagsOf(w), CodecOf(w), s)
                    /\ y = IF w.meta = {} THEN {} ELSE w.meta
    OBVIOUS
  <2>7. y = w.meta
    BY <2>6
  <2>8. NewRequest(w, NewMessage, s) =
          [header |-> h, path |-> w.path, method |-> w.method, meta |-> y,
           payload |-> PayloadOf(w)]
    BY <2>3, <2>4, <2>5, <2>6, Zenon DEF NewMessage, PayloadOf
  <2> QED BY <1>1, <1>6, <2>6, <2>7, <2>8, Zenon
<1> QED BY <1>5, <1>6

-----------------------------------------------------------------------------
(* The requests and the responses of the calls. *)

\* A message with the names of the wish w.
Named(f, c, s, w, meta, payload) ==
    [header |-> Header(f, c, s), path |-> w.path, method |-> w.method,
     meta |-> meta, payload |-> payload]

\* Such a message can be sent, if what is in it is short.
LEMMA NamedFacts ==
  ASSUME NEW f \in Flags, NEW c \in {0, 16, 32}, NEW s \in Nat, NEW w, Proper(w),
         NEW meta \in Metadata, IsFiniteSet(meta), Short(encodeMetadata(meta)),
         NEW payload \in Texts, Short(payload)
  PROVE  Sound(Named(f, c, s, w, meta, payload))
<1>1. f \in Bytes /\ c \in Bytes
  BY HeaderGets
<1>2. PICK h \in Texts : h = Header(f, c, s) /\ Len(h) = 12 /\ h[1] = 8
  BY <1>1, HeaderFacts
<1>3. w.path \in Texts /\ w.method \in Texts /\ Short(w.path) /\ Short(w.method)
  BY DEF Proper, WishType
<1>4. PICK x : x = [header |-> h, path |-> w.path, method |-> w.method,
                    meta |-> meta, payload |-> payload]
  BY Zenon
<1>5. x \in Messages
  BY <1>3, <1>4 DEF Messages
<1>6. /\ x.header = h /\ x.path = w.path /\ x.method = w.method /\ x.meta = meta
      /\ x.payload = payload
  BY <1>4
<1>7. Sendable(x)
  BY <1>2, <1>3, <1>5, <1>6, Zenon DEF Sendable
<1>8. x = Named(f, c, s, w, meta, payload)
  BY <1>2, <1>4, Zenon DEF Named
<1> QED BY <1>2, <1>6, <1>7, <1>8, Zenon DEF Sound

\* The texts of this model are short, and so is metadata without a pair, or
\* with the error only.
LEMMA SmallTexts ==
  /\ ServiceError \in Texts
  /\ \A e \in Errors : e \in Texts
  /\ <<>> \in Texts /\ Short(<<>>)
  /\ <<200>> \in Texts /\ Short(<<200>>)
  /\ <<200, 200>> \in Texts /\ Short(<<200, 200>>)
BY SMT DEF Texts, Bytes, Short, ServiceError, Errors, NoService, NoMethod, NoCodec,
           BadArguments, MethodError

\* No metadata is encoded as the empty text.
LEMMA NoMetadata ==
  /\ {} \in Metadata /\ IsFiniteSet({})
  /\ Short(encodeMetadata({}))
<1>1. {} \in Metadata /\ IsFiniteSet({}) /\ Cardinality({}) = 0
  BY FS_EmptySet DEF Metadata
<1>2. Len(Pairs({})) = 0 /\ Pairs({}) \in Seq(Texts)
      /\ encodeMetadata({}) = Flatten(Pairs({}))
  BY <1>1, PairsFacts
<1>3. Pairs({}) = <<>>
  BY <1>2
<1>4. encodeMetadata({}) = <<>>
  BY <1>2, <1>3, FlattenType, Zenon
<1> QED BY <1>1, <1>4, SmallTexts, Zenon

\* A sequence of one text.
LEMMA TailOfOne ==
  ASSUME NEW q \in Seq(Texts), Len(q) = 1
  PROVE  q # <<>> /\ Tail(q) = <<>>
<1>1. Tail(q) \in Seq(Texts) /\ Len(Tail(q)) = 0
  OBVIOUS
<1>2. \A t \in Seq(Texts) : Len(t) = 0 => t = <<>>
  OBVIOUS
<1>3. q # <<>>
  OBVIOUS
<1> QED BY <1>1, <1>2, <1>3, Zenon

\* handleError sets the one key of the error, and fits into its field.
LEMMA ErrorMetadata ==
  ASSUME NEW e \in Errors
  PROVE  /\ {<<ServiceError, e>>} \in Metadata
         /\ IsFiniteSet({<<ServiceError, e>>})
         /\ Short(encodeMetadata({<<ServiceError, e>>}))
<1>1. PICK kv : kv = <<ServiceError, e>>
  BY Zenon
<1>2. kv \in Texts \X Texts
  BY <1>1, SmallTexts
<1>3. {kv} \in Metadata /\ IsFiniteSet({kv}) /\ Cardinality({kv}) = 1
  BY <1>2, FS_Singleton, Zenon DEF Metadata
<1>4. /\ Len(Pairs({kv})) = 1 /\ Pairs({kv}) \in Seq(Texts)
      /\ Pairs({kv})[1] = Pair(Order({kv})[1])
      /\ encodeMetadata({kv}) = Flatten(Pairs({kv}))
  <2>1. PICK m \in Metadata : m = {kv} /\ IsFiniteSet(m) /\ Cardinality(m) = 1
    BY <1>3, Zenon
  <2>2. 1 \in 1 .. Cardinality(m)
    BY <2>1
  <2>3. /\ Len(Pairs(m)) = 1 /\ Pairs(m) \in Seq(Texts)
        /\ Pairs(m)[1] = Pair(Order(m)[1])
        /\ encodeMetadata(m) = Flatten(Pairs(m))
    BY <2>1, <2>2, PairsFacts, Zenon
  <2> QED BY <2>1, <2>3, Zenon
<1>5. Order({kv})[1] = kv
  <2>1. Order({kv})[1] \in {kv}
    BY <1>3, OrderFacts
  <2> QED BY <2>1
<1>6. PICK p \in Texts : p = Pair(kv)
  BY <1>2, PairFacts, Zenon
<1>7. Len(p) = 10
  <2>1. Len(kv[1]) = 1 /\ Len(kv[2]) = 1
    BY <1>1 DEF ServiceError, Errors, NoService, NoMethod, NoCodec, BadArguments,
                MethodError
  <2>2. Len(Pair(kv)) = 8 + Len(kv[1]) + Len(kv[2])
    BY <1>2, PairFacts, Zenon
  <2> QED BY <1>6, <2>1, <2>2
<1>8. Flatten(Pairs({kv})) = p
  <2>1. PICK q \in Seq(Texts) : q = Pairs({kv})
    BY <1>4, Zenon
  <2>0. Len(q) = 1 /\ q[1] = p
    BY <1>4, <1>5, <1>6, <2>1, Zenon
  <2>2. q # <<>> /\ Tail(q) = <<>>
    BY <2>0, TailOfOne
  <2>3. Flatten(q) = q[1] \o Flatten(Tail(q))
    BY <2>2, FlattenTail
  <2>4. Flatten(Tail(q)) = <<>>
    BY <2>2, FlattenType, Zenon
  <2>5. Flatten(q) = p \o <<>>
    BY <2>0, <2>3, <2>4, Zenon
  <2>6. p \o <<>> = p
    BY DEF Texts
  <2> QED BY <2>1, <2>5, <2>6, Zenon
<1>9. Short(p)
  BY <1>7, SMT DEF Short
<1> QED BY <1>1, <1>3, <1>4, <1>6, <1>8, <1>9, Zenon

\* The request of a call, which is the one the server reads.
LEMMA RequestFacts ==
  ASSUME NEW w, Proper(w), NEW s \in Nat
  PROVE  /\ FlagsOf(w) \in {0, 4, 64} /\ CodecOf(w) \in {0, 16, 32}
         /\ NewRequest(w, NewMessage, s) =
               Named(FlagsOf(w), CodecOf(w), s, w,
                     IF Heartbeat(w) THEN {} ELSE w.meta,
                     IF Heartbeat(w) THEN <<>> ELSE PayloadOf(w))
         /\ Sound(NewRequest(w, NewMessage, s))
<1>1. w \in WishType /\ IsFiniteSet(w.meta) /\ Short(encodeMetadata(w.meta))
  BY DEF Proper
<1>2. FlagsOf(w) \in {0, 4, 64} /\ CodecOf(w) \in {0, 16, 32}
  BY <1>1, NewRequestFacts
<1>3. PICK meta, payload :
         /\ meta = IF Heartbeat(w) THEN {} ELSE w.meta
         /\ payload = IF Heartbeat(w) THEN <<>> ELSE PayloadOf(w)
  BY Zenon
<1>4. NewRequest(w, NewMessage, s) = Named(FlagsOf(w), CodecOf(w), s, w, meta, payload)
  <2>1. NewRequest(w, NewMessage, s) =
               [header |-> Header(FlagsOf(w), CodecOf(w), s),
                path |-> w.path, method |-> w.method,
                meta |-> IF Heartbeat(w) THEN {} ELSE w.meta,
                payload |-> IF Heartbeat(w) THEN <<>> ELSE PayloadOf(w)]
    BY ZenonT(40), <1>1, NewRequestFacts
  <2> QED BY <1>3, <2>1, Zenon DEF Named
<1>5. meta \in Metadata /\ IsFiniteSet(meta) /\ Short(encodeMetadata(meta))
  <2>1. w.meta \in Metadata
    BY <1>1 DEF WishType
  <2> QED BY <1>1, <1>3, <2>1, NoMetadata, Zenon
<1>6. w.args \in Texts /\ ZipData(w.args) \in Texts /\ Short(w.args)
      /\ Short(ZipData(w.args))
  <2>1. PICK a \in Texts : a = w.args
    BY <1>1 DEF WishType
  <2>2. ZipData(a) \in Texts /\ Len(ZipData(a)) = Len(a) + 1
    BY DEF ZipData, Texts, Bytes
  <2>3. PICK n \in Nat, k \in Nat : n = Len(a) /\ k = Len(ZipData(a))
    BY <2>2 DEF Texts
  <2>4. Short(ZipData(a))
    BY <2>1, Zenon DEF Proper
  <2>5. Short(a)
    BY <2>2, <2>3, <2>4, SMT DEF Short
  <2> QED BY <2>1, <2>2, <2>4, <2>5, Zenon
<1>7. payload \in Texts /\ Short(payload)
  BY <1>3, <1>6, SmallTexts, Zenon DEF PayloadOf
<1>8. FlagsOf(w) \in Flags
  BY <1>2 DEF Flags
<1>9. Sound(Named(FlagsOf(w), CodecOf(w), s, w, meta, payload))
  BY <1>2, <1>5, <1>7, <1>8, NamedFacts
<1> QED BY <1>2, <1>3, <1>4, <1>9, Zenon

\* The fields of a message with the names of a call, and what becomes of it
\* when they are set.
LEMMA NamedFields ==
  ASSUME NEW f, NEW c, NEW s, NEW w, NEW meta, NEW payload, NEW x,
         x = Named(f, c, s, w, meta, payload)
  PROVE  /\ x.header = Header(f, c, s) /\ x.path = w.path /\ x.method = w.method
         /\ x.meta = meta /\ x.payload = payload
BY DEF Named

\* Only the payload changes when the reply is filled in.
LEMMA NamedPayload ==
  ASSUME NEW f, NEW c, NEW s, NEW w, NEW meta, NEW payload, NEW x,
         x = Named(f, c, s, w, meta, payload), NEW p
  PROVE  [x EXCEPT !.payload = p] = Named(f, c, s, w, meta, p)
<1>1. PICK k : k = Header(f, c, s)
  OBVIOUS
<1>2. x = [header |-> k, path |-> w.path, method |-> w.method, meta |-> meta,
           payload |-> payload]
  BY <1>1, Zenon DEF Named
<1>3. [x EXCEPT !.payload = p] = [header |-> k, path |-> w.path, method |-> w.method,
                                  meta |-> meta, payload |-> p]
  BY <1>2
<1> QED BY <1>1, <1>3, Zenon DEF Named

\* Only the metadata changes when metadata is set.
LEMMA NamedMeta ==
  ASSUME NEW f, NEW c, NEW s, NEW w, NEW meta, NEW payload, NEW x,
         x = Named(f, c, s, w, meta, payload), NEW m
  PROVE  [x EXCEPT !.meta = m] = Named(f, c, s, w, m, payload)
<1>1. PICK k : k = Header(f, c, s)
  OBVIOUS
<1>2. x = [header |-> k, path |-> w.path, method |-> w.method, meta |-> meta,
           payload |-> payload]
  BY <1>1, Zenon DEF Named
<1>3. [x EXCEPT !.meta = m] = [header |-> k, path |-> w.path, method |-> w.method,
                               meta |-> m, payload |-> payload]
  BY <1>2
<1> QED BY <1>1, <1>3, Zenon DEF Named

\* Only the header changes when a header is set.
LEMMA NamedHeader ==
  ASSUME NEW f, NEW c, NEW s, NEW w, NEW meta, NEW payload, NEW x,
         x = Named(f, c, s, w, meta, payload), NEW g, NEW h, h = Header(g, c, s)
  PROVE  [x EXCEPT !.header = h] = Named(g, c, s, w, meta, payload)
<1>1. PICK k : k = Header(f, c, s)
  OBVIOUS
<1>2. x = [header |-> k, path |-> w.path, method |-> w.method, meta |-> meta,
           payload |-> payload]
  BY <1>1, Zenon DEF Named
<1>3. [x EXCEPT !.header = h] = [header |-> h, path |-> w.path, method |-> w.method,
                                 meta |-> meta, payload |-> payload]
  BY ONLY <1>2
<1> QED BY <1>3, Zenon DEF Named

\* The flags of a response, and of one that reports an error.
BlankFlags(w) == FlagsOf(w) + 128
ErrorFlags(w) == FlagsOf(w) + 129
Plain(f) == f \notin {129, 133} /\ f \notin {64, 192} /\ f \notin {4, 132, 133}

\* The flags of a response are flags that the getters know.
LEMMA ResponseFlags ==
  ASSUME NEW w, Proper(w), ~Heartbeat(w)
  PROVE  /\ FlagsOf(w) \in {0, 4} /\ CodecOf(w) \in {0, 16, 32}
         /\ BlankFlags(w) \in {128, 132} /\ BlankFlags(w) \in Flags
         /\ ErrorFlags(w) \in {129, 133} /\ ErrorFlags(w) \in Flags
         /\ ErrorFlags(w) = BlankFlags(w) + 1
         /\ ~Zips(w) => Plain(BlankFlags(w))
<1>1. 0 \in Nat
  OBVIOUS
<1>2. CodecOf(w) \in {0, 16, 32}
  BY <1>1, RequestFacts
<1>3. FlagsOf(w) \in {0, 4} /\ (~Zips(w) => FlagsOf(w) = 0)
  BY DEF FlagsOf
<1> QED BY <1>2, <1>3, SMT DEF BlankFlags, ErrorFlags, Flags, Plain

\* The response of handleRequest, before and after an error is put into it.
LEMMA BlankFacts ==
  ASSUME NEW w, Proper(w), NEW s \in Nat, ~Heartbeat(w),
         NEW b, b = Blank(NewRequest(w, NewMessage, s))
  PROVE  b = Named(BlankFlags(w), CodecOf(w), s, w, {}, <<>>)
<1>2. PICK f \in {0, 4}, c \in {0, 16, 32} : f = FlagsOf(w) /\ c = CodecOf(w)
  BY ResponseFlags
<1>3. PICK r : r = NewRequest(w, NewMessage, s)
  OBVIOUS
<1>3a. PICK meta, payload : r = Named(f, c, s, w, meta, payload)
  <2>1. NewRequest(w, NewMessage, s) =
               Named(FlagsOf(w), CodecOf(w), s, w,
                     IF Heartbeat(w) THEN {} ELSE w.meta,
                     IF Heartbeat(w) THEN <<>> ELSE PayloadOf(w))
    BY RequestFacts, Zenon
  <2> QED BY <1>2, <1>3, <2>1, Zenon
<1>4. r.header = Header(f, c, s) /\ r.path = w.path /\ r.method = w.method
  BY <1>3a, NamedFields
<1>5. SetMessageType(r.header, Response) = Header(BlankFlags(w), c, s)
  BY <1>2, <1>4, HeaderReply DEF BlankFlags
<1>6. Blank(r) = Named(BlankFlags(w), c, s, w, {}, <<>>)
  <2>1. PICK h, k, e, n :
           h = Header(BlankFlags(w), c, s) /\ k = NewHeader /\ e = <<>> /\ n = {}
    OBVIOUS
  <2>2. PICK x : x = NewMessage
    OBVIOUS
  <2>3. x = [header |-> k, path |-> e, method |-> e, meta |-> n, payload |-> e]
    BY <2>1, <2>2, Zenon DEF NewMessage
  <2>4. PICK p, d : p = w.path /\ d = w.method
    OBVIOUS
  <2>5. [x EXCEPT !.header = h, !.path = p, !.method = d]
           = [header |-> h, path |-> p, method |-> d, meta |-> n, payload |-> e]
    <3>1. PICK y : y = [x EXCEPT !.header = h]
      BY Zenon
    <3>2. y = [header |-> h, path |-> e, method |-> e, meta |-> n, payload |-> e]
      BY ONLY <2>3, <3>1
    <3>3. PICK z : z = [y EXCEPT !.path = p]
      BY Zenon
    <3>4. z = [header |-> h, path |-> p, method |-> e, meta |-> n, payload |-> e]
      BY ONLY <3>2, <3>3
    <3>5. [z EXCEPT !.method = d]
             = [header |-> h, path |-> p, method |-> d, meta |-> n, payload |-> e]
      BY ONLY <3>4
    <3> QED BY <3>1, <3>3, <3>5, Zenon
  <2>6. Blank(r) = [x EXCEPT !.header = h, !.path = p, !.method = d]
    BY <1>4, <1>5, <2>1, <2>2, <2>4, Zenon DEF Blank
  <2> QED BY <2>1, <2>4, <2>5, <2>6, Zenon DEF Named
<1> QED BY <1>2, <1>3, <1>6, Zenon

\* What handleError makes of the response.
LEMMA ErrorFacts ==
  ASSUME NEW w, Proper(w), NEW s \in Nat, ~Heartbeat(w), NEW e,
         NEW b, b = Named(BlankFlags(w), CodecOf(w), s, w, {}, <<>>)
  PROVE  handleError(b, e) =
            Named(ErrorFlags(w), CodecOf(w), s, w, {<<ServiceError, e>>}, <<>>)
<1>1. PICK f, g, c : f = BlankFlags(w) /\ g = ErrorFlags(w) /\ c = CodecOf(w)
  OBVIOUS
<1>2. f \in {128, 132} /\ g = f + 1 /\ c \in {0, 16, 32}
  BY SMTT(30), <1>1, ResponseFlags
<1>3. b.header = Header(f, c, s) /\ b.meta = {}
  <2>1. b = Named(f, c, s, w, {}, <<>>)
    BY <1>1, Zenon
  <2> QED BY ONLY <2>1, SMT DEF Named
<1>4. SetMessageStatusType(b.header, Error) = Header(g, c, s)
  <2>1. SetMessageStatusType(Header(f, c, s), Error) = Header(f + 1, c, s)
    BY ONLY s \in Nat, <1>2, HeaderReply, SMT
  <2> QED BY ONLY <1>2, <1>3, <2>1, Zenon
<1>5. SetAll({}, {<<ServiceError, e>>}) = {<<ServiceError, e>>}
  BY DEF SetAll
<1>6. PICK h, m, y : /\ h = Header(g, c, s) /\ m = {<<ServiceError, e>>}
                     /\ y = [b EXCEPT !.header = h]
  BY Zenon
<1>7. y = Named(g, c, s, w, {}, <<>>)
  BY <1>1, <1>6, NamedHeader
<1>8. [y EXCEPT !.meta = m] = Named(g, c, s, w, m, <<>>)
  BY <1>7, NamedMeta
<1>9. handleError(b, e) = [y EXCEPT !.meta = m]
  BY <1>3, <1>4, <1>5, <1>6, Zenon DEF handleError
<1> QED BY <1>1, <1>6, <1>8, <1>9, Zenon

\* What the client makes of a header with the flags f.
Flagged(h, f) ==
    /\ MessageStatusType(h) = Error <=> f \in {129, 133}
    /\ IsHeartbeat(h) <=> f \in {64, 192}
    /\ CompressType(h) = Gzip <=> f \in {4, 132, 133}
    /\ SerializeType(h) \in Codecs

\* What the getters of the client read in the flags.
LEMMA HeaderTells ==
  ASSUME NEW f \in Flags, NEW c \in {0, 16, 32}, NEW s \in Nat
  PROVE  Flagged(Header(f, c, s), f)
<1>1. PICK h : h = Header(f, c, s)
  OBVIOUS
<1>2. MessageStatusType(h) = IF f \in {129, 133} THEN Error ELSE Normal
  BY <1>1, HeaderGets
<1>3. CompressType(h) = IF f \in {4, 132, 133} THEN Gzip ELSE None
  BY <1>1, HeaderGets
<1>4. SerializeType(h) = IF c = 0 THEN 0 ELSE IF c = 16 THEN 1 ELSE 2
  BY <1>1, HeaderGets
<1>5. IsHeartbeat(h) <=> f \in {64, 192}
  BY <1>1, HeaderGets
<1>6. SerializeType(h) \in Codecs
  BY <1>4 DEF Codecs
<1>7. MessageStatusType(h) = Error <=> f \in {129, 133}
  BY <1>2 DEF Error, Normal
<1>8. CompressType(h) = Gzip <=> f \in {4, 132, 133}
  BY <1>3 DEF Gzip, None
<1>9. Flagged(h, f)
  BY ONLY <1>5, <1>6, <1>7, <1>8, Zenon DEF Flagged
<1> QED BY <1>1, <1>9, Zenon

\* What it makes of a message with the names of a call.
Marked(y, f, s, meta, payload) ==
    /\ Seq64(y.header) = s
    /\ y.meta = meta /\ y.payload = payload
    /\ Flagged(y.header, f)

\* The same of a message with the names of a wish.
LEMMA NamedTells ==
  ASSUME NEW f \in Flags, NEW c \in {0, 16, 32}, NEW s, Numbered(s),
         NEW w, NEW meta, NEW payload
  PROVE  Marked(Named(f, c, s, w, meta, payload), f, s, meta, payload)
<1>1. PICK y : y = Named(f, c, s, w, meta, payload)
  OBVIOUS
<1>2. y.header = Header(f, c, s) /\ y.meta = meta /\ y.payload = payload
  BY ONLY <1>1, SMT DEF Named
<1>3. s \in Nat
  BY Zenon DEF Numbered
<1>4. f \in Bytes /\ c \in Bytes
  BY <1>3, HeaderGets
<1>5. Seq64(Header(f, c, s)) = s
  BY <1>4, HeaderSeq, SMT DEF Numbered
<1>6. Flagged(Header(f, c, s), f)
  BY <1>3, HeaderTells
<1>7. Marked(y, f, s, meta, payload)
  BY <1>2, <1>5, <1>6, Zenon DEF Marked
<1> QED BY <1>1, <1>7, Zenon

\* A call that was served finds no error.
LEMMA TellsServed ==
  ASSUME NEW y, NEW w, NEW called, MessageStatusType(y.header) # Error,
         IsHeartbeat(y.header) \/ ~Unreadable(y),
         Heartbeat(w) \/ (called /\ w.returns = "nil")
  PROVE  Tells(y, w, called)
BY Zenon DEF Tells

\* A call that was not served finds one.
LEMMA TellsFailed ==
  ASSUME NEW y, NEW w, NEW called,
         \/ MessageStatusType(y.header) = Error
         \/ ~IsHeartbeat(y.header) /\ Unreadable(y),
         ~(Heartbeat(w) \/ (called /\ w.returns = "nil"))
  PROVE  Tells(y, w, called)
BY Zenon DEF Tells

\* The response to a heartbeat.
LEMMA EchoFacts ==
  ASSUME NEW w, Proper(w), NEW s, Numbered(s), Heartbeat(w),
         NEW called, ~called, NEW r, r = NewRequest(w, NewMessage, s),
         NEW x, NEW y, y = Written(x, r, w, called)
  PROVE  Answers(y, s, w, called)
<1>0. s \in Nat
  BY Zenon DEF Numbered
<1>1. r = NewRequest(w, NewMessage, s)
  OBVIOUS
<1>2. r = Named(64, 0, s, w, {}, <<>>)
  <2>1. FlagsOf(w) = 64 /\ CodecOf(w) = 0
    BY DEF FlagsOf, CodecOf
  <2>2. r = Named(FlagsOf(w), CodecOf(w), s, w, IF Heartbeat(w) THEN {} ELSE w.meta,
                     IF Heartbeat(w) THEN <<>> ELSE PayloadOf(w))
    BY <1>0, <1>1, RequestFacts, Zenon
  <2> QED BY <2>1, <2>2, Zenon
<1>3. PICK f : f = 192
  OBVIOUS
<1>3a. 0 \in {0, 16, 32} /\ 64 \in {0, 4, 64} /\ 64 + 128 = f /\ f \in Flags
  BY <1>3, SMT DEF Flags
<1>3b. f \in {64, 192} /\ f \notin {129, 133}
  BY <1>3
<1>4. SetMessageType(r.header, Response) = Header(f, 0, s)
  <2>1. r.header = Header(64, 0, s)
    BY ONLY <1>2, SMT DEF Named
  <2>2. SetMessageType(Header(64, 0, s), Response) = Header(64 + 128, 0, s)
    BY <1>0, <1>3a, HeaderReply
  <2> QED BY <1>3a, <2>1, <2>2, Zenon
<1>5. y = Named(f, 0, s, w, {}, <<>>)
  <2>1. PICK h : h = Header(f, 0, s)
    OBVIOUS
  <2>2. [r EXCEPT !.header = h] = Named(f, 0, s, w, {}, <<>>)
    BY <1>2, <2>1, NamedHeader
  <2>3. y = [r EXCEPT !.header = h]
    BY <1>1, <1>4, <2>1 DEF Written
  <2> QED BY <2>2, <2>3, Zenon
<1>6. Sound(y)
  <2>1. Sound(Named(f, 0, s, w, {}, <<>>))
    BY <1>0, <1>3a, NoMetadata, SmallTexts, NamedFacts
  <2> QED BY <1>5, <2>1, Zenon
<1>7. Marked(y, f, s, {}, <<>>)
  <2>1. Marked(Named(f, 0, s, w, {}, <<>>), f, s, {}, <<>>)
    BY <1>3a, NamedTells
  <2> QED BY <1>5, <2>1, Zenon
<1>7a. Seq64(y.header) = s /\ y.meta = {}
  BY <1>7, Zenon DEF Marked
<1>8. IsHeartbeat(y.header) /\ MessageStatusType(y.header) # Error
  BY <1>3b, <1>7, Zenon DEF Marked, Flagged
<1>9. Tells(y, w, called)
  BY <1>8, TellsServed, Zenon
<1>10. Notes(y.meta, w, called)
  <2>1. \A m : m = {} => m \ {kv \in m : kv[1] = ServiceError} = {}
    OBVIOUS
  <2> QED BY <1>7a, <2>1, Zenon DEF Notes
<1> QED BY <1>6, <1>7a, <1>9, <1>10, Zenon DEF Answers

\* The response that reports an error: one of handleRequest, or one of the
\* method together with its metadata.
LEMMA FailureFacts ==
  ASSUME NEW w, Proper(w), NEW s, Numbered(s), ~Heartbeat(w),
         NEW called \in BOOLEAN, NEW e \in Errors,
         called => e = MethodError /\ w.returns \in {"error", "panic"},
         NEW r, r = NewRequest(w, NewMessage, s),
         NEW x, x = handleError(Blank(r), e), NEW y, y = Written(x, r, w, called)
  PROVE  Answers(y, s, w, called) /\ x.header[1] = 8
<1>0. s \in Nat
  BY Zenon DEF Numbered
<1>1. PICK f, c : f = ErrorFlags(w) /\ c = CodecOf(w)
  OBVIOUS
<1>2. f \in {129, 133} /\ f \in Flags /\ c \in {0, 16, 32}
  BY <1>1, ResponseFlags
<1>3. x = Named(f, c, s, w, {<<ServiceError, e>>}, <<>>)
  <2>1. PICK b : b = Blank(NewRequest(w, NewMessage, s))
    OBVIOUS
  <2>2. b = Named(BlankFlags(w), CodecOf(w), s, w, {}, <<>>)
    BY <1>0, <2>1, BlankFacts, Zenon
  <2>3. handleError(b, e)
           = Named(ErrorFlags(w), CodecOf(w), s, w, {<<ServiceError, e>>}, <<>>)
    BY <1>0, <2>2, ErrorFacts, Zenon
  <2> QED BY <1>1, <2>1, <2>3, Zenon
<1>4. PICK kv, set, m : /\ kv = <<ServiceError, e>>
                        /\ set = IF called THEN w.resMeta ELSE {}
                        /\ m = SetAll({kv}, set)
  BY Zenon
<1>5. x.meta = {kv}
  <2>1. x = Named(f, c, s, w, {kv}, <<>>)
    BY ONLY <1>3, <1>4, Zenon
  <2> QED BY ONLY <2>1, SMT DEF Named
<1>6. y = Named(f, c, s, w, m, <<>>)
  <2>1. y = [x EXCEPT !.meta = m]
    BY <1>4, <1>5 DEF Written
  <2>2. [x EXCEPT !.meta = m] = Named(f, c, s, w, m, <<>>)
    BY <1>3, NamedMeta
  <2> QED BY <2>1, <2>2, Zenon
<1>7. /\ set \in Metadata /\ IsFiniteSet(set)
      /\ \A x1 \in set : x1[1] # ServiceError
  <2>1. w.resMeta \in Metadata
    BY SMTT(30) DEF Proper, WishType
  <2> QED BY <1>4, <2>1, NoMetadata, Zenon DEF Proper
<1>8. kv[1] = ServiceError
  BY <1>4, Zenon
<1>9. m = {kv} \cup set
  <2>1. ASSUME NEW x1 \in set PROVE x1[1] # kv[1]
    BY <1>7, <1>8, Zenon
  <2>2. {k \in {kv} : \A x1 \in set : x1[1] # k[1]} = {kv}
    BY <2>1
  <2> QED BY <1>4, <2>2, Zenon DEF SetAll
<1>10. m \in Metadata /\ IsFiniteSet(m) /\ Short(encodeMetadata(m))
  <2>1. {kv} \in Metadata /\ IsFiniteSet({kv}) /\ Short(encodeMetadata({kv}))
    BY <1>4, ErrorMetadata, Zenon
  <2>2. m \in Metadata
    BY <1>7, <1>9, <2>1 DEF Metadata
  <2>3. IsFiniteSet(m)
    BY <1>7, <1>9, <2>1, FS_Union, Zenon
  <2>4. CASE called
    BY <1>4, <2>2, <2>3, <2>4, Zenon DEF Proper
  <2>5. CASE ~called
    <3>1. m = {kv}
      BY <1>4, <1>9, <2>5, Zenon
    <3> QED BY ZenonT(40), <2>1, <3>1
  <2> QED BY <2>2, <2>3, <2>4, <2>5
<1>11. Sound(y)
  <2>1. Sound(Named(f, c, s, w, m, <<>>))
    BY <1>0, <1>2, <1>10, SmallTexts, NamedFacts
  <2> QED BY <1>6, <2>1, Zenon
<1>12. x.header[1] = 8
  <2>1. {kv} \in Metadata /\ IsFiniteSet({kv}) /\ Short(encodeMetadata({kv}))
    BY <1>4, ErrorMetadata, Zenon
  <2>2. Sound(Named(f, c, s, w, {kv}, <<>>))
    BY <1>0, <1>2, <2>1, SmallTexts, NamedFacts
  <2> QED BY <1>3, <1>4, <2>2, Zenon DEF Sound
<1>13. /\ Seq64(y.header) = s /\ y.meta = m
       /\ MessageStatusType(y.header) = Error
  <2>1. Marked(Named(f, c, s, w, m, <<>>), f, s, m, <<>>)
    BY <1>2, NamedTells
  <2>2. Marked(y, f, s, m, <<>>)
    BY <1>6, <2>1, Zenon
  <2> QED BY <1>2, <2>2, Zenon DEF Marked, Flagged
<1>14. Tells(y, w, called)
  <2>1. called => w.returns # "nil"
    BY SMTT(30)
  <2> QED BY <1>13, <2>1, TellsFailed, Zenon
<1>15. Notes(y.meta, w, called)
  <2>1. {x1 \in m : x1[1] = ServiceError} = {kv}
    BY <1>7, <1>8, <1>9
  <2>2. m \ {kv} = set
    BY <1>7, <1>8, <1>9
  <2>3. Cardinality({kv}) = 1
    BY FS_Singleton
  <2> QED BY <1>4, <1>13, <2>1, <2>2, <2>3, Zenon DEF Notes
<1> QED BY <1>11, <1>12, <1>13, <1>14, <1>15, Zenon DEF Answers

Replied(b, p) == [b EXCEPT !.payload = p]

\* The response with the reply of a method that returned nil, which the
\* client can decode or not.
LEMMA ReplyFacts ==
  ASSUME NEW w, Proper(w), NEW s, Numbered(s), ~Heartbeat(w),
         ~Zips(w), w.returns \notin {"error", "panic"},
         NEW p, p = ReplyOf(w),
         NEW r, r = NewRequest(w, NewMessage, s), NEW b, b = Blank(r),
         NEW x, x = Replied(b, p),
         NEW called, called, NEW y, y = Written(x, r, w, called)
  PROVE  Answers(y, s, w, called) /\ x.header[1] = 8
<1>0. s \in Nat
  BY Zenon DEF Numbered
<1>1. PICK c, f : c = CodecOf(w) /\ f = BlankFlags(w)
  OBVIOUS
<1>2. c \in {0, 16, 32} /\ f \in Flags /\ Plain(f)
  BY <1>1, ResponseFlags
<1>3. x = Named(f, c, s, w, {}, p)
  <2>1. b = Blank(NewRequest(w, NewMessage, s))
    OBVIOUS
  <2>2. b = Named(BlankFlags(w), CodecOf(w), s, w, {}, <<>>)
    BY <1>0, <2>1, BlankFacts, Zenon
  <2>4. b = Named(f, c, s, w, {}, <<>>)
    BY <1>1, <2>2, Zenon
  <2>5. [b EXCEPT !.payload = p] = Named(f, c, s, w, {}, p)
    BY <2>4, NamedPayload
  <2> QED BY <2>1, <2>5, Zenon DEF Replied
<1>4. PICK m : m = w.resMeta
  OBVIOUS
<1>5. y = Named(f, c, s, w, m, p)
  <2>1. x.meta = {}
    BY <1>3 DEF Named
  <2>2. SetAll({}, m) = m
    BY DEF SetAll
  <2>3. y = [x EXCEPT !.meta = m]
    BY <1>4, <2>1, <2>2 DEF Written
  <2>4. [x EXCEPT !.meta = m] = Named(f, c, s, w, m, p)
    <3>1. PICK n : n = {}
      BY Zenon
    <3>2. x = Named(f, c, s, w, n, p)
      BY <1>3, <3>1, Zenon
    <3>3. [x EXCEPT !.meta = m] = Named(f, c, s, w, m, p)
      BY ONLY <3>2, NamedMeta
    <3> QED BY <3>1, <3>3, Zenon
  <2> QED BY <2>3, <2>4, Zenon
<1>6. p \in Texts /\ Short(p)
  BY SmallTexts, Zenon DEF ReplyOf
<1>7. /\ m \in Metadata /\ IsFiniteSet(m) /\ Short(encodeMetadata(m))
      /\ \A kv \in m : kv[1] # ServiceError
  BY <1>4 DEF Proper, WishType
<1>8. Sound(y)
  <2>1. Sound(Named(f, c, s, w, m, p))
    BY <1>0, <1>2, <1>6, <1>7, NamedFacts
  <2> QED BY <1>5, <2>1, Zenon
<1>9. x.header[1] = 8
  <2>1. Sound(Named(f, c, s, w, {}, p))
    BY <1>0, <1>2, <1>6, NoMetadata, NamedFacts
  <2> QED BY <1>3, <2>1, Zenon DEF Sound
<1>10. Marked(y, f, s, m, p)
  <2>1. Marked(Named(f, c, s, w, m, p), f, s, m, p)
    BY <1>2, NamedTells
  <2> QED BY <1>5, <2>1, Zenon
<1>11. /\ Seq64(y.header) = s /\ y.meta = m /\ y.payload = p
       /\ MessageStatusType(y.header) # Error /\ ~IsHeartbeat(y.header)
       /\ CompressType(y.header) # Gzip /\ SerializeType(y.header) \in Codecs
  BY <1>2, <1>10, Zenon DEF Marked, Flagged, Plain
<1>12. p # <<>> /\ ~Zipped(p) /\ (Decodes(p) <=> w.returns # "misfit")
  BY DEF Zipped, Decodes, ReplyOf
<1>13. Unreadable(y) <=> w.returns = "misfit"
  <2>1. y.payload # <<>> /\ ~Zipped(y.payload) /\ (Decodes(y.payload) <=> w.returns # "misfit")
    BY ONLY <1>11, <1>12, Zenon
  <2>2. (CompressType(y.header) = Gzip) = Zipped(y.payload)
    BY ONLY <1>11, <2>1 DEF Zipped
  <2> QED BY ONLY <1>11, <2>1, <2>2, Zenon DEF Unreadable
<1>14. w.returns = "misfit" <=> w.returns # "nil"
  BY DEF Proper, WishType
<1>15. Tells(y, w, called)
  <2>1. CASE w.returns = "nil"
    BY <1>11, <1>13, <1>14, <2>1, TellsServed, Zenon
  <2>2. CASE w.returns # "nil"
    <3>1. ~(Heartbeat(w) \/ (called /\ w.returns = "nil"))
      BY <2>2, Zenon
    <3>2. ~IsHeartbeat(y.header) /\ Unreadable(y)
      BY ONLY <1>11, <1>13, <1>14, <2>2, Zenon
    <3> QED BY ONLY <3>1, <3>2, TellsFailed, Zenon
  <2> QED BY <2>1, <2>2, Zenon
<1>16. Notes(y.meta, w, called)
  <2>1. {kv \in m : kv[1] = ServiceError} = {}
    BY <1>7
  <2>2. m \ {} = m
    OBVIOUS
  <2>3. w.returns \notin {"error", "panic"}
    OBVIOUS
  <2>4. called
    BY SMTT(30)
  <2> QED BY ONLY <1>4, <1>11, <2>1, <2>2, <2>3, <2>4, Zenon DEF Notes
<1> QED BY <1>8, <1>9, <1>11, <1>15, <1>16, Zenon DEF Answers

\* Whatever the server writes, the client reads in it what happened.
LEMMA WrittenFacts == ResponsesTell
<1> SUFFICES ASSUME NEW w, Proper(w), NEW s, Numbered(s), NEW x, NEW called \in BOOLEAN,
                    NEW r, r = NewRequest(w, NewMessage, s),
                    Heartbeat(w) => ~called, ~Heartbeat(w) => Filled(x, r, w, called)
             PROVE  /\ Answers(Written(x, r, w, called), s, w, called)
                    /\ ~Heartbeat(w) => x.header[1] = 8
  BY Zenon DEF ResponsesTell
<1>1. PICK y : y = Written(x, r, w, called)
  OBVIOUS
<1>2. CASE Heartbeat(w)
  <2>1. Answers(y, s, w, called)
    BY <1>1, <1>2, EchoFacts, Zenon
  <2> QED BY <1>1, <1>2, <2>1, Zenon
<1>3. CASE ~Heartbeat(w) /\ called /\ w.returns \notin {"error", "panic"}
  <2>1. PICK p, b : p = ReplyOf(w) /\ b = Blank(r)
    OBVIOUS
  <2>2. ~Zips(w) /\ x = Replied(b, p)
    BY <1>3, <2>1, Zenon DEF Filled, Replied
  <2>3. Answers(y, s, w, called) /\ x.header[1] = 8
    BY <1>1, <1>3, <2>1, <2>2, ReplyFacts, Zenon
  <2> QED BY <1>1, <2>3, Zenon
<1>4. CASE ~Heartbeat(w) /\ ~(called /\ w.returns \notin {"error", "panic"})
  <2>1. PICK e \in Errors : /\ x = handleError(Blank(r), e)
                            /\ called => e = MethodError
                                         /\ w.returns \in {"error", "panic"}
    <3>1. CASE called
      <4>1. MethodError \in Errors /\ x = handleError(Blank(r), MethodError)
        BY <1>4, <3>1 DEF Filled, Errors
      <4> QED BY <1>4, <3>1, <4>1
    <3>2. CASE ~called
      BY ZenonT(40), <1>4, <3>2 DEF Filled
    <3> QED BY <3>1, <3>2
  <2>2. Answers(y, s, w, called) /\ x.header[1] = 8
    BY <1>1, <1>4, <2>1, FailureFacts, Zenon
  <2> QED BY <1>1, <2>2, Zenon
<1> QED BY <1>2, <1>3, <1>4, Zenon

-----------------------------------------------------------------------------
(* The streams. *)

\* A sequence with one text more, and one with one text less.
Longer(v, u, x) == v = Append(u, x)

\* A sequence with one text more is that sequence, appended to.
LEMMA AppendIs ==
  ASSUME NEW u \in Seq(Texts), NEW x \in Texts, NEW k \in Nat, Len(u) = k,
         NEW v, v = [i \in 1 .. k + 1 |-> v[i]],
         \A i \in 1 .. k : v[i] = u[i], v[k + 1] = x
  PROVE  Longer(v, u, x)
<1>1. PICK t : t = Append(u, x)
  BY Zenon
<1>2. t \in Seq(Texts) /\ Len(t) = k + 1
  BY <1>1
<1>3. t[k + 1] = x /\ \A i \in 1 .. k : t[i] = u[i]
  BY <1>1
<1>4. t = [i \in 1 .. k + 1 |-> t[i]]
  BY <1>2
<1>5. ASSUME NEW i \in 1 .. k + 1 PROVE v[i] = t[i]
  <2>1. i = k + 1 \/ i \in 1 .. k
    OBVIOUS
  <2> QED BY <1>3, <2>1, Zenon
<1>6. v = t
  BY <1>4, <1>5, Zenon
<1> QED BY <1>1, <1>6, Zenon DEF Longer

\* A sequence without its first text is its tail.
LEMMA TailIs ==
  ASSUME NEW u \in Seq(Texts), NEW k \in Nat, Len(u) = k + 1,
         NEW v, v = [i \in 1 .. k |-> v[i]], \A i \in 1 .. k : v[i] = u[i + 1]
  PROVE  u # <<>> /\ v = Tail(u) /\ v \in Seq(Texts)
<1>1. PICK t : t = Tail(u)
  OBVIOUS
<1>2. u # <<>> /\ t \in Seq(Texts) /\ Len(t) = k
  BY <1>1
<1>3. \A i \in 1 .. k : t[i] = u[i + 1]
  BY <1>1
<1>4. t = [i \in 1 .. k |-> t[i]]
  BY <1>2
<1>5. v = t
  BY <1>3, <1>4, Zenon
<1> QED BY <1>1, <1>2, <1>5, Zenon

\* A request is written behind those that are still unread.
LEMMA UnreadAppend == UnreadGrows
<1> SUFFICES ASSUME NEW q, NEW p
             PROVE  \A n, m \in Nat :
                       /\ n <= m /\ p[m + 1] \in Texts
                       /\ \A i \in n + 1 .. m : q[i] \in Texts /\ p[i] = q[i]
                       => Flatten(Unread(p, n, m + 1)) = Flatten(Unread(q, n, m)) \o p[m + 1]
  BY Zenon DEF UnreadGrows
<1> TAKE n, m \in Nat
<1> HAVE /\ n <= m /\ p[m + 1] \in Texts
         /\ \A i \in n + 1 .. m : q[i] \in Texts /\ p[i] = q[i]
<1>0. PICK k \in Nat : m - n = k /\ (m + 1) - n = k + 1 /\ n + (k + 1) = m + 1
  OBVIOUS
<1>1. PICK u, v, x : u = Unread(q, n, m) /\ v = Unread(p, n, m + 1) /\ x = p[m + 1]
  OBVIOUS
<1>2. u = [i \in 1 .. k |-> q[n + i]]
  BY <1>0, <1>1, Zenon DEF Unread
<1>2a. v = [i \in 1 .. k + 1 |-> p[n + i]]
  BY ONLY <1>0, <1>1, Zenon DEF Unread
<1>3. ASSUME NEW i \in 1 .. k PROVE q[n + i] \in Texts /\ p[n + i] = q[n + i]
  <2>1. n + i \in n + 1 .. m
    BY <1>0
  <2> QED BY <2>1
<1>4. u \in [1 .. k -> Texts]
  BY <1>2, <1>3, Zenon
<1>4a. ASSUME NEW i \in 1 .. k PROVE v[i] = u[i]
  <2>1. i \in 1 .. k + 1
    OBVIOUS
  <2> QED BY <1>2, <1>2a, <1>3, <2>1, Zenon
<1>5. u \in Seq(Texts) /\ Len(u) = k
  BY <1>4
<1>6. v = [i \in 1 .. k + 1 |-> v[i]] /\ v[k + 1] = x
  BY <1>0, <1>1, <1>2a
<1>7. x \in Texts
  BY <1>1
<1>8. Longer(v, u, x)
  BY ONLY <1>4a, <1>5, <1>6, <1>7, AppendIs, Zenon
<1>9. Flatten(Append(u, x)) = Flatten(u) \o x
  BY <1>5, <1>7, FlattenAppend
<1> QED BY <1>1, <1>8, <1>9, Zenon DEF Longer

\* The first of them is the first on the stream.
LEMMA UnreadTail == UnreadShrinks
<1> SUFFICES ASSUME NEW q, NEW n \in Nat, NEW m \in Nat, n < m,
                    \A i \in n + 1 .. m : q[i] \in Texts
             PROVE  Begins(Flatten(Unread(q, n, m)), q[n + 1], Flatten(Unread(q, n + 1, m)))
  BY Zenon DEF UnreadShrinks
<1>0. PICK k \in Nat : m - n = k + 1 /\ m - (n + 1) = k
  OBVIOUS
<1>1. PICK u, v : u = Unread(q, n, m) /\ v = Unread(q, n + 1, m)
  OBVIOUS
<1>2. u = [i \in 1 .. k + 1 |-> q[n + i]] /\ v = [i \in 1 .. k |-> q[n + 1 + i]]
  BY <1>0, <1>1, Zenon DEF Unread
<1>3. ASSUME NEW i \in 1 .. k + 1 PROVE q[n + i] \in Texts
  <2>1. n + i \in n + 1 .. m
    BY <1>0
  <2> QED BY <2>1
<1>4. u \in [1 .. k + 1 -> Texts]
  BY <1>2, <1>3, Zenon
<1>5. u \in Seq(Texts) /\ Len(u) = k + 1
  BY <1>4
<1>6. ASSUME NEW i \in 1 .. k PROVE v[i] = u[i + 1]
  <2>1. i + 1 \in 1 .. k + 1 /\ n + (i + 1) = n + 1 + i
    OBVIOUS
  <2> QED BY <1>2, <2>1, Zenon
<1>7. v = [i \in 1 .. k |-> v[i]]
  BY <1>2
<1>8. u # <<>> /\ v = Tail(u) /\ v \in Seq(Texts)
  BY ONLY <1>5, <1>6, <1>7, TailIs, Zenon
<1>9. Flatten(u) = u[1] \o Flatten(Tail(u))
  BY <1>5, <1>8, FlattenTail, Zenon
<1>10. u[1] = q[n + 1]
  BY <1>2
<1>11. Flatten(v) \in Texts
  BY <1>8, FlattenType, Zenon
<1> QED BY <1>1, <1>8, <1>9, <1>10, <1>11, Zenon DEF Begins

\* The same of the responses, which are written in any order.
LEMMA UnseenAppend == UnseenGrows
<1> SUFFICES ASSUME NEW q, NEW p
             PROVE  \A d \in Seq(Goroutines), g \in Goroutines :
                       /\ p[g] \in Texts
                       /\ \A i \in 1 .. Len(d) : q[d[i]] \in Texts /\ p[d[i]] = q[d[i]]
                       => Flatten(Unseen(p, Append(d, g))) = Flatten(Unseen(q, d)) \o p[g]
  BY Zenon DEF UnseenGrows
<1> TAKE d \in Seq(Goroutines), g \in Goroutines
<1> HAVE /\ p[g] \in Texts
         /\ \A i \in 1 .. Len(d) : q[d[i]] \in Texts /\ p[d[i]] = q[d[i]]
<1>1. PICK u, e : u = Unseen(q, d) /\ e = Append(d, g)
  BY Zenon
<1>2. u \in [1 .. Len(d) -> Texts] /\ \A i \in 1 .. Len(d) : u[i] = q[d[i]]
  BY <1>1 DEF Unseen
<1>3. u \in Seq(Texts) /\ Len(u) = Len(d) /\ Len(d) \in Nat
  BY <1>2
<1>4. /\ Len(e) = Len(d) + 1 /\ e[Len(d) + 1] = g
      /\ \A i \in 1 .. Len(d) : e[i] = d[i]
  BY <1>1
<1>5. PICK v : v = Unseen(p, e)
  OBVIOUS
<1>6. DOMAIN v = 1 .. Len(d) + 1 /\ v = [i \in 1 .. Len(d) + 1 |-> p[e[i]]]
  BY <1>4, <1>5 DEF Unseen
<1>7. v = Append(u, p[g])
  <2>1. Append(u, p[g]) = [i \in 1 .. Len(d) + 1 |-> IF i = Len(d) + 1 THEN p[g] ELSE u[i]]
    BY <1>3
  <2>2. ASSUME NEW i \in 1 .. Len(d) + 1
        PROVE  p[e[i]] = IF i = Len(d) + 1 THEN p[g] ELSE u[i]
    <3>1. CASE i = Len(d) + 1
      BY SMTT(30), <1>4, <3>1
    <3>2. CASE i # Len(d) + 1
      <4>1. i \in 1 .. Len(d)
        BY SMTT(30), <1>3, <3>2
      <4> QED BY SMTT(30), <1>2, <1>4, <3>2, <4>1
    <3> QED BY <3>1, <3>2
  <2> QED BY <1>6, <2>1, <2>2, Zenon
<1>8. Flatten(Append(u, p[g])) = Flatten(u) \o p[g]
  BY <1>3, FlattenAppend, Zenon
<1> QED BY <1>1, <1>5, <1>7, <1>8, Zenon

\* The first of the responses is the first on the stream.
LEMMA UnseenTail == UnseenShrinks
<1> SUFFICES ASSUME NEW q, NEW d \in Seq(Goroutines), d # <<>>,
                    \A i \in 1 .. Len(d) : q[d[i]] \in Texts
             PROVE  Begins(Flatten(Unseen(q, d)), q[d[1]], Flatten(Unseen(q, Tail(d))))
  BY Zenon DEF UnseenShrinks
<1>0. PICK k \in Nat : Len(d) = k + 1
  <2>1. Len(d) \in Nat /\ Len(d) - 1 \in Nat /\ Len(d) = (Len(d) - 1) + 1
    OBVIOUS
  <2> QED BY <2>1, Zenon
<1>1. PICK u, e, v : u = Unseen(q, d) /\ e = Tail(d) /\ v = Unseen(q, e)
  BY Zenon
<1>2. Len(e) = k /\ \A i \in 1 .. k : e[i] = d[i + 1]
  BY <1>0, <1>1
<1>3. u = [i \in 1 .. k + 1 |-> q[d[i]]] /\ v = [i \in 1 .. k |-> q[e[i]]]
  BY <1>0, <1>1, <1>2, Zenon DEF Unseen
<1>4. u \in [1 .. k + 1 -> Texts]
  BY <1>0, <1>3, Zenon
<1>5. u \in Seq(Texts) /\ Len(u) = k + 1
  BY <1>4
<1>6. ASSUME NEW i \in 1 .. k PROVE v[i] = u[i + 1]
  <2>1. i + 1 \in 1 .. k + 1
    OBVIOUS
  <2> QED BY <1>2, <1>3, <2>1, Zenon
<1>7. v = [i \in 1 .. k |-> v[i]]
  BY <1>3
<1>8. u # <<>> /\ v = Tail(u) /\ v \in Seq(Texts)
  BY ONLY <1>5, <1>6, <1>7, TailIs, Zenon
<1>9. Flatten(u) = u[1] \o Flatten(Tail(u))
  BY <1>5, <1>8, FlattenTail, Zenon
<1>10. u[1] = q[d[1]]
  BY <1>3
<1>11. Flatten(v) \in Texts
  BY <1>8, FlattenType, Zenon
<1> QED BY <1>1, <1>8, <1>9, <1>10, <1>11, Zenon DEF Begins

\* The getters read what send has set.
LEMMA RequestGets == RequestsTell
<1> SUFFICES ASSUME NEW w, Proper(w), NEW s, Numbered(s), NEW r, r = NewRequest(w, NewMessage, s)
             PROVE  Gets(r, w, s)
  BY Zenon DEF RequestsTell
<1>1. s \in Nat /\ s < 256 * 256 * 256 * 256
  BY SMTT(30) DEF Numbered
<1>2. PICK f, c, meta, payload :
         /\ f = FlagsOf(w) /\ c = CodecOf(w)
         /\ meta = IF Heartbeat(w) THEN {} ELSE w.meta
         /\ payload = IF Heartbeat(w) THEN <<>> ELSE PayloadOf(w)
  BY Zenon
<1>0. r = Named(f, c, s, w, meta, payload)
  BY <1>1, <1>2, RequestFacts, Zenon
<1>3. f \in {0, 4, 64} /\ c \in {0, 16, 32}
  BY ZenonT(40), <1>1, <1>2, RequestFacts
<1>4. /\ r.header = Header(f, c, s) /\ r.path = w.path /\ r.method = w.method
      /\ r.meta = meta /\ r.payload = payload
  BY ONLY <1>0, SMT DEF Named
<1>5. f \in Flags
  BY SMTT(30), <1>3 DEF Flags
<1>6. /\ f \in Bytes /\ c \in Bytes
      /\ MessageType(r.header) = IF f \in {0, 4, 64} THEN Request ELSE Response
      /\ IsHeartbeat(r.header) <=> f \in {64, 192}
      /\ CompressType(r.header) = IF f \in {4, 132, 133} THEN Gzip ELSE None
      /\ MessageStatusType(r.header) = IF f \in {129, 133} THEN Error ELSE Normal
      /\ SerializeType(r.header) = IF c = 0 THEN 0 ELSE IF c = 16 THEN 1 ELSE 2
  <2>1. PICK h : h = Header(f, c, s)
    BY ONLY Zenon
  <2>2. r.header = h
    BY ONLY <1>4, <2>1, Zenon
  <2> QED BY ONLY <1>1, <1>3, <1>5, <2>1, <2>2, HeaderGets, SMT
<1>7. Seq64(r.header) = s
  BY ONLY <1>1, <1>4, <1>6, HeaderSeq, SMT
<1>8. MessageType(r.header) = Request /\ MessageStatusType(r.header) = Normal
  BY <1>3, <1>6, SMT
<1>9. IsHeartbeat(r.header) <=> Heartbeat(w)
  <2>1. f \in {64, 192} <=> Heartbeat(w)
    BY <1>2, SMT DEF FlagsOf
  <2> QED BY ONLY SMTT(30), <1>6, <2>1
<1>10. CompressType(r.header) = Gzip <=> Zips(w)
  <2>1. f \in {4, 132, 133} <=> Zips(w)
    BY SMTT(30), <1>2 DEF FlagsOf, Zips
  <2> QED BY ONLY SMTT(30), <1>6, <2>1 DEF Gzip, None
<1>11. ~Heartbeat(w) => SerializeType(r.header) = w.serialize
  <2>1. w.serialize \in {0, 1, 2}
    BY DEF Proper, WishType, Codecs
  <2>2. ~Heartbeat(w) => c = 16 * w.serialize
    BY ONLY <1>2, Zenon DEF CodecOf
  <2> QED BY ONLY <1>6, <2>1, <2>2, SMT
<1>12. ~Heartbeat(w) => r.meta = w.meta /\ r.payload = PayloadOf(w)
  BY ONLY <1>2, <1>4, Zenon
<1> QED BY ONLY <1>4, <1>7, <1>8, <1>9, <1>10, <1>11, <1>12, Zenon DEF Gets

\* What send writes can be sent.
LEMMA RequestsAreSound == RequestsSound
BY RequestFacts, Zenon DEF RequestsSound

\* All that the steps of Exchange need to know.
LEMMA WireHolds == Wire
<1>1. Flatten(<<>>) = <<>>
  BY FlattenType
<1> QED
  BY <1>1, RoundTrip, RequestsAreSound, RequestGets, WrittenFacts, UnreadAppend,
     UnreadTail, UnseenAppend, UnseenTail DEF Wire

-----------------------------------------------------------------------------
(* The theorems. *)

\* IndInv is an invariant of the exchange of requests and responses.
THEOREM ExchangeInductive == Spec => []IndInv
<1>1. Init => IndInv
  BY InitInd, WireHolds
<1>2. IndInv /\ [Next]_vars => IndInv'
  BY NextInd, WireHolds
<1> QED BY <1>1, <1>2, PTL DEF Spec

\* The server reads what the client has put into its request: every field,
\* for every call, however many messages share the stream and the pool.
THEOREM RequestsIntact == Spec => []RequestIntact
<1>1. IndInv => RequestIntact
  BY IntactStep, WireHolds
<1> QED BY <1>1, ExchangeInductive, PTL

\* A call ends without an error exactly when its own method returned nil.
THEOREM ResultsAreTheMethods == Spec => []ResultIsTheMethods
<1>1. IndInv => ResultIsTheMethods
  BY DEF IndInv
<1> QED BY <1>1, ExchangeInductive, PTL

\* A call gets the metadata of its own method and its own error, only.
THEOREM MetadataAreTheMethods == Spec => []MetadataIsTheMethods
<1>1. IndInv => MetadataIsTheMethods
  BY DEF IndInv
<1> QED BY <1>1, ExchangeInductive, PTL

\* Whatever FreeMsg puts into the pool is like a new message.
THEOREM PooledAreBlank == Spec => []PooledIsBlank
<1>1. IndInv => PooledIsBlank
  BY DEF IndInv, BlankInv, PooledIsBlank
<1> QED BY <1>1, ExchangeInductive, PTL
=============================================================================
