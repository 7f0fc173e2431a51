------------------------------ MODULE Message ------------------------------
(***************************************************************************)
(* protocol/message.go: the header of twelve bytes, whose setters OR their *)
(* argument into it, and the format of a message on the wire.              *)
(*                                                                         *)
(* Strings and payloads are texts, sequences of bytes.  Metadata is a set  *)
(* of pairs <<key, value>>.  Byte i of the Go array is element i + 1.      *)
(***************************************************************************)
EXTENDS Integers, Sequences, FiniteSets, Functions

Bytes == 0 .. 255
Texts == Seq(Bytes)
Metadata == SUBSET (Texts \X Texts)

Request == 0
Response == 1
Normal == 0
Error == 1
None == 0
Gzip == 1

NewHeader == <<8, 0, 0, 0, 0, 0, 0, 0, 0, 0, 0, 0>>

\* Metadata that is nil and metadata that is empty read alike.
NewMessage ==
    [header |-> NewHeader, path |-> <<>>, method |-> <<>>, meta |-> {},
     payload |-> <<>>]

-----------------------------------------------------------------------------
(* The header. *)

\* A byte as the set of its bits that are 1, bit i having the weight 2^(i - 1).
Weight == <<1, 2, 4, 8, 16, 32, 64, 128>>
Bits(b) == {i \in 1 .. 8 : (b \div Weight[i]) % 2 = 1}
FromBits(s) ==
    LET bit(i) == IF i \in s THEN Weight[i] ELSE 0
    IN bit(1) + bit(2) + bit(3) + bit(4) + bit(5) + bit(6) + bit(7) + bit(8)

Or(x, y) == FromBits(Bits(x) \cup Bits(y))
And(x, y) == FromBits(Bits(x) \cap Bits(y))
AndNot(x, y) == FromBits(Bits(x) \ Bits(y))

OrInto(h, i, bits) == [h EXCEPT ![i] = Or(@, bits % 256)]

MessageType(h) == And(h[3], 128) \div 128
SetMessageType(h, mt) == OrInto(h, 3, mt * 128)

IsHeartbeat(h) == And(h[3], 64) = 64
SetHeartbeat(h, hb) == [h EXCEPT ![3] = IF hb THEN Or(@, 64) ELSE AndNot(@, 64)]

IsOneway(h) == And(h[3], 32) = 32

CompressType(h) == And(h[3], 28) \div 4
SetCompressType(h, ct) == OrInto(h, 3, And((ct * 4) % 256, 28))

MessageStatusType(h) == And(h[3], 3)
SetMessageStatusType(h, st) == OrInto(h, 3, And(st, 3))

SerializeType(h) == And(h[4], 240) \div 16
SetSerializeType(h, st) == OrInto(h, 4, st * 16)

\* binary.BigEndian.PutUint32 and Uint32, for the lengths that occur here.
Uint32Bytes(n) ==
    <<(n \div (256 * 256 * 256)) % 256, (n \div (256 * 256)) % 256,
      (n \div 256) % 256, n % 256>>
Uint32(b) == ((b[1] * 256 + b[2]) * 256 + b[3]) * 256 + b[4]

\* A sequence number, of which the model uses the lower half only.
Seq64(h) == Uint32(<<h[9], h[10], h[11], h[12]>>)
SetSeq(h, seq) ==
    [i \in 1 .. 12 |-> IF i <= 4 THEN h[i]
                       ELSE IF i <= 8 THEN 0 ELSE Uint32Bytes(seq)[i - 8]]

-----------------------------------------------------------------------------
(* The wire format. *)

WithLength(s) == Uint32Bytes(Len(s)) \o s

\* Texts one after the other, and the elements of a set in some order.
Flatten(texts) ==
    LET first[n \in 0 .. Len(texts)] ==
            IF n = 0 THEN <<>> ELSE first[n - 1] \o texts[n]
    IN first[Len(texts)]
Order(S) == CHOOSE f \in [1 .. Cardinality(S) -> S] : IsInjective(f)

\* The map is written in some order, and read back as a map.
encodeMetadata(meta) ==
    Flatten([i \in 1 .. Cardinality(meta) |->
        LET kv == Order(meta)[i] IN WithLength(kv[1]) \o WithLength(kv[2])])

\* A fault: the total leaves out the length field of the payload.
EncodeShort(m) ==
    LET body == WithLength(m.path) \o WithLength(m.method)
                \o WithLength(encodeMetadata(m.meta)) \o WithLength(m.payload)
    IN m.header \o Uint32Bytes(Len(body) - 4) \o body

Encode(m) ==
    LET body == WithLength(m.path) \o WithLength(m.method)
                \o WithLength(encodeMetadata(m.meta)) \o WithLength(m.payload)
    IN m.header \o WithLength(body)

\* The field at offset n of data: its length, and its bytes after it.
FieldLen(data, n) == Uint32(SubSeq(data, n + 1, n + 4))
Field(data, n) == SubSeq(data, n + 5, n + 4 + FieldLen(data, n))
After(data, n) == n + 4 + FieldLen(data, n)

\* The offsets at which the loop of decodeMetadata begins, and then the end.
Starts(data) ==
    LET start[i \in 0 .. Len(data)] ==
            IF i = 0 THEN 0
            ELSE LET n == start[i - 1]
                 IN IF n < Len(data) THEN After(data, After(data, n)) ELSE n
    IN start

\* The keys and values of data, which encodeMetadata has written, so that no
\* length reaches past the end (ErrMetaKVMissing).
decodeMetadata(data) ==
    {<<Field(data, n), Field(data, After(data, n))>> :
        n \in {Starts(data)[i] : i \in 0 .. Len(data)} \ {Len(data)}}

\* How many bytes of the stream the first message takes; a stream that ends
\* before that is an error.  MaxMessageLength is 0, which is no limit.
FrameLen(stream) == 16 + FieldLen(stream, 12)
Complete(stream) == Len(stream) >= 16 /\ Len(stream) >= FrameLen(stream)

\* Decode into the message m, which keeps its metadata if there is none to
\* read.  The length of the payload is skipped: it goes to the end.
Decode(m, stream) ==
    LET data == SubSeq(stream, 17, FrameLen(stream))
        meth == After(data, 0)
        meta == After(data, meth)
        pay  == After(data, meta)
    IN [header |-> SubSeq(stream, 1, 12),
        path |-> Field(data, 0),
        method |-> Field(data, meth),
        meta |-> IF FieldLen(data, meta) > 0
                   THEN decodeMetadata(Field(data, meta)) ELSE m.meta,
        payload |-> SubSeq(data, pay + 5, Len(data))]

\* A fault: the response starts with the metadata of the request.
CopyMetadata(m, pooled) ==
    [pooled EXCEPT !.header = m.header, !.path = m.path, !.method = m.method,
                   !.meta = m.meta]

\* Copy takes over the header and the names, into a message of the pool.
Copy(m, pooled) ==
    [pooled EXCEPT !.header = m.header, !.path = m.path, !.method = m.method]

\* A fault: Reset leaves the header to the next user.
ResetKeepsHeader(m) == [NewMessage EXCEPT !.header = m.header]

\* Reset leaves the magic number as it is.
Reset(m) == [NewMessage EXCEPT !.header = [NewHeader EXCEPT ![1] = m.header[1]]]
=============================================================================
