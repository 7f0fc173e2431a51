--------------------------- MODULE ExchangeSteps ----------------------------
(***************************************************************************)
(* Every step of Exchange keeps the inductive invariant.                   *)
(***************************************************************************)
EXTENDS ExchangeInv, FiniteSetTheorems, TLAPS

-----------------------------------------------------------------------------
(* Facts about the constants, and about what does not change. *)

\* Streams with nothing in them, and streams of the same texts.
LEMMA EmptyText == <<>> \in Texts
BY DEF Texts

\* Nothing is on the stream when all has been read.
LEMMA UnreadNone ==
  ASSUME Wire, NEW q, NEW n \in Nat
  PROVE  Flatten(Unread(q, n, n)) = <<>>
<1>1. Unread(q, n, n) = <<>>
  BY DEF Unread
<1> QED BY <1>1, Wire, Zenon DEF Wire

\* Only the texts that are still to be read matter.
LEMMA UnreadSame ==
  ASSUME NEW q, NEW p, NEW n \in Nat, NEW m \in Nat,
         \A i \in n + 1 .. m : p[i] = q[i]
  PROVE  Unread(p, n, m) = Unread(q, n, m)
<1>1. ASSUME NEW i \in 1 .. m - n PROVE p[n + i] = q[n + i]
  <2>1. n + i \in n + 1 .. m
    OBVIOUS
  <2> QED BY <2>1
<1> QED BY <1>1, Zenon DEF Unread

\* Nothing is on the stream when every response has been read.
LEMMA UnseenNone ==
  ASSUME Wire
  PROVE  \A q : Flatten(Unseen(q, <<>>)) = <<>>
<1>1. ASSUME NEW q PROVE Unseen(q, <<>>) = <<>>
  BY DEF Unseen
<1> QED BY <1>1, Wire, Zenon DEF Wire

\* Only the texts that are listed matter.
LEMMA UnseenSame ==
  ASSUME NEW q, NEW p, NEW d, \A i \in 1 .. Len(d) : p[d[i]] = q[d[i]]
  PROVE  Unseen(p, d) = Unseen(q, d)
BY Zenon DEF Unseen

\* What ExchangeAssumption says of the constants alone.
LEMMA Constants ==
  /\ IsFiniteSet(Calls) /\ Cardinality(Calls) \in Nat /\ FirstSeq \in Nat
  /\ nil \notin Calls /\ nil # "nil" /\ nil # "ServiceError" /\ nil # "ErrShutdown"
  /\ nil # "reader's err"
<1>1. IsFiniteSet(Calls) /\ FirstSeq \in Nat /\ nil \notin Calls
  BY ExchangeAssumption, Zenon
<1>2. nil \notin {"nil", "ServiceError", "ErrShutdown", "reader's err"}
  BY ExchangeAssumption, Zenon
<1>3. Cardinality(Calls) \in Nat
  BY <1>1, FS_CardinalityType
<1> QED BY <1>1, <1>2, <1>3, Zenon

\* The numbers of the requests fit into the header.
LEMMA NumberFacts ==
  /\ \A g \in Goroutines : /\ g \in Nat /\ g > 0 /\ Number(g) \in Numbers
                           /\ Number(g) \in Nat /\ Numbered(Number(g))
  /\ \A f, g \in Goroutines : Number(f) = Number(g) => f = g
  /\ \A s \in Numbers : \E g \in Goroutines : Number(g) = s
  /\ \A n \in Nat : n < Cardinality(Calls) =>
        n + 1 \in Goroutines /\ Number(n + 1) = FirstSeq + n
<1>0. FirstSeq + Cardinality(Calls) < 64 * 256 * 256 * 256
  BY ExchangeAssumption, Zenon
<1>a. PICK c \in Nat, f \in Nat : c = Cardinality(Calls) /\ f = FirstSeq
  BY Constants, Zenon
<1>1. /\ c = Cardinality(Calls) /\ f = FirstSeq /\ c \in Nat /\ f \in Nat
      /\ f + c < 64 * 256 * 256 * 256
  BY <1>0, <1>a, Zenon
<1>2. /\ Goroutines = 1 .. c /\ Numbers = f .. f + c - 1
      /\ \A g : Number(g) = f + g - 1
  BY <1>1, Zenon DEF Goroutines, Numbers, Number
<1>3. ASSUME NEW g \in Goroutines
      PROVE  /\ g \in Nat /\ g > 0 /\ Number(g) \in Numbers
             /\ Number(g) \in Nat /\ Numbered(Number(g))
  BY <1>1, <1>2, SMT DEF Numbered
<1>4. \A x, g \in Goroutines : Number(x) = Number(g) => x = g
  BY <1>1, <1>2, SMT
<1>5. ASSUME NEW s \in Numbers PROVE \E g \in Goroutines : Number(g) = s
  <2>1. s - f + 1 \in Goroutines /\ Number(s - f + 1) = s
    BY <1>1, <1>2, SMT
  <2> QED BY <2>1
<1>6. \A n \in Nat : n < Cardinality(Calls) =>
        n + 1 \in Goroutines /\ Number(n + 1) = FirstSeq + n
  BY <1>1, <1>2, SMT
<1> QED BY <1>3, <1>4, <1>5, <1>6

\* What the calls ask for can be sent, and arguments tell calls apart.
LEMMA WishFacts ==
  ASSUME TypeOK
  PROVE  /\ \A c \in Calls : Proper(want[c])
         /\ \A c, d \in Calls : want[c].args = want[d].args => c = d
<1>1. \A c \in Calls : want[c] \in Wishes[c]
  BY Zenon DEF TypeOK
<1>2. ASSUME NEW c \in Calls, NEW w \in Wishes[c] PROVE Proper(w)
  BY ExchangeAssumption, Zenon DEF Proper
<1>3. ASSUME NEW c \in Calls, NEW d \in Calls, want[c].args = want[d].args, c # d
      PROVE  FALSE
  <2>1. \A w \in Wishes[c] : \A x \in Calls \ {c} : \A v \in Wishes[x] : v.args # w.args
    BY ExchangeAssumption, Zenon
  <2>2. d \in Calls \ {c}
    BY <1>3
  <2> QED BY <1>1, <1>3, <2>1, <2>2, Zenon
<1> QED BY <1>1, <1>2, <1>3, Zenon

\* The owner of a number, and the request that it stands for.
LEMMA OwnerFacts ==
  ASSUME Wire, TypeOK, NEW g \in Goroutines
  PROVE  /\ Owner(pending, g) \in Calls \cup {nil}
         /\ Owner(pending, g) # nil =>
               /\ Owner(pending, g) \in Calls
               /\ Proper(want[Owner(pending, g)])
               /\ Sound(RequestOf(want, pending, g))
<1>1. Owner(pending, g) \in Calls \cup {nil}
  BY NumberFacts, Zenon DEF TypeOK, Owner
<1>2. ASSUME Owner(pending, g) # nil
      PROVE  /\ Owner(pending, g) \in Calls
             /\ Proper(want[Owner(pending, g)])
             /\ Sound(RequestOf(want, pending, g))
  <2>1. Owner(pending, g) \in Calls
    BY <1>1, <1>2
  <2>2. Proper(want[Owner(pending, g)])
    BY <2>1, WishFacts, Zenon
  <2>3. Number(g) \in Nat
    BY NumberFacts, Zenon
  <2>4. Sound(RequestOf(want, pending, g))
    BY <2>2, <2>3, Wire, Zenon DEF RequestOf, Wire, RequestsSound
  <2> QED BY <2>1, <2>2, <2>4
<1> QED BY <1>1, <1>2, Zenon

\* The response to it, once there is one.
LEMMA AnswerOf ==
  ASSUME Wire, TypeOK, NEW g \in Goroutines, Owner(pending, g) # nil,
         NEW c, c = Owner(pending, g),
         IF Heartbeat(want[c]) THEN c \notin ran
                               ELSE Outcome(res[g], want, pending, ran, g)
  PROVE  /\ c \in Calls
         /\ ~Heartbeat(want[c]) => res[g].header[1] = 8
         /\ Answers(ResponseOf(res, want, pending, ran, g), Number(g), want[c], c \in ran)
<1>1. c \in Calls /\ Proper(want[c]) /\ Numbered(Number(g))
  BY OwnerFacts, NumberFacts, Zenon
<1>0. PICK called \in BOOLEAN : called = (c \in ran)
  <2>1. CASE c \in ran
    <3>1. TRUE = (c \in ran)
      BY <2>1
    <3> QED BY <3>1, Zenon
  <2>2. CASE c \notin ran
    <3>1. FALSE = (c \in ran)
      BY <2>2
    <3> QED BY <3>1, Zenon
  <2> QED BY <2>1, <2>2
<1>2. PICK w, r, x, s : /\ w = want[c] /\ r = RequestOf(want, pending, g)
                        /\ x = res[g] /\ s = Number(g)
  OBVIOUS
<1>3. r = NewRequest(w, NewMessage, s)
  BY <1>2, Zenon DEF RequestOf
<1>4. IF Heartbeat(w) THEN c \notin ran
                      ELSE Outcome(res[g], want, pending, ran, g)
  BY <1>2, Zenon
<1>5. ~Heartbeat(w) => Filled(x, r, w, called)
  BY <1>0, <1>2, <1>4 DEF Outcome
<1>6. Heartbeat(w) => ~called
  BY <1>0, <1>4, Zenon
<1>7. /\ Answers(Written(x, r, w, called), s, w, called)
      /\ ~Heartbeat(w) => x.header[1] = 8
  BY ZenonT(40), <1>1, <1>2, <1>3, <1>5, <1>6, Wire DEF Wire, ResponsesTell
<1>8. ResponseOf(res, want, pending, ran, g) = Written(x, r, w, called)
  BY <1>0, <1>2 DEF ResponseOf
<1>10. Answers(ResponseOf(res, want, pending, ran, g), Number(g), want[c], c \in ran)
  BY <1>0, <1>2, <1>7, <1>8
<1> QED BY <1>1, <1>2, <1>7, <1>10, Zenon

\* The same of the responses that are made or written.
LEMMA AnswerFacts ==
  ASSUME Wire, TypeOK, HandledInv, NEW g \in Goroutines, Owner(pending, g) # nil,
         serving[g] \in {"handled", "over"}, NEW c, c = Owner(pending, g)
  PROVE  /\ c \in Calls
         /\ IF Heartbeat(want[c]) THEN serving[g] = "over" /\ c \notin ran
                                  ELSE Outcome(res[g], want, pending, ran, g)
         /\ ~Heartbeat(want[c]) => res[g].header[1] = 8
         /\ Answers(ResponseOf(res, want, pending, ran, g), Number(g), want[c], c \in ran)
<1>1. IF Heartbeat(want[c]) THEN serving[g] = "over" /\ c \notin ran
                            ELSE Outcome(res[g], want, pending, ran, g)
  BY Zenon DEF HandledInv
<1>2. IF Heartbeat(want[c]) THEN c \notin ran ELSE Outcome(res[g], want, pending, ran, g)
  BY <1>1, Zenon
<1> QED BY <1>1, <1>2, AnswerOf, Zenon

\* What an invariant is about does not change: neither does the invariant.
LEMMA FrameTable ==
  ASSUME TableInv, UNCHANGED <<seq, pending, serving, result>>
  PROVE  TableInv'
BY Zenon DEF TableInv, Sent

\* UpInv depends on what is sent and on who is served.
LEMMA FrameUp ==
  ASSUME UpInv, UNCHANGED <<want, seq, pending, serving, up>>
  PROVE  UpInv'
BY Zenon DEF UpInv, Sent

\* ReadInv depends on the requests of those that are served.
LEMMA FrameRead ==
  ASSUME ReadInv, UNCHANGED <<want, pending, serving, req>>
  PROVE  ReadInv'
BY Zenon DEF ReadInv

\* RanInv depends on who has begun and on who is served.
LEMMA FrameRan ==
  ASSUME RanInv, UNCHANGED <<want, pending, serving, ran, result>>
  PROVE  RanInv'
BY Zenon DEF RanInv

\* HandledInv depends on the responses of those that are served.
LEMMA FrameHandled ==
  ASSUME HandledInv, UNCHANGED <<want, pending, serving, res, ran>>
  PROVE  HandledInv'
BY Zenon DEF HandledInv

\* DownInv depends on the stream and on what the responses are.
LEMMA FrameDown ==
  ASSUME DownInv, UNCHANGED <<want, pending, serving, res, ran, down>>
  PROVE  DownInv'
BY Zenon DEF DownInv

\* What the calls have been told depends on nothing else.
LEMMA FrameResults ==
  ASSUME ResultIsTheMethods, MetadataIsTheMethods,
         UNCHANGED <<want, ran, result, resMetadata>>
  PROVE  ResultIsTheMethods' /\ MetadataIsTheMethods'
BY Zenon DEF ResultIsTheMethods, MetadataIsTheMethods

\* Registering a service, or nothing.
LEMMA RegisterStep ==
  ASSUME IndInv, UNCHANGED <<want, clientVars, up, down, serverVars, pool, doneVars>>
  PROVE  IndInv'
<1>1. UNCHANGED <<want, seq, pending, creq, up, down, serving, req, res, ran, pool,
                  rmsg, result, resMetadata>>
  BY DEF clientVars, serverVars, doneVars
<1>2. TypeOK' /\ BlankInv'
  BY <1>1, Zenon DEF IndInv, TypeOK, BlankInv
<1>3. TableInv' /\ UpInv' /\ ReadInv' /\ RanInv'
  BY <1>1, FrameTable, FrameUp, FrameRead, FrameRan, Zenon DEF IndInv
<1>4. HandledInv' /\ DownInv' /\ ResultIsTheMethods' /\ MetadataIsTheMethods'
  BY <1>1, FrameHandled, FrameDown, FrameResults, Zenon DEF IndInv
<1> QED BY <1>2, <1>3, <1>4, Zenon DEF IndInv

\* A message that has the magic number is blank after Reset.
LEMMA ResetFacts ==
  ASSUME NEW x, x.header[1] = 8
  PROVE  Reset(x) = NewMessage
<1>1. NewHeader[1] = 8 /\ NewHeader \in [1 .. 12 -> Nat]
  BY DEF NewHeader
<1>2. [NewHeader EXCEPT ![1] = 8] = NewHeader
  BY <1>1
<1>3. PICK h, e, n : h = NewHeader /\ e = <<>> /\ n = {}
  OBVIOUS
<1>4. NewMessage = [header |-> h, path |-> e, method |-> e, meta |-> n, payload |-> e]
  BY <1>3, Zenon DEF NewMessage
<1>5. [NewMessage EXCEPT !.header = h] = NewMessage
  BY <1>4
<1> QED BY <1>2, <1>3, <1>5, Zenon DEF Reset

\* send frees its message.
LEMMA FreeRequestStep ==
  ASSUME IndInv, NEW c \in Calls, FreeRequest(c)
  PROVE  IndInv'
<1>1. UNCHANGED <<want, seq, pending, up, down, serving, req, res, ran, rmsg, result,
                  resMetadata>>
  BY DEF FreeRequest, serverVars, doneVars
<1>2. TypeOK'
  <2>1. DOMAIN creq' = Calls
    BY Zenon DEF FreeRequest, IndInv, TypeOK
  <2> QED BY <1>1, <2>1, Zenon DEF IndInv, TypeOK
<1>3. BlankInv'
  <2>1. creq[c] # nil /\ pool' = pool \cup {Reset(creq[c])}
    BY DEF FreeRequest
  <2>2. creq[c].header[1] = 8
    BY <2>1, Zenon DEF IndInv, BlankInv
  <2>3. Reset(creq[c]) = NewMessage
    BY <2>2, ResetFacts, Zenon
  <2>4. pool' \subseteq {NewMessage}
    BY <2>1, <2>3 DEF IndInv, BlankInv
  <2>5. ASSUME NEW d \in Calls, creq'[d] # nil PROVE creq'[d].header[1] = 8
    <3>1. creq'[d] = creq[d]
      BY <2>5, Zenon DEF FreeRequest, IndInv, TypeOK
    <3> QED BY <2>5, <3>1, Zenon DEF IndInv, BlankInv
  <2> QED BY <1>1, <2>4, <2>5, Zenon DEF IndInv, BlankInv
<1>4. TableInv' /\ UpInv' /\ ReadInv' /\ RanInv'
  BY <1>1, FrameTable, FrameUp, FrameRead, FrameRan, Zenon DEF IndInv
<1>5. HandledInv' /\ DownInv' /\ ResultIsTheMethods' /\ MetadataIsTheMethods'
  BY <1>1, FrameHandled, FrameDown, FrameResults, Zenon DEF IndInv
<1> QED BY <1>2, <1>3, <1>4, <1>5, Zenon DEF IndInv

\* The calls that have begun are finitely many.
LEMMA BegunFacts ==
  ASSUME NEW R, NEW P
  PROVE  /\ Begun(R, P) \subseteq Calls /\ IsFiniteSet(Begun(R, P))
         /\ Cardinality(Begun(R, P)) \in Nat
<1>1. Begun(R, P) \subseteq Calls
  BY DEF Begun
<1>2. IsFiniteSet(Begun(R, P))
  BY <1>1, Constants, FS_Subset, Zenon
<1> QED BY <1>1, <1>2, FS_CardinalityType

\* More calls, more of them begun.
LEMMA BegunGrows ==
  ASSUME NEW R, NEW P, NEW S, NEW Q, Begun(R, P) \subseteq Begun(S, Q)
  PROVE  Cardinality(Begun(R, P)) <= Cardinality(Begun(S, Q))
BY BegunFacts, FS_Subset

\* How many requests have been written is a number.
LEMMA SentFacts ==
  ASSUME TypeOK
  PROVE  /\ Sent \in Nat /\ Sent <= Cardinality(Calls)
         /\ seq \in Nat /\ seq = FirstSeq + Sent
<1>1. seq \in FirstSeq .. FirstSeq + Cardinality(Calls)
  BY Zenon DEF TypeOK
<1>0. PICK s : s = seq
  OBVIOUS
<1>2. PICK f \in Nat, k \in Nat : f = FirstSeq /\ k = Cardinality(Calls) /\ s = seq
  BY <1>0, Constants, Zenon
<1>3. s \in f .. f + k
  BY <1>1, <1>2, Zenon
<1>4. s - f \in Nat /\ s - f <= k /\ s \in Nat /\ s = f + (s - f)
  BY <1>3
<1> QED BY <1>2, <1>4, Zenon DEF Sent

\* Sent is bounded by what only grows.
LEMMA SentBound ==
  ASSUME TypeOK, TableInv, NEW R, NEW P, Begun(result, pending) \subseteq Begun(R, P)
  PROVE  Sent <= Cardinality(Begun(R, P))
<1>1. Cardinality(Begun(result, pending)) <= Cardinality(Begun(R, P))
  BY BegunGrows
<1>2. PICK a \in Nat, b \in Nat, s \in Nat :
         /\ a = Cardinality(Begun(result, pending)) /\ b = Cardinality(Begun(R, P))
         /\ s = Sent
  BY SentFacts, BegunFacts, Zenon
<1>3. s <= a /\ a <= b
  BY <1>1, <1>2, Zenon DEF TableInv
<1>4. s <= b
  BY <1>3
<1> QED BY <1>2, <1>4, Zenon

\* A call that send has not seen has no number.
LEMMA FreshFacts ==
  ASSUME TypeOK, NEW c \in Calls, result[c] = nil,
         c \notin {pending[s] : s \in DOMAIN pending}
  PROVE  c \notin Begun(result, pending) /\ \A g \in Goroutines : Owner(pending, g) # c
<1>1. \A g \in Goroutines : Owner(pending, g) # c
  <2>1. DOMAIN pending = Numbers
    BY Zenon DEF TypeOK
  <2> QED BY <2>1, NumberFacts DEF Owner
<1> QED BY <1>1 DEF Begun

\* send refuses the call.
LEMMA SendRefusedStep ==
  ASSUME Wire, IndInv, NEW c \in Calls, SendRefused(c)
  PROVE  IndInv'
<1>1. UNCHANGED <<want, seq, pending, creq, up, down, serving, req, res, ran, pool,
                  rmsg, resMetadata>>
  BY DEF SendRefused, serverVars, clientVars
<1>2. TypeOK /\ TableInv /\ RanInv /\ ResultIsTheMethods /\ MetadataIsTheMethods
  BY DEF IndInv
<1>3. result' = [result EXCEPT ![c] = "ErrShutdown"] /\ result[c] = nil
  BY DEF SendRefused
<1>4. \A g \in Goroutines : Owner(pending, g) # c
  BY <1>2, <1>3, FreshFacts DEF SendRefused
<1>5. /\ result'[c] = "ErrShutdown"
      /\ \A d \in Calls : d # c => result'[d] = result[d]
  BY <1>2, <1>3, Zenon DEF TypeOK
<1>6. TypeOK'
  <2>1. result' \in [Calls -> {nil, "nil", "ServiceError", "ErrShutdown", "reader's err"}]
    BY <1>2, <1>3, Zenon DEF TypeOK
  <2> QED BY <1>1, <1>2, <2>1, Zenon DEF TypeOK
<1>7. BlankInv'
  BY <1>1, Zenon DEF IndInv, BlankInv
<1>8. Begun(result, pending) \subseteq Begun(result', pending)
  <2>1. ASSUME NEW d \in Calls, result[d] # nil PROVE result'[d] # nil
    BY <1>3, <1>5, <2>1, Zenon
  <2> QED BY <2>1 DEF Begun
<1>9. TableInv'
  <2>1. Sent <= Cardinality(Begun(result', pending))
    BY <1>2, <1>8, SentBound
  <2>2. \A g \in Goroutines : Owner(pending, g) # nil =>
          result'[Owner(pending, g)] \in {nil, "reader's err"}
    <3>1. \A g \in Goroutines : Owner(pending, g) # nil => Owner(pending, g) \in Calls
      BY <1>2, OwnerFacts, Zenon
    <3> QED BY <1>2, <1>4, <1>5, <3>1, Zenon DEF TableInv
  <2> QED BY <1>1, <1>2, <2>1, <2>2, Zenon DEF TableInv, Sent
<1>10. RanInv'
  <2>1. ran \subseteq Begun(result', pending)
    BY <1>2, <1>8 DEF RanInv
  <2> QED BY <1>1, <1>2, <2>1, Zenon DEF RanInv
<1>11. ResultIsTheMethods'
  <2>1. result'[c] # "nil" /\ result'[c] # "ServiceError"
    BY <1>5
  <2> QED BY <1>1, <1>2, <1>5, <2>1, Zenon DEF ResultIsTheMethods
<1>12. MetadataIsTheMethods'
  <2>1. result'[c] \notin {"nil", "ServiceError"}
    BY <1>5
  <2>2. \A d \in Calls : result'[d] \in {"nil", "ServiceError"} =>
             result[d] \in {"nil", "ServiceError"}
    BY <1>5, <2>1, Zenon
  <2> QED BY <1>1, <1>2, <2>2, Zenon DEF MetadataIsTheMethods
<1>13. UpInv' /\ ReadInv' /\ HandledInv' /\ DownInv'
  BY <1>1, FrameUp, FrameRead, FrameHandled, FrameDown, Zenon DEF IndInv
<1> QED BY <1>6, <1>7, <1>9, <1>10, <1>11, <1>12, <1>13, Zenon DEF IndInv

\* send gives the call the next number and writes its request.
LEMMA SendStep ==
  ASSUME Wire, IndInv, NEW c \in Calls, Send(c)
  PROVE  IndInv'
<1>1. UNCHANGED <<want, down, serving, req, res, ran, pool, rmsg, result, resMetadata>>
  BY DEF Send, serverVars, doneVars
<1>2. /\ TypeOK /\ BlankInv /\ TableInv /\ UpInv /\ ReadInv /\ RanInv /\ HandledInv
      /\ DownInv
  BY DEF IndInv
<1>3. /\ result[c] = nil /\ pending' = [pending EXCEPT ![seq] = c] /\ seq' = seq + 1
      /\ up' = up \o Encode(creq'[c])
  BY DEF Send
<1>4. c \notin Begun(result, pending) /\ \A g \in Goroutines : Owner(pending, g) # c
  BY <1>2, FreshFacts DEF Send
<1>5. PICK n \in Nat : n = Sent /\ seq = FirstSeq + n
  BY <1>2, SentFacts, Zenon
<1>6. n < Cardinality(Calls)
  <2>1. PICK a \in Nat, b \in Nat :
           a = Cardinality(Begun(result, pending)) /\ b = Cardinality(Calls)
    BY BegunFacts, Constants, Zenon
  <2>2. n <= a
    BY <1>2, <1>5, <2>1, Zenon DEF TableInv
  <2>3. a < b
    <3>1. Begun(result, pending) # Calls
      BY <1>4
    <3>2. Begun(result, pending) \in SUBSET Calls /\ IsFiniteSet(Calls)
      BY BegunFacts, Constants, Zenon
    <3>3. /\ Cardinality(Begun(result, pending)) <= Cardinality(Calls)
          /\ Cardinality(Calls) = Cardinality(Begun(result, pending)) =>
                Calls = Begun(result, pending)
      BY <3>2, FS_Subset
    <3>4. a <= b /\ a # b
      BY <2>1, <3>1, <3>3, Zenon
    <3> QED BY <3>4
  <2>4. n < b
    BY <2>2, <2>3
  <2> QED BY <2>1, <2>4, Zenon
<1> DEFINE g == n + 1
<1>7. g \in Goroutines /\ Number(g) = seq /\ seq \in Numbers
  BY ZenonT(40), <1>5, <1>6, NumberFacts
<1>8. Sent' = g
  <2>1. PICK f \in Nat : f = FirstSeq
    BY Constants, Zenon
  <2>2. Sent' = ((f + n) + 1) - f
    BY <1>3, <1>5, <2>1, Zenon DEF Sent
  <2> QED BY <2>2
<1>9. /\ Owner(pending', g) = c
      /\ \A f \in Goroutines : f # g => Owner(pending', f) = Owner(pending, f)
  BY <1>2, <1>3, <1>7, NumberFacts, Zenon DEF TypeOK, Owner
<1>10. Owner(pending, g) = nil
  <2>1. ~(g <= n)
    OBVIOUS
  <2> QED BY <1>2, <1>5, <1>7, <2>1, Zenon DEF TableInv
<1>11. serving[g] = "none"
  <2>1. PICK m \in 0 .. n : \A f \in Goroutines : serving[f] # "none" <=> f <= m
    BY <1>2, <1>5, Zenon DEF UpInv
  <2>2. ~(g <= m)
    OBVIOUS
  <2> QED BY <1>7, <2>1, <2>2, Zenon
<1>12. creq' = [creq EXCEPT ![c] = NewRequest(want[c], NewMessage, seq)]
  BY <1>2, Zenon DEF Send, GetMsgs, BlankInv
<1>13. creq'[c] = RequestOf(want, pending', g)
  BY <1>2, <1>7, <1>9, <1>12, Zenon DEF TypeOK, RequestOf
<1>14. \A f \in Goroutines : f # g => RequestOf(want, pending', f) = RequestOf(want, pending, f)
  BY <1>9, Zenon DEF RequestOf
<1>15. \A f \in Goroutines : f # g =>
          ResponseOf(res, want, pending', ran, f) = ResponseOf(res, want, pending, ran, f)
  BY <1>9, <1>14, Zenon DEF ResponseOf
<1>16. TypeOK'
  <2>1. seq' \in FirstSeq .. FirstSeq + Cardinality(Calls)
    <3>1. PICK k \in Nat, f \in Nat : k = Cardinality(Calls) /\ f = FirstSeq
      BY Constants, Zenon
    <3>2. seq' = f + n + 1 /\ n < k
      BY <1>3, <1>5, <1>6, <3>1
    <3>3. seq' \in f .. f + k
      BY <3>2
    <3> QED BY <3>1, <3>3, Zenon
  <2>2. pending' \in [Numbers -> Calls \cup {nil}]
    BY <1>2, <1>3, <1>7, Zenon DEF TypeOK
  <2>3. DOMAIN creq' = Calls
    BY <1>2, <1>12, Zenon DEF TypeOK
  <2> QED BY <1>1, <1>2, <2>1, <2>2, <2>3, Zenon DEF TypeOK
<1>17. BlankInv'
  <2>1. ASSUME NEW d \in Calls, creq'[d] # nil PROVE creq'[d].header[1] = 8
    <3>1. CASE d = c
      <4>1. Proper(want[c]) /\ seq \in Nat
        BY <1>2, WishFacts, SentFacts, Zenon
      <4>2. Sound(NewRequest(want[c], NewMessage, seq))
        BY <4>1, Wire, Zenon DEF Wire, RequestsSound
      <4>3. creq'[c] = NewRequest(want[c], NewMessage, seq)
        BY <1>2, <1>12, Zenon DEF TypeOK
      <4> QED BY <3>1, <4>2, <4>3, Zenon DEF Sound
    <3>2. CASE d # c
      <4>1. creq'[d] = creq[d]
        BY <1>2, <1>12, <3>2, Zenon DEF TypeOK
      <4> QED BY <1>2, <2>1, <4>1, Zenon DEF BlankInv
    <3> QED BY <3>1, <3>2
  <2> QED BY <1>1, <1>2, <2>1, Zenon DEF BlankInv
<1>18. TableInv'
  <2>1. Begun(result, pending) \cup {c} \subseteq Begun(result, pending')
    <3>1. ASSUME NEW d \in Begun(result, pending) PROVE d \in Begun(result, pending')
      <4>1. CASE result[d] # nil
        BY <3>1, <4>1 DEF Begun
      <4>2. CASE \E f \in Goroutines : Owner(pending, f) = d
        <5>1. PICK f \in Goroutines : Owner(pending, f) = d
          BY <4>2
        <5>2. f # g
          BY <1>10, <5>1, Constants, Zenon DEF Begun
        <5> QED BY <1>9, <5>1, <5>2 DEF Begun
      <4> QED BY <3>1, <4>1, <4>2 DEF Begun
    <3>2. c \in Begun(result, pending')
      BY <1>7, <1>9 DEF Begun
    <3> QED BY <3>1, <3>2
  <2>2. Sent' <= Cardinality(Begun(result', pending'))
    <3>1. PICK a \in Nat, b \in Nat :
             a = Cardinality(Begun(result, pending)) /\ b = Cardinality(Begun(result, pending'))
      BY BegunFacts, Zenon
    <3>2. n <= a
      BY <1>2, <1>5, <3>1, Zenon DEF TableInv
    <3>3. Cardinality(Begun(result, pending) \cup {c}) = a + 1
      BY <1>4, <3>1, BegunFacts, FS_AddElement, Zenon
    <3>4. Cardinality(Begun(result, pending) \cup {c}) <= b
      BY <2>1, <3>1, BegunFacts, FS_Subset
    <3>5. n + 1 <= b
      BY <3>2, <3>3, <3>4
    <3> QED BY <1>1, <1>8, <3>1, <3>5, Zenon
  <2>3. \A f \in Goroutines : Owner(pending', f) # nil => f <= g
    <3>1. ASSUME NEW f \in Goroutines, f # g, Owner(pending', f) # nil PROVE f <= n
      BY <1>2, <1>5, <1>9, <3>1, Zenon DEF TableInv
    <3> QED BY <3>1, NumberFacts
  <2>4. \A e, f \in Goroutines :
          Owner(pending', e) = Owner(pending', f) /\ Owner(pending', f) # nil => e = f
    BY <1>2, <1>4, <1>9, Zenon DEF TableInv
  <2>5. \A f \in Goroutines : f <= g /\ serving[f] # "over" => Owner(pending', f) # nil
    <3>1. ASSUME NEW f \in Goroutines, f <= g, serving[f] # "over"
          PROVE  Owner(pending', f) # nil
      <4>1. CASE f = g
        BY <1>9, <4>1, Constants, Zenon
      <4>2. CASE f # g
        <5>1. f <= n
          BY <3>1, <4>2, NumberFacts
        <5> QED BY <1>2, <1>5, <1>9, <3>1, <4>2, <5>1, Zenon DEF TableInv
      <4> QED BY <4>1, <4>2
    <3> QED BY <3>1
  <2>6. \A f \in Goroutines : Owner(pending', f) # nil =>
          result[Owner(pending', f)] \in {nil, "reader's err"}
    <3>1. ASSUME NEW f \in Goroutines, Owner(pending', f) # nil
          PROVE  result[Owner(pending', f)] \in {nil, "reader's err"}
      <4>1. CASE f = g
        BY <1>3, <1>9, <4>1, Zenon
      <4>2. CASE f # g
        BY <1>2, <1>9, <3>1, <4>2, Zenon DEF TableInv
      <4> QED BY <4>1, <4>2, Zenon
    <3> QED BY <3>1, Zenon
  <2> QED BY <1>1, <1>8, <2>2, <2>3, <2>4, <2>5, <2>6, Zenon DEF TableInv
<1>19. UpInv'
  <2>1. PICK m \in 0 .. n : /\ \A f \in Goroutines : serving[f] # "none" <=> f <= m
                            /\ up = Flatten(Unread(Requests(want, pending), m, n))
    BY <1>2, <1>5, Zenon DEF UpInv
  <2>2. PICK q, p : q = Requests(want, pending) /\ p = Requests(want, pending')
    OBVIOUS
  <2>3. ASSUME NEW i \in m + 1 .. n PROVE q[i] \in Texts /\ p[i] = q[i]
    <3>1. i \in Goroutines /\ i # g /\ i <= n /\ ~(i <= m)
      <4>1. PICK k \in Nat : k = Cardinality(Calls) /\ n < k
        BY <1>6, Constants, Zenon
      <4>2. i \in 1 .. k /\ i # g /\ i <= n /\ ~(i <= m)
        BY <4>1
      <4> QED BY <4>1, <4>2, Zenon DEF Goroutines
    <3>2. serving[i] = "none"
      BY <2>1, <3>1, Zenon
    <3>3. Owner(pending, i) # nil
      BY <1>2, <1>5, <3>1, <3>2, Zenon DEF TableInv
    <3>4. Sound(RequestOf(want, pending, i))
      BY <1>2, <3>1, <3>3, OwnerFacts, Zenon
    <3>5. Encode(RequestOf(want, pending, i)) \in Texts
      BY <3>4, Wire, EmptyText, Zenon DEF Sound, Wire, RoundTrips
    <3> QED BY <1>14, <2>2, <3>1, <3>5, Zenon DEF Requests
  <2>4. p[n + 1] = Encode(creq'[c])
    BY <1>7, <1>13, <2>2, Zenon DEF Requests
  <2>5. p[n + 1] \in Texts
    <3>1. Owner(pending', g) # nil
      BY <1>9, Constants, Zenon
    <3>2. Proper(want[c]) /\ Number(g) \in Nat
      BY <1>2, <1>7, WishFacts, NumberFacts, Zenon
    <3>3. Sound(RequestOf(want, pending', g))
      BY <1>9, <3>2, Wire, Zenon DEF RequestOf, Wire, RequestsSound
    <3> QED BY <1>13, <2>4, <3>3, Wire, EmptyText, Zenon DEF Sound, Wire, RoundTrips
  <2>6. m \in Nat /\ m <= n
    OBVIOUS
  <2>7. Flatten(Unread(p, m, n + 1)) = Flatten(Unread(q, m, n)) \o p[n + 1]
    BY <2>3, <2>5, <2>6, Wire, Zenon DEF Wire, UnreadGrows
  <2>8. up' = Flatten(Unread(p, m, g))
    BY <1>3, <2>1, <2>2, <2>4, <2>7, Zenon
  <2>9. m \in 0 .. g
    BY <2>6
  <2> QED BY <1>1, <1>8, <2>1, <2>2, <2>8, <2>9, Zenon DEF UpInv
<1>20. ReadInv'
  <2>1. ASSUME NEW f \in Goroutines, serving[f] # "none", Owner(pending', f) # nil
        PROVE  req[f] = RequestOf(want, pending', f)
    <3>1. f # g
      BY <1>11, <2>1
    <3> QED BY <1>2, <1>9, <1>14, <2>1, <3>1, Zenon DEF ReadInv
  <2> QED BY <1>1, <2>1, Zenon DEF ReadInv
<1>21. RanInv'
  <2>1. Begun(result, pending) \subseteq Begun(result, pending')
    <3>1. ASSUME NEW d \in Calls, NEW f \in Goroutines, Owner(pending, f) = d
          PROVE  Owner(pending', f) = d
      BY <1>9, <1>10, <3>1, Constants, Zenon
    <3> QED BY <3>1 DEF Begun
  <2>2. ran \subseteq Begun(result, pending') /\ c \notin ran
    BY <1>2, <1>4, <2>1 DEF RanInv
  <2>3. \A f \in Goroutines : Owner(pending', f) \in ran => serving[f] \in {"handled", "over"}
    BY <1>2, <1>9, <2>2, Zenon DEF RanInv
  <2> QED BY <1>1, <1>2, <2>2, <2>3, Zenon DEF RanInv
<1>22. HandledInv'
  <2>1. ASSUME NEW f \in Goroutines, serving[f] \in {"handled", "over"},
               Owner(pending', f) # nil
        PROVE  IF Heartbeat(want[Owner(pending', f)])
                 THEN serving[f] = "over" /\ Owner(pending', f) \notin ran
                 ELSE Outcome(res[f], want, pending', ran, f)
    <3>1. f # g
      BY <1>11, <2>1
    <3>2. Owner(pending', f) = Owner(pending, f)
      BY <1>9, <3>1
    <3>3. Outcome(res[f], want, pending', ran, f) <=> Outcome(res[f], want, pending, ran, f)
      BY <1>14, <3>1, <3>2, Zenon DEF Outcome
    <3> QED BY <1>2, <2>1, <3>2, <3>3, Zenon DEF HandledInv
  <2> QED BY <1>1, <2>1, Zenon DEF HandledInv
<1>23. DownInv'
  <2>1. PICK d \in Seq(Goroutines) :
           /\ \A i, j \in 1 .. Len(d) : d[i] = d[j] => i = j
           /\ \A i \in 1 .. Len(d) : serving[d[i]] = "over" /\ Owner(pending, d[i]) # nil
           /\ down = Flatten(Unseen(Responses(res, want, pending, ran), d))
    BY <1>2, Zenon DEF DownInv
  <2>2. ASSUME NEW i \in 1 .. Len(d)
        PROVE  /\ d[i] \in Goroutines /\ d[i] # g
               /\ Owner(pending', d[i]) = Owner(pending, d[i])
    <3>1. d[i] \in Goroutines
      OBVIOUS
    <3>2. d[i] # g
      BY <1>11, <2>1
    <3> QED BY <1>9, <3>1, <3>2, Zenon
  <2>3. PICK q, p : /\ q = Responses(res, want, pending, ran)
                    /\ p = Responses(res, want, pending', ran)
    OBVIOUS
  <2>4. \A i \in 1 .. Len(d) : p[d[i]] = q[d[i]]
    BY <1>15, <2>2, <2>3, Zenon DEF Responses
  <2>5. Unseen(p, d) = Unseen(q, d)
    BY <2>4, UnseenSame
  <2>6. down = Flatten(Unseen(p, d))
    BY <2>1, <2>3, <2>5, Zenon
  <2> QED BY <1>1, <2>1, <2>2, <2>3, <2>6, Zenon DEF DownInv
<1>24. ResultIsTheMethods' /\ MetadataIsTheMethods'
  BY <1>1, FrameResults, Zenon DEF IndInv
<1> QED BY <1>16, <1>17, <1>18, <1>19, <1>20, <1>21, <1>22, <1>23, <1>24, Zenon DEF IndInv

\* The first message of a stream arrives as it was sent, in a blank message.
LEMMA Arrives ==
  ASSUME Wire, NEW text, NEW x, NEW rest, Sound(x), Begins(text, Encode(x), rest)
  PROVE  /\ SubSeq(text, FrameLen(text) + 1, Len(text)) = rest
         /\ Decode(NewMessage, text) = x
<1>1. text = Encode(x) \o rest /\ rest \in Texts /\ Sendable(x)
  BY DEF Begins, Sound
<1>2. Carries(Encode(x) \o rest, x, rest)
  BY <1>1, Wire, Zenon DEF Wire, RoundTrips
<1>3. Carries(text, x, rest)
  BY ONLY <1>1, <1>2, Zenon
<1>4. Received(x, NewMessage) = x
  <2>1. x \in Messages
    BY <1>1 DEF Sendable
  <2>2. PICK y : y = x.meta
    OBVIOUS
  <2>3. [x EXCEPT !.meta = y] = x
    BY <2>1, <2>2 DEF Messages
  <2>4. (IF x.meta = {} THEN NewMessage.meta ELSE x.meta) = y
    BY <2>2 DEF NewMessage
  <2> QED BY ONLY <2>3, <2>4, Zenon DEF Received
<1> QED BY <1>3, <1>4, Zenon DEF Carries

\* What the stream to the server holds.
LEMMA UpFacts ==
  ASSUME Wire, TypeOK, TableInv, NEW g \in Goroutines, g <= Sent, serving[g] # "over"
  PROVE  /\ Owner(pending, g) # nil /\ Owner(pending, g) \in Calls
         /\ Sound(RequestOf(want, pending, g))
         /\ Requests(want, pending)[g] = Encode(RequestOf(want, pending, g))
         /\ Requests(want, pending)[g] \in Texts
<1>1. Owner(pending, g) # nil
  BY Zenon DEF TableInv
<1>2. Owner(pending, g) \in Calls /\ Sound(RequestOf(want, pending, g))
  BY <1>1, OwnerFacts, Zenon
<1>3. Requests(want, pending)[g] = Encode(RequestOf(want, pending, g))
  BY Zenon DEF Requests
<1>4. Encode(RequestOf(want, pending, g)) \in Texts
  BY <1>2, Wire, EmptyText, Zenon DEF Sound, Wire, RoundTrips
<1> QED BY <1>1, <1>2, <1>3, <1>4, Zenon

\* serveConn reads the request that was sent next.
LEMMA NextRequest ==
  ASSUME Wire, TypeOK, TableInv, UpInv, NEW g \in Goroutines, serving[g] = "none",
         \A f \in 1 .. g - 1 : serving[f] # "none", Complete(up)
  PROVE  \E n \in Nat :
            /\ g = n + 1 /\ n < Sent
            /\ \A f \in Goroutines : serving[f] # "none" <=> f <= n
            /\ up = Flatten(Unread(Requests(want, pending), n, Sent))
<1>1. PICK n \in 0 .. Sent :
         /\ \A f \in Goroutines : serving[f] # "none" <=> f <= n
         /\ up = Flatten(Unread(Requests(want, pending), n, Sent))
  BY Zenon DEF UpInv
<1>2. PICK m \in Nat : m = Sent
  BY SentFacts, Zenon
<1>3. n \in 0 .. m
  BY <1>1, <1>2, Zenon
<1>4. n \in Nat /\ n <= m
  BY <1>3
<1>5. n # m
  <2>1. SUFFICES ASSUME n = m PROVE FALSE
    OBVIOUS
  <2>2. up = <<>>
    BY <1>1, <1>2, <1>4, <2>1, UnreadNone, Zenon
  <2>3. Len(up) = 0
    BY <2>2
  <2>4. Len(up) >= 16
    BY DEF Complete
  <2> QED BY <2>3, <2>4
<1>6. g \in Nat /\ ~(g <= n)
  BY <1>1, NumberFacts, Zenon
<1>7. ~(n + 1 < g)
  <2>1. SUFFICES ASSUME n + 1 < g PROVE FALSE
    OBVIOUS
  <2>2. PICK k \in Nat : g \in 1 .. k /\ Goroutines = 1 .. k
    BY Constants, Zenon DEF Goroutines
  <2>4. n + 1 \in 1 .. g - 1 /\ n + 1 \in 1 .. k
    BY <1>4, <1>6, <2>1, <2>2
  <2>3. n + 1 <= n
    BY <1>1, <2>2, <2>4, Zenon
  <2> QED BY <1>4, <2>3
<1>8. g = n + 1 /\ n < m
  BY <1>4, <1>5, <1>6, <1>7
<1> QED BY <1>1, <1>2, <1>4, <1>8, Zenon

\* serveConn reads what the client has sent.
LEMMA ReadRequestStep ==
  ASSUME Wire, IndInv, NEW g \in Goroutines, ReadRequest(g)
  PROVE  IndInv'
<1>1. /\ UNCHANGED <<want, seq, pending, creq, down, res, ran, pool, rmsg, result,
                     resMetadata>>
      /\ serving' = [serving EXCEPT ![g] = "read"] /\ serving[g] = "none"
      /\ \A f \in 1 .. g - 1 : serving[f] # "none"
      /\ Complete(up)
      /\ up' = SubSeq(up, FrameLen(up) + 1, Len(up))
  BY DEF ReadRequest, clientVars, doneVars
<1>2. /\ TypeOK /\ BlankInv /\ TableInv /\ UpInv /\ ReadInv /\ RanInv /\ HandledInv
      /\ DownInv /\ ResultIsTheMethods /\ MetadataIsTheMethods
  BY DEF IndInv
<1>3. PICK n \in Nat :
         /\ g = n + 1 /\ n < Sent
         /\ \A f \in Goroutines : serving[f] # "none" <=> f <= n
         /\ up = Flatten(Unread(Requests(want, pending), n, Sent))
  BY <1>1, <1>2, NextRequest, Zenon
<1>4. PICK m \in Nat : m = Sent
  BY <1>2, SentFacts, Zenon
<1>5. n < m /\ n + 1 <= m
  BY <1>3, <1>4
<1>6. \A f \in Goroutines : f \in n + 1 .. m => f <= Sent /\ serving[f] = "none"
  <2>1. SUFFICES ASSUME NEW f \in Goroutines, f \in n + 1 .. m
                 PROVE  f <= Sent /\ serving[f] = "none"
    OBVIOUS
  <2>2. f <= m /\ ~(f <= n)
    BY <2>1
  <2> QED BY <1>3, <1>4, <2>2, Zenon
<1>7. n + 1 .. m \subseteq Goroutines
  <2>1. PICK k \in Nat : k = Cardinality(Calls)
    BY Constants, Zenon
  <2>2. m <= k
    BY <1>2, <1>4, <2>1, SentFacts, Zenon
  <2>3. n + 1 .. m \subseteq 1 .. k
    BY <2>2
  <2> QED BY <2>1, <2>3, Zenon DEF Goroutines
<1>8. \A i \in n + 1 .. m : Requests(want, pending)[i] \in Texts
  <2>1. SUFFICES ASSUME NEW i \in n + 1 .. m
                 PROVE  Requests(want, pending)[i] \in Texts
    OBVIOUS
  <2>2. i \in Goroutines /\ i <= Sent /\ serving[i] = "none"
    BY <1>6, <1>7, Zenon
  <2>3. serving[i] # "over"
    BY <2>2
  <2> QED BY <1>2, <2>2, <2>3, UpFacts, Zenon
<1>9. Begins(up, Requests(want, pending)[g], Flatten(Unread(Requests(want, pending), g, Sent)))
  <2>1. Begins(Flatten(Unread(Requests(want, pending), n, m)),
               Requests(want, pending)[n + 1],
               Flatten(Unread(Requests(want, pending), n + 1, m)))
    BY <1>5, <1>8, Wire, Zenon DEF Wire, UnreadShrinks
  <2> QED BY ONLY <1>3, <1>4, <2>1, Zenon
<1>10. /\ Owner(pending, g) # nil /\ Owner(pending, g) \in Calls
       /\ Sound(RequestOf(want, pending, g))
       /\ Requests(want, pending)[g] = Encode(RequestOf(want, pending, g))
       /\ g <= Sent
  <2>1. g <= Sent /\ serving[g] # "over"
    BY <1>1, <1>3, <1>4
  <2> QED BY <1>2, <2>1, UpFacts, Zenon
<1>11. /\ up' = Flatten(Unread(Requests(want, pending), g, Sent))
       /\ Decode(NewMessage, up) = RequestOf(want, pending, g)
  <2>1. Begins(up, Encode(RequestOf(want, pending, g)),
               Flatten(Unread(Requests(want, pending), g, Sent)))
    BY ONLY <1>9, <1>10, Zenon
  <2>2. /\ SubSeq(up, FrameLen(up) + 1, Len(up)) =
             Flatten(Unread(Requests(want, pending), g, Sent))
        /\ Decode(NewMessage, up) = RequestOf(want, pending, g)
    BY <1>10, <2>1, Arrives, Zenon
  <2> QED BY ONLY <1>1, <2>2, Zenon
<1>12. req' = [req EXCEPT ![g] = RequestOf(want, pending, g)]
  <2>1. PICK x \in GetMsgs : req' = [req EXCEPT ![g] = Decode(x, up)]
    BY Zenon DEF ReadRequest
  <2>2. x = NewMessage
    BY <1>2 DEF GetMsgs, BlankInv
  <2> QED BY ONLY <1>11, <2>1, <2>2, Zenon
<1>13. /\ serving'[g] = "read"
       /\ \A f \in Goroutines : f # g => serving'[f] = serving[f] /\ req'[f] = req[f]
       /\ req'[g] = RequestOf(want, pending, g)
  BY <1>1, <1>2, <1>12, Zenon DEF TypeOK
<1>14. TypeOK'
  <2>1. serving' \in [Goroutines -> {"none", "read", "handled", "over"}]
    BY <1>1, <1>2, Zenon DEF TypeOK
  <2>2. DOMAIN req' = Goroutines
    BY <1>2, <1>12, Zenon DEF TypeOK
  <2> QED BY <1>1, <1>2, <2>1, <2>2, Zenon DEF TypeOK
<1>15. BlankInv'
  BY <1>1, <1>2, Zenon DEF BlankInv
<1>16. Sent' = Sent
  BY <1>1, Zenon DEF Sent
<1>17. TableInv'
  <2>1. \A f \in Goroutines :
           f <= Sent /\ serving'[f] # "over" => Owner(pending, f) # nil
    BY <1>2, <1>10, <1>13, Zenon DEF TableInv
  <2> QED BY <1>1, <1>2, <1>16, <2>1, Zenon DEF TableInv
<1>18. UpInv'
  <2>1. g \in 0 .. Sent
    BY <1>3, <1>4, <1>5
  <2>2. \A f \in Goroutines : serving'[f] # "none" <=> f <= g
    <3>1. SUFFICES ASSUME NEW f \in Goroutines PROVE serving'[f] # "none" <=> f <= g
      OBVIOUS
    <3>2. CASE f = g
      <4>1. g <= g
        BY <1>3
      <4>2. serving'[g] # "none"
        BY <1>13
      <4> QED BY ONLY <3>2, <4>1, <4>2, Zenon
    <3>3. CASE f # g
      <4>1. f <= n <=> f <= g
        BY <1>3, <3>3, NumberFacts
      <4> QED BY ONLY <1>3, <1>13, <3>1, <3>3, <4>1, Zenon
    <3> QED BY <3>2, <3>3
  <2>3. up' = Flatten(Unread(Requests(want', pending'), g, Sent'))
    BY <1>1, <1>11, <1>16, Zenon
  <2> QED BY <1>16, <2>1, <2>2, <2>3, Zenon DEF UpInv
<1>19. ReadInv'
  <2>1. \A f \in Goroutines : serving'[f] # "none" /\ Owner(pending, f) # nil =>
           req'[f] = RequestOf(want, pending, f)
    BY <1>2, <1>13, Zenon DEF ReadInv
  <2> QED BY <1>1, <2>1, Zenon DEF ReadInv
<1>20. RanInv'
  <2>1. Owner(pending, g) \notin ran
    BY <1>1, <1>2 DEF RanInv
  <2>2. \A f \in Goroutines :
           Owner(pending, f) \in ran => serving'[f] \in {"handled", "over"}
    BY <1>2, <1>13, <2>1, Zenon DEF RanInv
  <2> QED BY <1>1, <1>2, <2>2, Zenon DEF RanInv
<1>21. HandledInv'
  <2>1. \A f \in Goroutines : serving'[f] \in {"handled", "over"} =>
           f # g /\ serving'[f] = serving[f]
    BY <1>13
  <2> QED BY <1>1, <1>2, <2>1, Zenon DEF HandledInv
<1>22. DownInv'
  <2>1. PICK d \in Seq(Goroutines) :
           /\ \A i, j \in 1 .. Len(d) : d[i] = d[j] => i = j
           /\ \A i \in 1 .. Len(d) : serving[d[i]] = "over" /\ Owner(pending, d[i]) # nil
           /\ down = Flatten(Unseen(Responses(res, want, pending, ran), d))
    BY <1>2, Zenon DEF DownInv
  <2>2. \A i \in 1 .. Len(d) : d[i] \in Goroutines /\ d[i] # g
    BY <1>1, <2>1
  <2>3. \A i \in 1 .. Len(d) : serving'[d[i]] = "over" /\ Owner(pending', d[i]) # nil
    BY <1>1, <1>13, <2>1, <2>2, Zenon
  <2> QED BY <1>1, <2>1, <2>3, Zenon DEF DownInv
<1>23. ResultIsTheMethods' /\ MetadataIsTheMethods'
  BY <1>1, <1>2, FrameResults
<1> QED BY <1>14, <1>15, <1>17, <1>18, <1>19, <1>20, <1>21, <1>22, <1>23, Zenon DEF IndInv

\* A request in the hands of the server is that of the call that waits for it.
LEMMA ServedFacts ==
  ASSUME Wire, IndInv, NEW g \in Goroutines, serving[g] \in {"read", "handled"}, NEW c,
         c = Owner(pending, g)
  PROVE  /\ c # nil /\ c \in Calls /\ Proper(want[c]) /\ g <= Sent
         /\ req[g] = RequestOf(want, pending, g)
         /\ Sound(RequestOf(want, pending, g))
         /\ Gets(req[g], want[c], Number(g))
<1>1. TypeOK /\ TableInv /\ UpInv /\ ReadInv
  BY DEF IndInv
<1>2. serving[g] # "none" /\ serving[g] # "over"
  OBVIOUS
<1>3. g <= Sent
  <2>1. PICK m \in Nat : m = Sent
    BY <1>1, SentFacts, Zenon
  <2>2. PICK n \in 0 .. m : g <= n
    BY <1>1, <1>2, <2>1, Zenon DEF UpInv
  <2>3. g <= m
    BY <2>2, NumberFacts
  <2> QED BY <2>1, <2>3, Zenon
<1>4. c # nil
  BY <1>1, <1>2, <1>3, Zenon DEF TableInv
<1>5. c \in Calls /\ Proper(want[c]) /\ Sound(RequestOf(want, pending, g))
  BY <1>1, <1>4, OwnerFacts, Zenon
<1>6. req[g] = RequestOf(want, pending, g)
  BY <1>1, <1>2, <1>4, Zenon DEF ReadInv
<1>7. req[g] = NewRequest(want[c], NewMessage, Number(g))
  BY <1>6, Zenon DEF RequestOf
<1>8. Gets(req[g], want[c], Number(g))
  <2>1. Numbered(Number(g))
    BY NumberFacts, Zenon
  <2>2. RequestsTell
    BY DEF Wire
  <2>3. Gets(NewRequest(want[c], NewMessage, Number(g)), want[c], Number(g))
    BY ONLY <1>5, <2>1, <2>2, Zenon DEF RequestsTell
  <2> QED BY ONLY <1>7, <2>3, Zenon
<1> QED BY <1>3, <1>4, <1>5, <1>6, <1>8, Zenon

\* A response on its way is a text.
LEMMA ResponseText ==
  ASSUME Wire, TypeOK, HandledInv, NEW g \in Goroutines, Owner(pending, g) # nil,
         serving[g] \in {"handled", "over"}
  PROVE  Responses(res, want, pending, ran)[g] \in Texts
<1>1. Responses(res, want, pending, ran)[g] = Encode(ResponseOf(res, want, pending, ran, g))
  BY Zenon DEF Responses
<1>2. Answers(ResponseOf(res, want, pending, ran, g), Number(g), want[Owner(pending, g)],
              Owner(pending, g) \in ran)
  BY AnswerFacts, Zenon
<1>3. Sound(ResponseOf(res, want, pending, ran, g))
  BY <1>2, Zenon DEF Answers
<1>4. Encode(ResponseOf(res, want, pending, ran, g)) \in Texts
  BY <1>3, Wire, EmptyText, Zenon DEF Sound, Wire, RoundTrips
<1> QED BY <1>1, <1>4, Zenon

\* A response is written, and its goroutine ends.
LEMMA OverStep ==
  ASSUME Wire, IndInv, NEW g \in Goroutines, serving[g] \in {"read", "handled"},
         serving' = [serving EXCEPT ![g] = "over"],
         UNCHANGED <<want, seq, pending, creq, up, req, res, ran, rmsg, result,
                     resMetadata>>,
         down' = down \o Encode(ResponseOf(res, want, pending, ran, g)),
         pool' \subseteq {NewMessage},
         IF Heartbeat(want[Owner(pending, g)])
           THEN Owner(pending, g) \notin ran
           ELSE Outcome(res[g], want, pending, ran, g)
  PROVE  IndInv'
<1>1. /\ TypeOK /\ BlankInv /\ TableInv /\ UpInv /\ ReadInv /\ RanInv /\ HandledInv
      /\ DownInv /\ ResultIsTheMethods /\ MetadataIsTheMethods
  BY DEF IndInv
<1>2. Owner(pending, g) # nil
  BY ServedFacts, Zenon
<1>3. /\ serving'[g] = "over"
      /\ \A f \in Goroutines : f # g => serving'[f] = serving[f]
      /\ serving[g] # "none" /\ serving[g] # "over"
  BY <1>1, Zenon DEF TypeOK
<1>4. TypeOK'
  <2>1. serving' \in [Goroutines -> {"none", "read", "handled", "over"}]
    BY <1>1, Zenon DEF TypeOK
  <2> QED BY <1>1, <2>1, Zenon DEF TypeOK
<1>5. BlankInv'
  BY <1>1, Zenon DEF BlankInv
<1>6. Sent' = Sent
  BY Zenon DEF Sent
<1>7. TableInv'
  <2>1. \A f \in Goroutines :
           f <= Sent /\ serving'[f] # "over" => Owner(pending, f) # nil
    BY <1>1, <1>2, <1>3, Zenon DEF TableInv
  <2> QED BY <1>1, <1>6, <2>1, Zenon DEF TableInv
<1>8. UpInv'
  <2>1. PICK n \in 0 .. Sent :
           /\ \A f \in Goroutines : serving[f] # "none" <=> f <= n
           /\ up = Flatten(Unread(Requests(want, pending), n, Sent))
    BY <1>1, Zenon DEF UpInv
  <2>2. serving'[g] # "none"
    BY <1>3
  <2>3. \A f \in Goroutines : serving'[f] # "none" <=> f <= n
    BY <1>3, <2>1, <2>2, Zenon
  <2>4. up' = Flatten(Unread(Requests(want', pending'), n, Sent'))
    BY <1>6, <2>1, Zenon
  <2> QED BY <1>6, <2>1, <2>3, <2>4, Zenon DEF UpInv
<1>9. ReadInv'
  BY <1>1, <1>3, Zenon DEF ReadInv
<1>10. RanInv'
  <2>1. \A f \in Goroutines :
           Owner(pending, f) \in ran => serving'[f] \in {"handled", "over"}
    <3>1. serving'[g] \in {"handled", "over"}
      BY <1>3
    <3> QED BY <1>1, <1>3, <3>1, Zenon DEF RanInv
  <2> QED BY <1>1, <2>1, Zenon DEF RanInv
<1>11. HandledInv'
  <2>1. SUFFICES ASSUME NEW f \in Goroutines, serving'[f] \in {"handled", "over"},
                        Owner(pending, f) # nil
                 PROVE  IF Heartbeat(want[Owner(pending, f)])
                          THEN serving'[f] = "over" /\ Owner(pending, f) \notin ran
                          ELSE Outcome(res[f], want, pending, ran, f)
    BY Zenon DEF HandledInv
  <2>2. CASE f = g
    BY ONLY <1>3, <2>2, Zenon,
       IF Heartbeat(want[Owner(pending, g)])
           THEN Owner(pending, g) \notin ran
           ELSE Outcome(res[g], want, pending, ran, g)
  <2>3. CASE f # g
    BY <1>1, <1>3, <2>1, <2>3, Zenon DEF HandledInv
  <2> QED BY <2>2, <2>3
<1>12. DownInv'
  <2>1. PICK d \in Seq(Goroutines) :
           /\ \A i, j \in 1 .. Len(d) : d[i] = d[j] => i = j
           /\ \A i \in 1 .. Len(d) : serving[d[i]] = "over" /\ Owner(pending, d[i]) # nil
           /\ down = Flatten(Unseen(Responses(res, want, pending, ran), d))
    BY <1>1, Zenon DEF DownInv
  <2>2. PICK q : q = Responses(res, want, pending, ran)
    OBVIOUS
  <2>3. \A i \in 1 .. Len(d) : q[d[i]] \in Texts
    <3>1. SUFFICES ASSUME NEW i \in 1 .. Len(d) PROVE q[d[i]] \in Texts
      OBVIOUS
    <3>2. PICK f \in Goroutines : f = d[i]
      OBVIOUS
    <3>3. serving[f] = "over" /\ Owner(pending, f) # nil
      BY <2>1, <3>2, Zenon
    <3>4. serving[f] \in {"handled", "over"}
      BY <3>3
    <3> QED BY <1>1, <2>2, <3>2, <3>3, <3>4, ResponseText, Zenon
  <2>4. q[g] \in Texts /\ q[g] = Encode(ResponseOf(res, want, pending, ran, g))
    <3>1. q[g] = Encode(ResponseOf(res, want, pending, ran, g))
      BY <2>2, Zenon DEF Responses
    <3>2. Answers(ResponseOf(res, want, pending, ran, g), Number(g),
                  want[Owner(pending, g)], Owner(pending, g) \in ran)
      BY <1>1, <1>2, AnswerOf, Zenon
    <3>3. Sound(ResponseOf(res, want, pending, ran, g))
      BY <3>2, Zenon DEF Answers
    <3>4. Encode(ResponseOf(res, want, pending, ran, g)) \in Texts
      BY <3>3, Wire, EmptyText, Zenon DEF Sound, Wire, RoundTrips
    <3> QED BY <3>1, <3>4, Zenon
  <2>5. down' = Flatten(Unseen(q, Append(d, g)))
    <3>1. Flatten(Unseen(q, Append(d, g))) = Flatten(Unseen(q, d)) \o q[g]
      BY <2>3, <2>4, Wire, Zenon DEF Wire, UnseenGrows
    <3> QED BY <2>1, <2>2, <2>4, <3>1, Zenon
  <2>6. PICK e : e = Append(d, g)
    BY Zenon
  <2>7. PICK k \in Nat : k = Len(d)
    OBVIOUS
  <2>7a. /\ \A i, j \in 1 .. k : d[i] = d[j] => i = j
         /\ \A i \in 1 .. k : serving[d[i]] = "over" /\ Owner(pending, d[i]) # nil
    BY ONLY <2>1, <2>7, Zenon
  <2>8. /\ e \in Seq(Goroutines) /\ Len(e) = k + 1 /\ e[k + 1] = g
        /\ \A i \in 1 .. k : e[i] = d[i] /\ d[i] \in Goroutines /\ d[i] # g
    <3>1. \A i \in 1 .. k : d[i] # g
      BY <1>3, <2>1, <2>7, Zenon
    <3> QED BY <2>6, <2>7, <3>1
  <2>9. \A i \in 1 .. k + 1 : i = k + 1 \/ i \in 1 .. k
    OBVIOUS
  <2>10. \A i \in 1 .. Len(e) : serving'[e[i]] = "over" /\ Owner(pending', e[i]) # nil
    <3>1. SUFFICES ASSUME NEW i \in 1 .. k + 1
                   PROVE  serving'[e[i]] = "over" /\ Owner(pending, e[i]) # nil
      BY <2>8, Zenon
    <3>2. CASE i = k + 1
      BY <1>2, <1>3, <2>8, <3>2, Zenon
    <3>3. CASE i \in 1 .. k
      <4>1. e[i] = d[i] /\ d[i] \in Goroutines /\ d[i] # g
        BY ONLY <2>8, <3>3, Zenon
      <4>2. serving[d[i]] = "over" /\ Owner(pending, d[i]) # nil
        BY ONLY <2>7a, <3>3, Zenon
      <4>3. serving'[d[i]] = serving[d[i]]
        BY ONLY <1>3, <4>1, Zenon
      <4> QED BY ONLY <4>1, <4>2, <4>3, Zenon
    <3> QED BY <2>9, <3>2, <3>3, Zenon
  <2>11. \A i, j \in 1 .. Len(e) : e[i] = e[j] => i = j
    <3>1. SUFFICES ASSUME NEW i \in 1 .. k + 1, NEW j \in 1 .. k + 1, e[i] = e[j]
                   PROVE  i = j
      BY <2>8, Zenon
    <3>2. CASE i \in 1 .. k /\ j \in 1 .. k
      BY ONLY <2>7a, <2>8, <3>1, <3>2, Zenon
    <3>3. CASE i = k + 1 \/ j = k + 1
      BY <2>8, <2>9, <3>1, <3>3, Zenon
    <3> QED BY <2>9, <3>2, <3>3, Zenon
  <2>12. down' = Flatten(Unseen(Responses(res', want', pending', ran'), e))
    BY <2>2, <2>5, <2>6, Zenon
  <2> QED BY <2>8, <2>10, <2>11, <2>12, Zenon DEF DownInv
<1>13. ResultIsTheMethods' /\ MetadataIsTheMethods'
  BY <1>1, FrameResults
<1> QED BY <1>4, <1>5, <1>7, <1>8, <1>9, <1>10, <1>11, <1>12, <1>13, Zenon DEF IndInv

\* serveConn sends a heartbeat back.
LEMMA EchoHeartbeatStep ==
  ASSUME Wire, IndInv, NEW g \in Goroutines, EchoHeartbeat(g)
  PROVE  IndInv'
<1>1. /\ UNCHANGED <<want, seq, pending, creq, up, req, res, ran, rmsg, result,
                     resMetadata, pool>>
      /\ serving' = [serving EXCEPT ![g] = "over"] /\ serving[g] = "read"
      /\ IsHeartbeat(req[g].header)
      /\ down' = down \o Encode([req[g] EXCEPT !.header = SetMessageType(@, Response)])
  BY DEF EchoHeartbeat, clientVars, doneVars
<1>2. PICK c : c = Owner(pending, g)
  OBVIOUS
<1>3. serving[g] \in {"read", "handled"}
  BY <1>1
<1>4. req[g] = RequestOf(want, pending, g) /\ Gets(req[g], want[c], Number(g))
  BY <1>2, <1>3, ServedFacts, Zenon
<1>5. Heartbeat(want[c])
  BY <1>1, <1>4, Zenon DEF Gets
<1>6. c \notin ran
  <2>1. ~(serving[g] \in {"handled", "over"})
    BY <1>1
  <2> QED BY <1>2, <2>1, Zenon DEF IndInv, RanInv
<1>7. ResponseOf(res, want, pending, ran, g)
         = [req[g] EXCEPT !.header = SetMessageType(@, Response)]
  BY <1>2, <1>4, <1>5 DEF ResponseOf, Written
<1>8. pool' \subseteq {NewMessage}
  BY <1>1, Zenon DEF IndInv, BlankInv
<1>9. down' = down \o Encode(ResponseOf(res, want, pending, ran, g))
  BY <1>1, <1>7, Zenon
<1>10. IF Heartbeat(want[Owner(pending, g)])
         THEN Owner(pending, g) \notin ran
         ELSE Outcome(res[g], want, pending, ran, g)
  BY <1>2, <1>5, <1>6, Zenon
<1> QED BY <1>1, <1>3, <1>8, <1>9, <1>10, OverStep, Zenon

\* Arguments that can be decoded were not zipped.
LEMMA DecodedFacts ==
  ASSUME NEW w, Proper(w), Decodes(PayloadOf(w))
  PROVE  ~Zips(w) /\ PayloadOf(w) = w.args /\ Decodes(w.args)
<1>1. PICK a \in Texts : a = w.args
  BY DEF Proper, WishType
<1>2. ~Zips(w)
  <2>1. SUFFICES ASSUME Zips(w) PROVE FALSE
    OBVIOUS
  <2>2. a # <<>>
    BY <1>1, <2>1 DEF Zips, Proper
  <2>3. Len(ZipData(a)) = Len(a) + 1 /\ Len(a) # 0
    BY <2>2 DEF ZipData, Texts, Bytes
  <2>4. Len(ZipData(a)) = 1
    BY <1>1, <2>1 DEF PayloadOf, Decodes
  <2>5. PICK k \in Nat : k = Len(a)
    BY DEF Texts
  <2>6. k + 1 = 1 /\ k # 0
    BY <2>3, <2>4, <2>5, Zenon
  <2> QED BY <2>6
<1> QED BY <1>2 DEF PayloadOf

\* The arguments tell handleRequest's method whose call it is.
LEMMA CallerFacts ==
  ASSUME TypeOK, NEW c \in Calls, NEW r, r.payload = want[c].args
  PROVE  Caller(r) = c
<1>1. \A b \in Calls : want[b].args = r.payload => b = c
  BY WishFacts, Zenon
<1>2. Caller(r) \in Calls /\ want[Caller(r)].args = r.payload
  BY Zenon DEF Caller
<1> QED BY <1>1, <1>2, Zenon

\* handleRequest makes the response of the call that waits for it, and calls
\* no method but that of this call.
LEMMA HandleFacts ==
  ASSUME Wire, IndInv, NEW g \in Goroutines, HandleRequest(g), NEW c, c = Owner(pending, g)
  PROVE  /\ ~Heartbeat(want[c]) /\ c \in Calls /\ c \notin ran
         /\ \/ c \notin ran' /\ ran' = ran
            \/ c \in ran' /\ ran' = ran \cup {c} /\ Decodes(want[c].args)
         /\ Filled(res'[g], RequestOf(want, pending, g), want[c], c \in ran')
         /\ DOMAIN res' = Goroutines
         /\ \A f \in Goroutines : f # g => res'[f] = res[f]
<1>1. TypeOK /\ BlankInv /\ RanInv
  BY DEF IndInv
<1>2. serving[g] = "read" /\ ~IsHeartbeat(req[g].header)
  BY DEF HandleRequest
<1>3. PICK r, w : r = req[g] /\ w = want[c]
  OBVIOUS
<1>4. c \in Calls /\ Proper(w) /\ r = RequestOf(want, pending, g) /\ Gets(r, w, Number(g))
  <2>1. serving[g] \in {"read", "handled"}
    BY <1>2
  <2> QED BY <1>3, <2>1, ServedFacts, Zenon
<1>5. ~Heartbeat(w) /\ r.payload = PayloadOf(w)
  BY <1>2, <1>3, <1>4, Zenon DEF Gets
<1>6. c \notin ran
  <2>1. ~(serving[g] \in {"handled", "over"})
    BY <1>2
  <2> QED BY <1>1, <2>1, Zenon DEF RanInv
<1>7. PICK e : e = Failure(r)
  OBVIOUS
<1>8. res' = [res EXCEPT ![g] = IF e = NoError THEN [Blank(r) EXCEPT !.payload = Reply(r)]
                                               ELSE handleError(Blank(r), e)]
  <2>1. PICK m \in GetMsgs :
           res' = [res EXCEPT ![g] =
              IF Failure(req[g]) = NoError
                THEN [[Copy(req[g], m) EXCEPT !.header = SetMessageType(@, Response)]
                         EXCEPT !.payload = Reply(req[g])]
                ELSE handleError([Copy(req[g], m) EXCEPT
                                     !.header = SetMessageType(@, Response)],
                                 Failure(req[g]))]
    BY Zenon DEF HandleRequest
  <2>2. m = NewMessage
    BY <1>1 DEF GetMsgs, BlankInv
  <2>3. [Copy(r, NewMessage) EXCEPT !.header = SetMessageType(@, Response)] = Blank(r)
    BY Zenon DEF Copy, Blank, NewMessage
  <2> QED BY ONLY <1>3, <1>7, <2>1, <2>2, <2>3, Zenon
<1>9. DOMAIN res' = Goroutines /\ \A f \in Goroutines : f # g => res'[f] = res[f]
  BY <1>1, <1>8, Zenon DEF TypeOK
<1>10. res'[g] = IF e = NoError THEN [Blank(r) EXCEPT !.payload = Reply(r)]
                               ELSE handleError(Blank(r), e)
  <2>1. g \in DOMAIN res
    BY <1>1, Zenon DEF TypeOK
  <2> QED BY ONLY <1>8, <2>1, Zenon
<1>11. ran' = IF Called(r) THEN ran \cup {Caller(r)} ELSE ran
  BY <1>3 DEF HandleRequest
<1>12. ASSUME Called(r)
       PROVE  /\ c \in ran' /\ ran' = ran \cup {c} /\ Decodes(w.args)
              /\ Filled(res'[g], r, w, c \in ran')
  <2>1. Decodes(PayloadOf(w))
    BY <1>5, <1>12 DEF Called
  <2>2. ~Zips(w) /\ PayloadOf(w) = w.args /\ Decodes(w.args)
    BY <1>4, <2>1, DecodedFacts, Zenon
  <2>3. Caller(r) = c
    BY <1>1, <1>3, <1>4, <1>5, <2>2, CallerFacts, Zenon
  <2>4. ran' = ran \cup {c} /\ c \in ran'
    BY <1>11, <1>12, <2>3
  <2>5. e = IF w.returns \in {"error", "panic"} THEN MethodError ELSE NoError
    BY <1>3, <1>7, <1>12, <2>3, Zenon DEF Failure
  <2>6. MethodError # NoError
    BY DEF MethodError, NoError
  <2>7. Reply(r) = ReplyOf(w)
    BY <1>3, <2>3, Zenon DEF Reply, ReplyOf
  <2>8. res'[g] = IF w.returns \in {"error", "panic"} THEN handleError(Blank(r), MethodError)
                    ELSE [Blank(r) EXCEPT !.payload = ReplyOf(w)]
    <3>1. CASE w.returns \in {"error", "panic"}
      BY ONLY <1>10, <2>5, <2>6, <3>1, Zenon
    <3>2. CASE ~(w.returns \in {"error", "panic"})
      BY ONLY <1>10, <2>5, <2>7, <3>2, Zenon
    <3> QED BY <3>1, <3>2
  <2>9. Filled(res'[g], r, w, c \in ran')
    BY ONLY <2>2, <2>4, <2>8, Zenon DEF Filled
  <2> QED BY <2>2, <2>4, <2>9
<1>13. ASSUME ~Called(r)
       PROVE  c \notin ran' /\ ran' = ran /\ Filled(res'[g], r, w, c \in ran')
  <2>1. ran' = ran /\ c \notin ran'
    BY <1>6, <1>11, <1>13
  <2>2. e \in Errors
    BY <1>7, <1>13, Zenon DEF Failure, Errors
  <2>3. e # NoError
    <3>1. NoService # NoError /\ NoMethod # NoError /\ NoCodec # NoError
      BY DEF NoError, NoService, NoMethod, NoCodec
    <3>2. BadArguments # NoError /\ MethodError # NoError
      BY DEF NoError, BadArguments, MethodError
    <3> QED BY ONLY <2>2, <3>1, <3>2, Zenon DEF Errors
  <2>4. res'[g] = handleError(Blank(r), e)
    BY ONLY <1>10, <2>3, Zenon
  <2> QED BY ONLY <2>1, <2>2, <2>4, Zenon DEF Filled
<1> QED BY <1>3, <1>4, <1>5, <1>6, <1>9, <1>12, <1>13, Zenon

\* handleRequest.
LEMMA HandleRequestStep ==
  ASSUME Wire, IndInv, NEW g \in Goroutines, HandleRequest(g)
  PROVE  IndInv'
<1>1. /\ UNCHANGED <<want, seq, pending, creq, up, down, req, pool, rmsg, result,
                     resMetadata>>
      /\ serving' = [serving EXCEPT ![g] = "handled"] /\ serving[g] = "read"
  BY DEF HandleRequest, clientVars, doneVars
<1>2. /\ TypeOK /\ BlankInv /\ TableInv /\ UpInv /\ ReadInv /\ RanInv /\ HandledInv
      /\ DownInv /\ ResultIsTheMethods /\ MetadataIsTheMethods
  BY DEF IndInv
<1>3. PICK c : c = Owner(pending, g)
  OBVIOUS
<1>4. /\ ~Heartbeat(want[c]) /\ c \in Calls /\ c \notin ran
      /\ \/ c \notin ran' /\ ran' = ran
         \/ c \in ran' /\ ran' = ran \cup {c} /\ Decodes(want[c].args)
      /\ Filled(res'[g], RequestOf(want, pending, g), want[c], c \in ran')
      /\ DOMAIN res' = Goroutines
      /\ \A f \in Goroutines : f # g => res'[f] = res[f]
  BY <1>3, HandleFacts, Zenon
<1>5. c # nil
  BY <1>4, Constants, Zenon
<1>6. ran \subseteq ran' /\ ran' \subseteq ran \cup {c}
  BY <1>4
<1>7. /\ serving'[g] = "handled" /\ serving'[g] # "none" /\ serving'[g] # "over"
      /\ serving'[g] \in {"handled", "over"}
      /\ \A f \in Goroutines : f # g => serving'[f] = serving[f]
      /\ serving[g] # "none" /\ serving[g] # "over"
  BY <1>1, <1>2, Zenon DEF TypeOK
<1>8. \A f \in Goroutines : f # g /\ Owner(pending, f) # nil =>
         (Owner(pending, f) \in ran' <=> Owner(pending, f) \in ran)
  <2>1. \A f \in Goroutines : f # g /\ Owner(pending, f) # nil => Owner(pending, f) # c
    BY <1>2, <1>3, <1>5, Zenon DEF TableInv
  <2> QED BY <1>6, <2>1
<1>9. TypeOK'
  <2>1. serving' \in [Goroutines -> {"none", "read", "handled", "over"}]
    BY <1>1, <1>2, Zenon DEF TypeOK
  <2>2. ran' \subseteq Calls
    BY <1>2, <1>4, <1>6, Zenon DEF TypeOK
  <2> QED BY <1>1, <1>2, <1>4, <2>1, <2>2, Zenon DEF TypeOK
<1>10. BlankInv'
  BY <1>1, <1>2, Zenon DEF BlankInv
<1>11. Sent' = Sent
  BY <1>1, Zenon DEF Sent
<1>12. TableInv'
  <2>1. \A f \in Goroutines :
           f <= Sent /\ serving'[f] # "over" => Owner(pending, f) # nil
    BY <1>2, <1>7, Zenon DEF TableInv
  <2> QED BY <1>1, <1>2, <1>11, <2>1, Zenon DEF TableInv
<1>13. UpInv'
  <2>1. PICK n \in 0 .. Sent :
           /\ \A f \in Goroutines : serving[f] # "none" <=> f <= n
           /\ up = Flatten(Unread(Requests(want, pending), n, Sent))
    BY <1>2, Zenon DEF UpInv
  <2>2. \A f \in Goroutines : serving'[f] # "none" <=> f <= n
    BY <1>7, <2>1, Zenon
  <2>3. up' = Flatten(Unread(Requests(want', pending'), n, Sent'))
    BY <1>1, <1>11, <2>1, Zenon
  <2> QED BY <1>11, <2>1, <2>2, <2>3, Zenon DEF UpInv
<1>14. ReadInv'
  BY <1>1, <1>2, <1>7, Zenon DEF ReadInv
<1>15. RanInv'
  <2>1. ran' \subseteq Begun(result, pending)
    <3>1. c \in Begun(result, pending)
      BY <1>3, <1>4, Zenon DEF Begun
    <3>2. ran \subseteq Begun(result, pending)
      BY <1>2, Zenon DEF RanInv
    <3> QED BY <1>6, <3>1, <3>2
  <2>2. \A b \in ran' : Decodes(want[b].args)
    BY <1>2, <1>4, Zenon DEF RanInv
  <2>3. \A f \in Goroutines :
           Owner(pending, f) \in ran' => serving'[f] \in {"handled", "over"}
    <3>1. SUFFICES ASSUME NEW f \in Goroutines, Owner(pending, f) \in ran'
                   PROVE  serving'[f] \in {"handled", "over"}
      OBVIOUS
    <3>2. CASE f = g
      BY <1>7, <3>2, Zenon
    <3>3. CASE f # g
      <4>1. Owner(pending, f) # nil
        BY <1>9, <3>1, Constants, Zenon DEF TypeOK
      <4>2. Owner(pending, f) \in ran
        BY ONLY <1>8, <3>1, <3>3, <4>1, Zenon
      <4> QED BY <1>2, <1>7, <3>3, <4>2, Zenon DEF RanInv
    <3> QED BY <3>2, <3>3
  <2> QED BY <1>1, <2>1, <2>2, <2>3, Zenon DEF RanInv
<1>16. \A f \in Goroutines : f # g /\ Owner(pending, f) # nil =>
          /\ Outcome(res'[f], want, pending, ran', f) <=> Outcome(res[f], want, pending, ran, f)
          /\ ResponseOf(res', want, pending, ran', f) = ResponseOf(res, want, pending, ran, f)
  <2>1. SUFFICES ASSUME NEW f \in Goroutines, f # g, Owner(pending, f) # nil
                 PROVE  /\ Outcome(res'[f], want, pending, ran', f)
                             <=> Outcome(res[f], want, pending, ran, f)
                        /\ ResponseOf(res', want, pending, ran', f)
                             = ResponseOf(res, want, pending, ran, f)
    OBVIOUS
  <2>2. res'[f] = res[f]
    BY <1>4, <2>1, Zenon
  <2>3. (Owner(pending, f) \in ran') = (Owner(pending, f) \in ran)
    BY <1>8, <2>1
  <2> QED BY ONLY <2>2, <2>3, Zenon DEF Outcome, ResponseOf
<1>17. HandledInv'
  <2>1. SUFFICES ASSUME NEW f \in Goroutines, serving'[f] \in {"handled", "over"},
                        Owner(pending, f) # nil
                 PROVE  IF Heartbeat(want[Owner(pending, f)])
                          THEN serving'[f] = "over" /\ Owner(pending, f) \notin ran'
                          ELSE Outcome(res'[f], want, pending, ran', f)
    BY <1>1, Zenon DEF HandledInv
  <2>2. CASE f = g
    <3>1. Outcome(res'[g], want, pending, ran', g)
      BY ONLY <1>3, <1>4, Zenon DEF Outcome
    <3> QED BY ONLY <1>3, <1>4, <2>2, <3>1, Zenon
  <2>3. CASE f # g
    <3>1. IF Heartbeat(want[Owner(pending, f)])
            THEN serving[f] = "over" /\ Owner(pending, f) \notin ran
            ELSE Outcome(res[f], want, pending, ran, f)
      BY <1>2, <1>7, <2>1, <2>3, Zenon DEF HandledInv
    <3> QED BY ONLY <1>7, <1>8, <1>16, <2>1, <2>3, <3>1, Zenon
  <2> QED BY <2>2, <2>3
<1>18. DownInv'
  <2>1. PICK d \in Seq(Goroutines) :
           /\ \A i, j \in 1 .. Len(d) : d[i] = d[j] => i = j
           /\ \A i \in 1 .. Len(d) : serving[d[i]] = "over" /\ Owner(pending, d[i]) # nil
           /\ down = Flatten(Unseen(Responses(res, want, pending, ran), d))
    BY <1>2, Zenon DEF DownInv
  <2>2. PICK p, q : /\ p = Responses(res', want, pending, ran')
                    /\ q = Responses(res, want, pending, ran)
    OBVIOUS
  <2>3. \A i \in 1 .. Len(d) : d[i] \in Goroutines /\ d[i] # g /\ serving'[d[i]] = "over"
    BY <1>7, <2>1
  <2>4. \A i \in 1 .. Len(d) : p[d[i]] = q[d[i]]
    <3>1. SUFFICES ASSUME NEW i \in 1 .. Len(d) PROVE p[d[i]] = q[d[i]]
      OBVIOUS
    <3>2. ResponseOf(res', want, pending, ran', d[i]) = ResponseOf(res, want, pending, ran, d[i])
      BY <1>16, <2>1, <2>3, Zenon
    <3> QED BY <2>2, <2>3, <3>2, Zenon DEF Responses
  <2>5. Unseen(p, d) = Unseen(q, d)
    BY <2>4, UnseenSame, Zenon
  <2>6. down' = Flatten(Unseen(Responses(res', want', pending', ran'), d))
    BY <1>1, <2>1, <2>2, <2>5, Zenon
  <2>7. \A i \in 1 .. Len(d) : serving'[d[i]] = "over" /\ Owner(pending', d[i]) # nil
    BY <1>1, <2>1, <2>3, Zenon
  <2> QED BY <2>1, <2>6, <2>7, Zenon DEF DownInv
<1>19. result[c] \notin {"nil", "ServiceError"}
  <2>1. result[c] \in {nil, "reader's err"}
    BY <1>2, <1>3, <1>5, Zenon DEF TableInv
  <2> QED BY <2>1, Constants, Zenon
<1>20. \A b \in Calls : result[b] \in {"nil", "ServiceError"} => (b \in ran') = (b \in ran)
  BY <1>6, <1>19
<1>21. ResultIsTheMethods'
  <2>1. \A b \in Calls : result[b] \in {"nil", "ServiceError"} => (b \in ran' <=> b \in ran)
    BY <1>20
  <2>2. \A b \in Calls :
           /\ result[b] = "nil" =>
                 (Heartbeat(want[b]) \/ (b \in ran' /\ want[b].returns = "nil"))
           /\ result[b] = "ServiceError" =>
                 ~(Heartbeat(want[b]) \/ (b \in ran' /\ want[b].returns = "nil"))
    BY <1>2, <2>1, Zenon DEF ResultIsTheMethods
  <2> QED BY <1>1, <2>2, Zenon DEF ResultIsTheMethods
<1>22. MetadataIsTheMethods'
  BY <1>1, <1>2, <1>20, Zenon DEF MetadataIsTheMethods
<1> QED BY <1>9, <1>10, <1>12, <1>13, <1>14, <1>15, <1>17, <1>18, <1>21, <1>22, Zenon
        DEF IndInv

\* The metadata that is added to a response is what the method of its call has
\* set.
LEMMA SetFacts ==
  ASSUME Wire, IndInv, NEW g \in Goroutines, serving[g] = "handled", NEW c,
         c = Owner(pending, g)
  PROVE  /\ c # nil /\ ~Heartbeat(want[c])
         /\ Outcome(res[g], want, pending, ran, g)
         /\ (IF \E b \in ran : want[b].args = req[g].payload
               THEN want[Caller(req[g])].resMeta ELSE {})
            = (IF c \in ran THEN want[c].resMeta ELSE {})
<1>1. TypeOK /\ RanInv /\ HandledInv
  BY DEF IndInv
<1>2. PICK r, w : r = req[g] /\ w = want[c]
  OBVIOUS
<1>3. c # nil /\ c \in Calls /\ Proper(w) /\ Gets(r, w, Number(g))
      /\ r = RequestOf(want, pending, g)
  <2>1. serving[g] \in {"read", "handled"}
    OBVIOUS
  <2> QED BY <1>2, <2>1, ServedFacts, Zenon
<1>4. ~Heartbeat(w) /\ Outcome(res[g], want, pending, ran, g)
  <2>1. serving[g] \in {"handled", "over"} /\ serving[g] # "over"
    OBVIOUS
  <2> QED BY <1>1, <1>2, <1>3, <2>1, Zenon DEF HandledInv
<1>5. r.payload = PayloadOf(w)
  BY <1>3, <1>4, Zenon DEF Gets
<1>6. ASSUME c \in ran
      PROVE  /\ \E b \in ran : want[b].args = r.payload
             /\ Caller(r) = c
  <2>1. Filled(res[g], r, w, c \in ran)
    BY <1>2, <1>3, <1>4, Zenon DEF Outcome
  <2>2. ~Zips(w)
    BY ONLY <1>6, <2>1, Zenon DEF Filled
  <2>3. r.payload = want[c].args
    BY ONLY <1>2, <1>5, <2>2, Zenon DEF PayloadOf
  <2> QED BY <1>1, <1>3, <1>6, <2>3, CallerFacts, Zenon
<1>7. ASSUME c \notin ran PROVE ~\E b \in ran : want[b].args = r.payload
  <2>1. SUFFICES ASSUME NEW b \in ran, want[b].args = r.payload PROVE FALSE
    OBVIOUS
  <2>2. Decodes(PayloadOf(w))
    BY <1>1, <1>5, <2>1, Zenon DEF RanInv
  <2>3. want[b].args = want[c].args
    BY <1>2, <1>3, <1>5, <2>1, <2>2, DecodedFacts, Zenon
  <2>4. b \in Calls
    BY <1>1, Zenon DEF TypeOK
  <2>5. b = c
    BY <1>1, <1>3, <2>3, <2>4, WishFacts, Zenon
  <2> QED BY <1>7, <2>5, Zenon
<1> QED BY <1>2, <1>3, <1>4, <1>6, <1>7, Zenon

\* The end of handleRequest's goroutine.
LEMMA WriteResponseStep ==
  ASSUME Wire, IndInv, NEW g \in Goroutines, WriteResponse(g)
  PROVE  IndInv'
<1>1. /\ UNCHANGED <<want, seq, pending, creq, up, req, res, ran, rmsg, result,
                     resMetadata>>
      /\ serving' = [serving EXCEPT ![g] = "over"] /\ serving[g] = "handled"
      /\ pool' = pool \cup {Reset(req[g]), Reset(res[g])}
  BY Zenon DEF WriteResponse, clientVars, doneVars
<1>2. PICK c, set : c = Owner(pending, g) /\ set = IF c \in ran THEN want[c].resMeta ELSE {}
  BY Zenon
<1>3. /\ c # nil /\ ~Heartbeat(want[c])
      /\ Outcome(res[g], want, pending, ran, g)
      /\ (IF \E b \in ran : want[b].args = req[g].payload
            THEN want[Caller(req[g])].resMeta ELSE {}) = set
  BY <1>1, <1>2, SetFacts, Zenon
<1>4. down' = down \o Encode([res[g] EXCEPT !.meta = SetAll(@, set)])
  BY <1>3, Zenon DEF WriteResponse
<1>5. ResponseOf(res, want, pending, ran, g) = [res[g] EXCEPT !.meta = SetAll(@, set)]
  BY ONLY <1>2, <1>3, Zenon DEF ResponseOf, Written
<1>6. down' = down \o Encode(ResponseOf(res, want, pending, ran, g))
  BY ONLY <1>4, <1>5, Zenon
<1>7. serving[g] \in {"read", "handled"} /\ serving[g] \in {"handled", "over"}
  BY <1>1
<1>8. TypeOK /\ HandledInv /\ pool \subseteq {NewMessage}
  BY DEF IndInv, BlankInv
<1>9. Reset(req[g]) = NewMessage /\ Reset(res[g]) = NewMessage
  <2>1. res[g].header[1] = 8
    BY <1>2, <1>3, <1>7, <1>8, AnswerFacts, Zenon
  <2>2. req[g].header[1] = 8
    BY <1>7, ServedFacts, Zenon DEF Sound
  <2> QED BY <2>1, <2>2, ResetFacts, Zenon
<1>10. pool' \subseteq {NewMessage}
  BY <1>1, <1>8, <1>9
<1>11. IF Heartbeat(want[Owner(pending, g)])
         THEN Owner(pending, g) \notin ran
         ELSE Outcome(res[g], want, pending, ran, g)
  BY <1>2, <1>3, Zenon
<1> QED BY <1>1, <1>6, <1>7, <1>10, <1>11, OverStep, Zenon

\* handleResponse reads the response that was written next.
LEMMA NextResponse ==
  ASSUME Wire, IndInv, Complete(down)
  PROVE  \E d \in Seq(Goroutines) :
            /\ d # <<>>
            /\ \A i, j \in 1 .. Len(d) : d[i] = d[j] => i = j
            /\ \A i \in 1 .. Len(d) : serving[d[i]] = "over" /\ Owner(pending, d[i]) # nil
            /\ Decode(rmsg, down) = ResponseOf(res, want, pending, ran, d[1])
            /\ Answers(ResponseOf(res, want, pending, ran, d[1]), Number(d[1]),
                       want[Owner(pending, d[1])], Owner(pending, d[1]) \in ran)
            /\ SubSeq(down, FrameLen(down) + 1, Len(down))
                  = Flatten(Unseen(Responses(res, want, pending, ran), Tail(d)))
<1>1. TypeOK /\ BlankInv /\ HandledInv /\ DownInv
  BY DEF IndInv
<1>2. PICK d \in Seq(Goroutines) :
         /\ \A i, j \in 1 .. Len(d) : d[i] = d[j] => i = j
         /\ \A i \in 1 .. Len(d) : serving[d[i]] = "over" /\ Owner(pending, d[i]) # nil
         /\ down = Flatten(Unseen(Responses(res, want, pending, ran), d))
  BY <1>1, Zenon DEF DownInv
<1>3. d # <<>>
  <2>1. SUFFICES ASSUME d = <<>> PROVE FALSE
    OBVIOUS
  <2>2. down = <<>>
    BY <1>2, <2>1, UnseenNone, Zenon
  <2>3. Len(down) = 0
    BY <2>2
  <2>4. Len(down) >= 16
    BY DEF Complete
  <2> QED BY <2>3, <2>4
<1>4. PICK q : q = Responses(res, want, pending, ran)
  OBVIOUS
<1>5. \A i \in 1 .. Len(d) : q[d[i]] \in Texts
  <2>1. SUFFICES ASSUME NEW i \in 1 .. Len(d) PROVE q[d[i]] \in Texts
    OBVIOUS
  <2>2. d[i] \in Goroutines
    OBVIOUS
  <2>3. serving[d[i]] \in {"handled", "over"} /\ Owner(pending, d[i]) # nil
    BY <1>2
  <2> QED BY <1>1, <1>4, <2>2, <2>3, ResponseText, Zenon
<1>5a. PICK x, rest : /\ x = ResponseOf(res, want, pending, ran, d[1])
                      /\ rest = Flatten(Unseen(q, Tail(d)))
  OBVIOUS
<1>6. PICK g \in Goroutines :
         /\ g = d[1] /\ x = ResponseOf(res, want, pending, ran, g)
         /\ rest = Flatten(Unseen(q, Tail(d)))
  BY <1>3, <1>5a
<1>7. serving[g] \in {"handled", "over"} /\ Owner(pending, g) # nil
  BY <1>2, <1>3, <1>6
<1>8. Answers(x, Number(g), want[Owner(pending, g)], Owner(pending, g) \in ran)
  BY <1>1, <1>6, <1>7, AnswerFacts, Zenon
<1>9. Begins(down, Encode(x), rest)
  <2>1. Begins(Flatten(Unseen(q, d)), q[d[1]], Flatten(Unseen(q, Tail(d))))
    BY <1>3, <1>5, Wire, Zenon DEF Wire, UnseenShrinks
  <2>2. q[g] = Encode(x)
    BY <1>4, <1>6, Zenon DEF Responses
  <2> QED BY ONLY <1>2, <1>4, <1>6, <2>1, <2>2, Zenon
<1>10. Sound(x)
  BY <1>8, Zenon DEF Answers
<1>11. SubSeq(down, FrameLen(down) + 1, Len(down)) = rest /\ Decode(NewMessage, down) = x
  BY <1>9, <1>10, Arrives, Zenon
<1>12. rmsg = NewMessage
  BY <1>1, Zenon DEF BlankInv
<1> QED BY ONLY <1>2, <1>3, <1>4, <1>6, <1>8, <1>11, <1>12, Zenon

\* What handleResponse does with the response of goroutine g to the call c.
LEMMA CompletedFacts ==
  ASSUME TypeOK, HandleResponse, NEW g \in Goroutines, NEW c \in Calls,
         c = Owner(pending, g), NEW m, m = Decode(rmsg, down),
         Answers(m, Number(g), want[c], c \in ran)
  PROVE  /\ pending' = [pending EXCEPT ![Number(g)] = nil]
         /\ result' \in [Calls -> {nil, "nil", "ServiceError", "ErrShutdown",
                                   "reader's err"}]
         /\ result'[c] \in {"nil", "ServiceError"}
         /\ result'[c] = "nil" <=>
               (Heartbeat(want[c]) \/ (c \in ran /\ want[c].returns = "nil"))
         /\ \A b \in Calls : b # c => result'[b] \in {result[b], "reader's err"}
         /\ resMetadata' = [resMetadata EXCEPT ![c] = m.meta]
         /\ Notes(m.meta, want[c], c \in ran)
         /\ rmsg' = NewMessage
<1>1. /\ Sound(m) /\ Seq64(m.header) = Number(g) /\ Tells(m, want[c], c \in ran)
      /\ Notes(m.meta, want[c], c \in ran)
  BY Zenon DEF Answers
<1>2. PICK s, failed, broken, others :
         /\ s = Number(g)
         /\ failed = (MessageStatusType(m.header) = Error)
         /\ broken = (~failed /\ ~IsHeartbeat(m.header) /\ Unreadable(m))
         /\ others = {pending[x] : x \in DOMAIN pending \ {s}} \ {nil}
  BY Zenon
<1>3. pending[s] = c
  BY <1>2, Zenon DEF Owner
<1>4. /\ pending' = [pending EXCEPT ![s] = nil]
      /\ resMetadata' = [resMetadata EXCEPT ![c] = m.meta]
      /\ rmsg' = Reset(m)
      /\ result' = [b \in Calls |->
                      IF b = c THEN IF failed \/ broken THEN "ServiceError" ELSE "nil"
                      ELSE IF broken /\ b \in others THEN "reader's err"
                      ELSE result[b]]
  BY <1>1, <1>2, <1>3, Zenon DEF HandleResponse
<1>5. rmsg' = NewMessage
  BY <1>1, <1>4, ResetFacts, Zenon DEF Sound
<1>6. result'[c] = IF failed \/ broken THEN "ServiceError" ELSE "nil"
  BY ONLY <1>4, c \in Calls, Zenon
<1>7. (failed \/ broken) <=>
         ~(Heartbeat(want[c]) \/ (c \in ran /\ want[c].returns = "nil"))
  BY ONLY <1>1, <1>2, Zenon DEF Tells
<1>8. /\ result'[c] \in {"nil", "ServiceError"}
      /\ result'[c] = "nil" <=> ~(failed \/ broken)
  BY ONLY <1>6
<1>9. \A b \in Calls : b # c => result'[b] \in {result[b], "reader's err"}
  BY ONLY <1>4, Zenon
<1>10. result' \in [Calls -> {nil, "nil", "ServiceError", "ErrShutdown", "reader's err"}]
  BY <1>4, Zenon DEF TypeOK
<1>11. pending' = [pending EXCEPT ![Number(g)] = nil]
  BY ONLY <1>2, <1>4, Zenon
<1> QED BY ONLY <1>1, <1>4, <1>5, <1>7, <1>8, <1>9, <1>10, <1>11, Zenon

\* handleResponse.
LEMMA HandleResponseStep ==
  ASSUME Wire, IndInv, HandleResponse
  PROVE  IndInv'
<1>1. /\ UNCHANGED <<want, seq, creq, up, serving, req, res, ran, pool>>
      /\ Complete(down)
      /\ down' = SubSeq(down, FrameLen(down) + 1, Len(down))
  BY Zenon DEF HandleResponse, serverVars
<1>2. /\ TypeOK /\ BlankInv /\ TableInv /\ UpInv /\ ReadInv /\ RanInv /\ HandledInv
      /\ DownInv /\ ResultIsTheMethods /\ MetadataIsTheMethods
  BY DEF IndInv
<1>3. PICK d \in Seq(Goroutines) :
         /\ d # <<>>
         /\ \A i, j \in 1 .. Len(d) : d[i] = d[j] => i = j
         /\ \A i \in 1 .. Len(d) : serving[d[i]] = "over" /\ Owner(pending, d[i]) # nil
         /\ Decode(rmsg, down) = ResponseOf(res, want, pending, ran, d[1])
         /\ Answers(ResponseOf(res, want, pending, ran, d[1]), Number(d[1]),
                    want[Owner(pending, d[1])], Owner(pending, d[1]) \in ran)
         /\ SubSeq(down, FrameLen(down) + 1, Len(down))
               = Flatten(Unseen(Responses(res, want, pending, ran), Tail(d)))
  BY <1>1, NextResponse, Zenon
<1>3a. PICK c, m : c = Owner(pending, d[1]) /\ m = Decode(rmsg, down)
  OBVIOUS
<1>4. PICK g \in Goroutines : /\ g = d[1] /\ c = Owner(pending, g)
                              /\ m = Decode(rmsg, down)
  BY <1>3, <1>3a
<1>5. serving[g] = "over" /\ c # nil
  BY <1>3, <1>4
<1>6. c \in Calls
  BY <1>2, <1>4, <1>5, OwnerFacts, Zenon
<1>7. Answers(m, Number(g), want[c], c \in ran)
  BY ONLY <1>3, <1>4, Zenon
<1>8. /\ pending' = [pending EXCEPT ![Number(g)] = nil]
      /\ result' \in [Calls -> {nil, "nil", "ServiceError", "ErrShutdown", "reader's err"}]
      /\ result'[c] \in {"nil", "ServiceError"}
      /\ result'[c] = "nil" <=>
            (Heartbeat(want[c]) \/ (c \in ran /\ want[c].returns = "nil"))
      /\ \A b \in Calls : b # c => result'[b] \in {result[b], "reader's err"}
      /\ resMetadata' = [resMetadata EXCEPT ![c] = m.meta]
      /\ Notes(m.meta, want[c], c \in ran)
      /\ rmsg' = NewMessage
  BY ZenonT(40), <1>2, <1>4, <1>6, <1>7, CompletedFacts
<1>9. /\ Owner(pending', g) = nil
      /\ \A f \in Goroutines : f # g => Owner(pending', f) = Owner(pending, f)
  BY <1>2, <1>8, NumberFacts, Zenon DEF TypeOK, Owner
<1>10. result'[c] # nil
  BY <1>8, Constants, Zenon
<1>11. \A f \in Goroutines : Owner(pending', f) # nil =>
          /\ f # g /\ Owner(pending', f) = Owner(pending, f) /\ Owner(pending, f) # c
          /\ RequestOf(want, pending', f) = RequestOf(want, pending, f)
          /\ ResponseOf(res, want, pending', ran, f) = ResponseOf(res, want, pending, ran, f)
          /\ Outcome(res[f], want, pending', ran, f) <=> Outcome(res[f], want, pending, ran, f)
  <2>1. SUFFICES ASSUME NEW f \in Goroutines, Owner(pending', f) # nil
                 PROVE  /\ f # g /\ Owner(pending', f) = Owner(pending, f)
                        /\ Owner(pending, f) # c
                        /\ RequestOf(want, pending', f) = RequestOf(want, pending, f)
                        /\ ResponseOf(res, want, pending', ran, f)
                              = ResponseOf(res, want, pending, ran, f)
                        /\ Outcome(res[f], want, pending', ran, f)
                              <=> Outcome(res[f], want, pending, ran, f)
    OBVIOUS
  <2>2. f # g /\ Owner(pending', f) = Owner(pending, f)
    BY ONLY <1>9, <2>1, Zenon
  <2>3. Owner(pending, f) # c
    BY <1>2, <1>4, <1>5, <2>2, Zenon DEF TableInv
  <2>4. RequestOf(want, pending', f) = RequestOf(want, pending, f)
    BY ONLY <2>2, Zenon DEF RequestOf
  <2>5. ResponseOf(res, want, pending', ran, f) = ResponseOf(res, want, pending, ran, f)
    BY ONLY <2>2, <2>4, Zenon DEF ResponseOf
  <2>6. Outcome(res[f], want, pending', ran, f) <=> Outcome(res[f], want, pending, ran, f)
    BY ONLY <2>2, <2>4, Zenon DEF Outcome
  <2> QED BY ONLY <2>2, <2>3, <2>4, <2>5, <2>6, Zenon
<1>12. Begun(result, pending) \subseteq Begun(result', pending')
  <2>1. SUFFICES ASSUME NEW b \in Calls, b \in Begun(result, pending)
                 PROVE  b \in Begun(result', pending')
    BY BegunFacts
  <2>2. CASE b = c
    BY ONLY <1>6, <1>10, <2>2, Zenon DEF Begun
  <2>3. CASE b # c
    <3>1. CASE result[b] # nil
      <4>1. result'[b] # nil
        BY <1>8, <2>3, <3>1, Constants, Zenon
      <4> QED BY <4>1, Zenon DEF Begun
    <3>2. CASE \E f \in Goroutines : Owner(pending, f) = b
      <4>1. PICK f \in Goroutines : Owner(pending, f) = b
        BY <3>2
      <4>2. f # g
        BY <1>4, <2>3, <4>1, Zenon
      <4>3. Owner(pending', f) = b
        BY ONLY <1>9, <4>1, <4>2, Zenon
      <4> QED BY <4>3, Zenon DEF Begun
    <3> QED BY <2>1, <3>1, <3>2, Zenon DEF Begun
  <2> QED BY <2>2, <2>3
<1>13. TypeOK'
  <2>1. pending' \in [Numbers -> Calls \cup {nil}]
    BY <1>2, <1>8, NumberFacts, Zenon DEF TypeOK
  <2>2. DOMAIN resMetadata' = Calls
    BY <1>2, <1>8, Zenon DEF TypeOK
  <2> QED BY <1>1, <1>2, <1>8, <2>1, <2>2, Zenon DEF TypeOK
<1>14. BlankInv'
  BY <1>1, <1>2, <1>8, Zenon DEF BlankInv
<1>15. Sent' = Sent
  BY <1>1, Zenon DEF Sent
<1>16. TableInv'
  <2>1. Sent <= Cardinality(Begun(result', pending'))
    BY <1>2, <1>12, SentBound, Zenon
  <2>2. \A f \in Goroutines : Owner(pending', f) # nil => f <= Sent
    BY <1>2, <1>11, Zenon DEF TableInv
  <2>3. \A e, f \in Goroutines :
           Owner(pending', e) = Owner(pending', f) /\ Owner(pending', f) # nil => e = f
    <3>1. SUFFICES ASSUME NEW e \in Goroutines, NEW f \in Goroutines,
                          Owner(pending', e) = Owner(pending', f), Owner(pending', f) # nil
                   PROVE  e = f
      BY Zenon
    <3>2. Owner(pending, e) = Owner(pending, f) /\ Owner(pending, f) # nil
      BY ONLY <1>11, <3>1, Zenon
    <3> QED BY <1>2, <3>2, Zenon DEF TableInv
  <2>4. \A f \in Goroutines : f <= Sent /\ serving[f] # "over" => Owner(pending', f) # nil
    BY <1>2, <1>5, <1>9, Zenon DEF TableInv
  <2>5. \A f \in Goroutines : Owner(pending', f) # nil =>
           result'[Owner(pending', f)] \in {nil, "reader's err"}
    <3>1. SUFFICES ASSUME NEW f \in Goroutines, Owner(pending', f) # nil
                   PROVE  result'[Owner(pending', f)] \in {nil, "reader's err"}
      BY Zenon
    <3>2. PICK b : b = Owner(pending', f)
      OBVIOUS
    <3>3. b = Owner(pending, f) /\ b # c /\ b # nil
      BY ONLY <1>11, <3>1, <3>2, Zenon
    <3>4. b \in Calls /\ result[b] \in {nil, "reader's err"}
      BY <1>2, <3>3, OwnerFacts, Zenon DEF TableInv
    <3>5. result'[b] \in {result[b], "reader's err"}
      BY ONLY <1>8, <3>3, <3>4, Zenon
    <3> QED BY ONLY <3>2, <3>4, <3>5, Zenon
  <2> QED BY ONLY <1>1, <1>15, <2>1, <2>2, <2>3, <2>4, <2>5, Zenon DEF TableInv
<1>17. UpInv'
  <2>1. PICK n \in 0 .. Sent :
           /\ \A f \in Goroutines : serving[f] # "none" <=> f <= n
           /\ up = Flatten(Unread(Requests(want, pending), n, Sent))
    BY <1>2, Zenon DEF UpInv
  <2>2. PICK l \in Nat : l = Sent
    BY <1>2, SentFacts, Zenon
  <2>3. n \in 0 .. l
    BY ONLY <2>1, <2>2, Zenon
  <2>4. n \in Nat
    BY <2>3
  <2>5. g <= n /\ g \in Nat
    <3>1. serving[g] # "none"
      BY <1>5
    <3> QED BY <2>1, <3>1, NumberFacts, Zenon
  <2>6. PICK p, q : p = Requests(want, pending') /\ q = Requests(want, pending)
    OBVIOUS
  <2>7. \A i \in n + 1 .. l : p[i] = q[i]
    <3>1. SUFFICES ASSUME NEW i \in n + 1 .. l PROVE p[i] = q[i]
      OBVIOUS
    <3>2. i # g
      BY <2>4, <2>5
    <3>3. i \in Goroutines
      <4>1. PICK k \in Nat : k = Cardinality(Calls)
        BY Constants, Zenon
      <4>2. l <= k
        BY <1>2, <2>2, <4>1, SentFacts, Zenon
      <4>3. i \in 1 .. k
        BY <2>4, <4>2
      <4> QED BY <4>1, <4>3, Zenon DEF Goroutines
    <3>4. RequestOf(want, pending', i) = RequestOf(want, pending, i)
      BY <1>9, <3>2, <3>3, Zenon DEF RequestOf
    <3> QED BY <2>6, <3>3, <3>4, Zenon DEF Requests
  <2>8. Unread(p, n, l) = Unread(q, n, l)
    BY <2>4, <2>7, UnreadSame, Zenon
  <2>9. up' = Flatten(Unread(Requests(want', pending'), n, Sent'))
    BY ONLY <1>1, <1>15, <2>1, <2>2, <2>6, <2>8, Zenon
  <2> QED BY ONLY <1>1, <1>15, <2>1, <2>9, Zenon DEF UpInv
<1>18. ReadInv'
  <2>1. \A f \in Goroutines : serving[f] # "none" /\ Owner(pending', f) # nil =>
           req[f] = RequestOf(want, pending', f)
    BY <1>2, <1>11, Zenon DEF ReadInv
  <2> QED BY ONLY <1>1, <2>1, Zenon DEF ReadInv
<1>19. RanInv'
  <2>1. ran \subseteq Begun(result', pending')
    BY <1>2, <1>12 DEF RanInv
  <2>2. \A f \in Goroutines :
           Owner(pending', f) \in ran => serving[f] \in {"handled", "over"}
    <3>1. nil \notin ran
      BY <1>2, Constants, Zenon DEF TypeOK
    <3> QED BY <1>2, <1>11, <3>1, Zenon DEF RanInv
  <2> QED BY <1>1, <1>2, <2>1, <2>2, Zenon DEF RanInv
<1>20. HandledInv'
  <2>1. SUFFICES ASSUME NEW f \in Goroutines, serving[f] \in {"handled", "over"},
                        Owner(pending', f) # nil
                 PROVE  IF Heartbeat(want[Owner(pending', f)])
                          THEN serving[f] = "over" /\ Owner(pending', f) \notin ran
                          ELSE Outcome(res[f], want, pending', ran, f)
    BY <1>1, Zenon DEF HandledInv
  <2>2. /\ Owner(pending', f) = Owner(pending, f) /\ Owner(pending, f) # nil
        /\ Outcome(res[f], want, pending', ran, f) <=> Outcome(res[f], want, pending, ran, f)
    BY ONLY <1>11, <2>1, Zenon
  <2>3. IF Heartbeat(want[Owner(pending, f)])
          THEN serving[f] = "over" /\ Owner(pending, f) \notin ran
          ELSE Outcome(res[f], want, pending, ran, f)
    BY <1>2, <2>1, <2>2, Zenon DEF HandledInv
  <2> QED BY ONLY <2>2, <2>3, Zenon
<1>21. DownInv'
  <2>1. PICK e, k : e = Tail(d) /\ k = Len(e)
    BY Zenon
  <2>2. /\ e \in Seq(Goroutines) /\ k \in Nat /\ Len(d) = k + 1
        /\ \A i \in 1 .. k : e[i] = d[i + 1] /\ i + 1 \in 1 .. k + 1 /\ i + 1 # 1
        /\ 1 \in 1 .. k + 1
    BY <1>3, <2>1
  <2>3. /\ \A i, j \in 1 .. k + 1 : d[i] = d[j] => i = j
        /\ \A i \in 1 .. k + 1 : /\ serving[d[i]] = "over"
                                 /\ Owner(pending, d[i]) # nil /\ d[i] \in Goroutines
    <3>1. \A i \in 1 .. Len(d) : d[i] \in Goroutines
      OBVIOUS
    <3> QED BY ONLY <1>3, <2>2, <3>1, Zenon
  <2>4. \A i \in 1 .. k : e[i] \in Goroutines /\ e[i] # g /\ serving[e[i]] = "over"
                          /\ Owner(pending, e[i]) # nil
    <3>1. SUFFICES ASSUME NEW i \in 1 .. k
                   PROVE  e[i] \in Goroutines /\ e[i] # g /\ serving[e[i]] = "over"
                          /\ Owner(pending, e[i]) # nil
      OBVIOUS
    <3>2. PICK j \in 1 .. k + 1 : e[i] = d[j] /\ j # 1
      BY ONLY <2>2, i \in 1 .. k, Zenon
    <3>3. d[j] # d[1]
      BY ONLY <2>2, <2>3, <3>2, j \in 1 .. k + 1, Zenon
    <3>4. serving[d[j]] = "over" /\ Owner(pending, d[j]) # nil /\ d[j] \in Goroutines
      BY ONLY <2>3, j \in 1 .. k + 1, Zenon
    <3> QED BY ONLY <1>4, <3>2, <3>3, <3>4, Zenon
  <2>5. \A i \in 1 .. k : Owner(pending', e[i]) # nil
    BY ONLY <1>9, <2>4, Zenon
  <2>6. \A i, j \in 1 .. k : e[i] = e[j] => i = j
    <3>1. SUFFICES ASSUME NEW i \in 1 .. k, NEW j \in 1 .. k, e[i] = e[j] PROVE i = j
      BY Zenon
    <3>2. /\ e[i] = d[i + 1] /\ i + 1 \in 1 .. k + 1
          /\ e[j] = d[j + 1] /\ j + 1 \in 1 .. k + 1
      BY ONLY <2>2, i \in 1 .. k, j \in 1 .. k, Zenon
    <3>3. d[i + 1] = d[j + 1]
      BY ONLY <3>1, <3>2, Zenon
    <3>4. i + 1 = j + 1
      BY ONLY <2>3, <3>2, <3>3, Zenon
    <3> QED BY <2>2, <3>4
  <2>7. PICK p, q : /\ p = Responses(res, want, pending', ran)
                    /\ q = Responses(res, want, pending, ran)
    OBVIOUS
  <2>8. \A i \in 1 .. k : p[e[i]] = q[e[i]]
    <3>1. SUFFICES ASSUME NEW i \in 1 .. k PROVE p[e[i]] = q[e[i]]
      OBVIOUS
    <3>2. ResponseOf(res, want, pending', ran, e[i]) = ResponseOf(res, want, pending, ran, e[i])
      BY ONLY <1>11, <2>4, <2>5, i \in 1 .. k, Zenon
    <3> QED BY <2>4, <2>7, <3>2, Zenon DEF Responses
  <2>9. Unseen(p, e) = Unseen(q, e)
    <3>1. \A i \in 1 .. Len(e) : p[e[i]] = q[e[i]]
      BY ONLY <2>1, <2>8, Zenon
    <3> QED BY ONLY <3>1, UnseenSame, Zenon
  <2>10. down' = Flatten(Unseen(Responses(res', want', pending', ran'), e))
    BY ONLY <1>1, <1>3, <2>1, <2>7, <2>9, Zenon
  <2>11. /\ \A i, j \in 1 .. Len(e) : e[i] = e[j] => i = j
         /\ \A i \in 1 .. Len(e) : serving'[e[i]] = "over" /\ Owner(pending', e[i]) # nil
    BY ONLY <1>1, <2>1, <2>4, <2>5, <2>6, Zenon
  <2> QED BY ONLY <2>2, <2>10, <2>11, Zenon DEF DownInv
<1>22. \A b \in Calls : b # c /\ result'[b] \in {"nil", "ServiceError"} => result'[b] = result[b]
  BY <1>8, Zenon
<1>23. ResultIsTheMethods'
  <2>1. SUFFICES ASSUME NEW b \in Calls
                 PROVE  /\ result'[b] = "nil" =>
                             (Heartbeat(want[b]) \/ (b \in ran /\ want[b].returns = "nil"))
                        /\ result'[b] = "ServiceError" =>
                             ~(Heartbeat(want[b]) \/ (b \in ran /\ want[b].returns = "nil"))
    BY <1>1, Zenon DEF ResultIsTheMethods
  <2>2. CASE b = c
    BY <1>8, <2>2, Zenon
  <2>3. CASE b # c
    <3>1. result'[b] \in {"nil", "ServiceError"} => result'[b] = result[b]
      BY ONLY <1>22, <2>1, <2>3, Zenon
    <3> QED BY <1>2, <3>1, Zenon DEF ResultIsTheMethods
  <2> QED BY <2>2, <2>3
<1>24. MetadataIsTheMethods'
  <2>1. SUFFICES ASSUME NEW b \in Calls, result'[b] \in {"nil", "ServiceError"}
                 PROVE  Notes(resMetadata'[b], want[b], b \in ran)
    BY <1>1, Zenon DEF MetadataIsTheMethods, Notes
  <2>2. CASE b = c
    <3>1. resMetadata'[c] = m.meta
      BY <1>2, <1>6, <1>8, Zenon DEF TypeOK
    <3> QED BY ONLY <1>8, <2>2, <3>1, Zenon
  <2>3. CASE b # c
    <3>1. resMetadata'[b] = resMetadata[b]
      BY <1>2, <1>8, <2>3, Zenon DEF TypeOK
    <3>2. result[b] \in {"nil", "ServiceError"}
      BY ONLY <1>22, <2>1, <2>3, b \in Calls, Zenon
    <3>3. Notes(resMetadata[b], want[b], b \in ran)
      BY <1>2, <3>2, Zenon DEF MetadataIsTheMethods, Notes
    <3> QED BY ONLY <3>1, <3>3, Zenon
  <2> QED BY <2>2, <2>3
<1> QED BY <1>13, <1>14, <1>16, <1>17, <1>18, <1>19, <1>20, <1>21, <1>23, <1>24, Zenon
        DEF IndInv

\* A connection starts with nothing sent.
LEMMA InitInd ==
  ASSUME Wire, Init
  PROVE  IndInv
<1>1. TypeOK
  <2>1. /\ want \in [Calls -> UNION {Wishes[c] : c \in Calls}]
        /\ \A c \in Calls : want[c] \in Wishes[c]
    BY DEF Init
  <2>2. seq \in FirstSeq .. FirstSeq + Cardinality(Calls)
    <3>1. PICK k \in Nat, f \in Nat : k = Cardinality(Calls) /\ f = FirstSeq
      BY Constants, Zenon
    <3>2. f \in f .. f + k
      BY SMT
    <3> QED BY <3>1, <3>2, Zenon DEF Init
  <2>3. /\ pending \in [Numbers -> Calls \cup {nil}]
        /\ serving \in [Goroutines -> {"none", "read", "handled", "over"}]
        /\ result \in [Calls -> {nil, "nil", "ServiceError", "ErrShutdown",
                                 "reader's err"}]
    BY SMT DEF Init, Numbers
  <2>4. /\ DOMAIN creq = Calls /\ DOMAIN req = Goroutines /\ DOMAIN res = Goroutines
        /\ DOMAIN resMetadata = Calls /\ ran \subseteq Calls
    BY SMT DEF Init
  <2> QED BY <2>1, <2>2, <2>3, <2>4, Zenon DEF TypeOK
<1>2. BlankInv
  BY SMT DEF Init, BlankInv
<1>3. /\ \A g \in Goroutines : Owner(pending, g) = nil /\ serving[g] = "none"
      /\ \A c \in Calls : result[c] = nil
  BY NumberFacts, SMT DEF Init, Owner, Numbers
<1>4. Sent = 0
  <2>1. PICK f \in Nat : f = FirstSeq
    BY Constants, Zenon
  <2>2. Sent = f - f
    BY <2>1, Zenon DEF Init, Sent
  <2> QED BY <2>2
<1>5. TableInv
  <2>1. Sent <= Cardinality(Begun(result, pending))
    <3>1. PICK k \in Nat : k = Cardinality(Begun(result, pending))
      BY BegunFacts, Zenon
    <3>2. 0 <= k
      BY SMT
    <3> QED BY <1>4, <3>1, <3>2, Zenon
  <2>2. \A f, g \in Goroutines :
           Owner(pending, f) = Owner(pending, g) /\ Owner(pending, g) # nil => f = g
    BY <1>3, Zenon
  <2>3. \A g \in Goroutines : ~(g <= Sent)
    BY <1>4, NumberFacts
  <2> QED BY <1>3, <2>1, <2>2, <2>3, Zenon DEF TableInv
<1>6. UpInv
  <2>1. \A g \in Goroutines : serving[g] # "none" <=> g <= 0
    BY <1>3, NumberFacts
  <2>2. up = Flatten(Unread(Requests(want, pending), 0, 0))
    <3>1. up = <<>> /\ 0 \in Nat
      BY DEF Init
    <3> QED BY <3>1, UnreadNone, Zenon
  <2>3. 0 \in 0 .. 0
    BY SMT
  <2> QED BY <1>4, <2>1, <2>2, <2>3, Zenon DEF UpInv
<1>7. ReadInv /\ HandledInv
  BY <1>3, Zenon DEF ReadInv, HandledInv
<1>8. RanInv
  <2>1. ran = {}
    BY DEF Init
  <2> QED BY <2>1, SMT DEF RanInv
<1>9. DownInv
  <2>1. down = Flatten(Unseen(Responses(res, want, pending, ran), <<>>))
    BY UnseenNone, Zenon DEF Init
  <2>2. PICK d \in Seq(Goroutines) : d = <<>> /\ \A i \in 1 .. Len(d) : FALSE
    <3>1. <<>> \in Seq(Goroutines) /\ \A i \in 1 .. Len(<<>>) : FALSE
      BY SMT
    <3> QED BY <3>1, Zenon
  <2>3. /\ \A i, j \in 1 .. Len(d) : d[i] = d[j] => i = j
        /\ \A i \in 1 .. Len(d) : serving[d[i]] = "over" /\ Owner(pending, d[i]) # nil
    BY <2>2, Zenon
  <2> QED BY <2>1, <2>2, <2>3, Zenon DEF DownInv
<1>10. \A c \in Calls : result[c] # "nil" /\ result[c] # "ServiceError"
  BY <1>3, Constants, Zenon
<1>11. ResultIsTheMethods
  BY <1>10, Zenon DEF ResultIsTheMethods
<1>12. MetadataIsTheMethods
  <2>1. \A c \in Calls : result[c] \notin {"nil", "ServiceError"}
    BY <1>10, Zenon
  <2> QED BY <2>1, Zenon DEF MetadataIsTheMethods
<1> QED BY <1>1, <1>2, <1>5, <1>6, <1>7, <1>8, <1>9, <1>11, <1>12, Zenon DEF IndInv

\* Every step keeps the invariant.
LEMMA NextInd ==
  ASSUME Wire, IndInv, [Next]_vars
  PROVE  IndInv'
<1>1. ASSUME NEW p \in DOMAIN Services, Register(p) PROVE IndInv'
  BY <1>1, RegisterStep, Zenon DEF Register
<1>2. ASSUME NEW c \in Calls, Send(c) \/ SendRefused(c) \/ FreeRequest(c) PROVE IndInv'
  BY <1>2, SendStep, SendRefusedStep, FreeRequestStep, Zenon
<1>3. ASSUME NEW g \in Goroutines,
             ReadRequest(g) \/ EchoHeartbeat(g) \/ HandleRequest(g) \/ WriteResponse(g)
      PROVE  IndInv'
  BY <1>3, ReadRequestStep, EchoHeartbeatStep, HandleRequestStep, WriteResponseStep, Zenon
<1>4. CASE HandleResponse
  BY <1>4, HandleResponseStep, Zenon
<1>5. CASE UNCHANGED vars
  <2>1. UNCHANGED <<want, clientVars, up, down, serverVars, pool, doneVars>>
    BY <1>5 DEF vars
  <2> QED BY <2>1, RegisterStep, Zenon
<1> QED BY <1>1, <1>2, <1>3, <1>4, <1>5, Zenon DEF Next

\* What RequestIntact says of a request r with the number s.
Same(r, s, P, W) ==
    /\ s \in DOMAIN P /\ P[s] # nil
    /\ LET w == W[P[s]]
       IN /\ r.path = w.path /\ r.method = w.method
          /\ IsHeartbeat(r.header) = Heartbeat(w)
          /\ MessageType(r.header) = Request /\ MessageStatusType(r.header) = Normal
          /\ (CompressType(r.header) = Gzip) = Zips(w)
          /\ ~Heartbeat(w) => /\ r.meta = w.meta
                              /\ SerializeType(r.header) = w.serialize
                              /\ r.payload = IF Zips(w) THEN ZipData(w.args)
                                                        ELSE w.args

\* The server has read the request that the client has written.
LEMMA IntactStep ==
  ASSUME Wire, IndInv
  PROVE  RequestIntact
<1> SUFFICES ASSUME NEW g \in Goroutines, serving[g] = "read"
             PROVE  Same(req[g], Seq64(req[g].header), pending, want)
  BY Zenon DEF RequestIntact, Same
<1>0. PICK r, s : r = req[g] /\ s = Seq64(r.header)
  OBVIOUS
<1>1. PICK c, w : c = Owner(pending, g) /\ w = want[c]
  OBVIOUS
<1>2. serving[g] \in {"read", "handled"}
  OBVIOUS
<1>3. c # nil /\ Gets(r, w, Number(g))
  BY <1>0, <1>1, <1>2, ServedFacts, Zenon
<1>4. s = Number(g)
  BY <1>0, <1>3, Zenon DEF Gets
<1>5. s \in DOMAIN pending /\ pending[s] = c
  BY <1>1, <1>4, NumberFacts, Zenon DEF IndInv, TypeOK, Owner
<1>6. /\ r.path = w.path /\ r.method = w.method
      /\ IsHeartbeat(r.header) = Heartbeat(w)
      /\ MessageType(r.header) = Request /\ MessageStatusType(r.header) = Normal
      /\ (CompressType(r.header) = Gzip) = Zips(w)
  <2>1. IsHeartbeat(r.header) \in BOOLEAN /\ Heartbeat(w) \in BOOLEAN /\ Zips(w) \in BOOLEAN
    BY DEF IsHeartbeat, Heartbeat, Zips
  <2> QED BY <1>3, <2>1, Zenon DEF Gets
<1>7. ~Heartbeat(w) => /\ r.meta = w.meta /\ SerializeType(r.header) = w.serialize
                       /\ r.payload = IF Zips(w) THEN ZipData(w.args) ELSE w.args
  BY <1>3, Zenon DEF Gets, PayloadOf
<1>8. Same(r, s, pending, want)
  BY ONLY <1>1, <1>3, <1>5, <1>6, <1>7, Zenon DEF Same
<1> QED BY ONLY <1>0, <1>8, Zenon
=============================================================================
