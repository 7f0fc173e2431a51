----------------------------- MODULE LinkProofs -----------------------------
(***************************************************************************)
(* What holds of a connection for any timeouts and any bounds on the       *)
(* delays: its types, that nothing is lost in the handshake, that a read   *)
(* timeout limits the life of a connection, and that heartbeats keep one.  *)
(***************************************************************************)
EXTENDS Link, SequenceTheorems, TLAPS

USE LinkAssumption

Networks == {"tcp", "http", "quic", "kcp", "unix"}
ClientOptions == [readTimeout : ReadTimeouts, writeTimeout : WriteTimeouts,
                  heartbeat : BOOLEAN, rpcPath : {"", "other"},
                  block : BOOLEAN]
ServerOptions == [readTimeout : ServerTimeouts, writeTimeout : ServerTimeouts,
                  rpcPath : {"", "other"}, tlsConfig : BOOLEAN,
                  BlockCrypt : BOOLEAN]
Ups == [m : {"CONNECT", "call", "heartbeat"}, age : 0 .. MaxDelay]
Downs == [m : {"200", "404", "call", "heartbeat"}, age : 0 .. MaxDelay]
Left == Nat \cup {nil}

\* The types, and what the handshake leaves to the requests.
Types ==
    /\ network \in Networks
    /\ copt \in ClientOptions /\ sopt \in ServerOptions
    /\ listener \in {"none", "open", "failed", "crashed"}
    /\ conn \in {"idle", "connect", "up", "refused", "panic", "over"}
    /\ served \in {"none", "queued", "http", "serving", "closed", "gone"}
    /\ up \in Seq(Ups) /\ down \in Seq(Downs)
    /\ readLeft \in Left /\ writeLeft \in Left /\ respondLeft \in Left
    /\ uptime \in Nat /\ ticker \in 1 .. Interval /\ tick \in BOOLEAN
    /\ waiting \subseteq Requests
    /\ waited \in 0 .. MaxWait
    /\ handling \in [Requests -> (0 .. MaxHandling) \cup {nil}]
    /\ dropped \in BOOLEAN

Nothing == [m \in Requests |-> nil]

\* Before Connect has returned nothing is under way but the CONNECT and its
\* answer, and the server is given requests only.
Handshake ==
    /\ conn \in {"idle", "connect"} =>
          waiting = {} /\ ~tick /\ uptime = 0 /\ ~dropped /\ handling = Nothing
    /\ conn = "idle" => served = "none" /\ down = <<>>
    /\ served = "none" => up = <<>> /\ conn \in {"idle", "refused", "panic"}
    /\ conn = "connect" => network = "http" /\ Len(down) <= 1
    /\ conn = "connect" /\ served \in {"serving", "closed", "gone"} => up = <<>>
    /\ network = "http" /\ served \in {"queued", "http"} =>
          conn = "connect" /\ down = <<>> /\ Len(up) <= 1
    /\ served = "http" => network = "http"
    /\ network # "http" \/ served = "serving" =>
          \A i \in 1 .. Len(up) : up[i].m \in Requests
    /\ served \in {"http", "serving"} => listener # "none"
    /\ lost = {}

Base == Types /\ Handshake

-----------------------------------------------------------------------------
(* Sequences of messages. *)

\* What Head and Tail are.
LEMMA TailFacts ==
    ASSUME NEW S, NEW q \in Seq(S), q # <<>>
    PROVE  /\ Len(q) \in Nat \ {0} /\ Head(q) = q[1] /\ q[1] \in S
           /\ Tail(q) \in Seq(S) /\ Len(Tail(q)) = Len(q) - 1
           /\ \A i \in 1 .. Len(q) - 1 : Tail(q)[i] = q[i + 1]
BY SMT

\* What Append is.
LEMMA AppendFacts ==
    ASSUME NEW S, NEW q \in Seq(S), NEW x \in S
    PROVE  /\ Append(q, x) \in Seq(S) /\ Len(Append(q, x)) = Len(q) + 1
           /\ \A i \in 1 .. Len(q) : Append(q, x)[i] = q[i]
           /\ Append(q, x)[Len(q) + 1] = x
BY SMT

\* Older keeps the messages, in their order.
LEMMA OlderFacts ==
    ASSUME NEW M, NEW q \in Seq([m : M, age : 0 .. MaxDelay])
    PROVE  /\ Older(q) \in Seq([m : M, age : 0 .. MaxDelay])
           /\ Len(Older(q)) = Len(q)
           /\ \A i \in 1 .. Len(q) :
                 /\ Older(q)[i].m = q[i].m
                 /\ q[i].age < MaxDelay => Older(q)[i].age = q[i].age + 1
<1>1. DOMAIN Older(q) = 1 .. Len(q)
  BY LenProperties DEF Older
<1>2. ASSUME NEW i \in 1 .. Len(q)
      PROVE  /\ Older(q)[i] \in [m : M, age : 0 .. MaxDelay]
             /\ Older(q)[i].m = q[i].m
             /\ q[i].age < MaxDelay => Older(q)[i].age = q[i].age + 1
  <2>1. q[i] \in [m : M, age : 0 .. MaxDelay] /\ i \in DOMAIN q
    BY ElementOfSeq, LenProperties, Zenon
  <2>2. Older(q)[i] =
          [q[i] EXCEPT !.age = IF q[i].age < MaxDelay THEN q[i].age + 1
                                                      ELSE q[i].age]
    BY <2>1 DEF Older
  <2>3. /\ q[i].m \in M /\ q[i].age \in 0 .. MaxDelay
        /\ q[i] = [m |-> q[i].m, age |-> q[i].age]
    BY <2>1, Zenon
  <2> DEFINE age == IF q[i].age < MaxDelay THEN q[i].age + 1 ELSE q[i].age
  <2>4. age \in 0 .. MaxDelay
    BY <2>3, SMT
  <2>5. Older(q)[i] = [m |-> q[i].m, age |-> age]
    BY <2>1, <2>2
  <2> HIDE DEF age
  <2>6. Older(q)[i] \in [m : M, age : 0 .. MaxDelay]
    BY <2>3, <2>4, <2>5
  <2>7. Older(q)[i].m = q[i].m /\ Older(q)[i].age = age
    BY <2>5
  <2> QED
    BY <2>6, <2>7 DEF age
<1>3. Older(q) \in [1 .. Len(q) -> [m : M, age : 0 .. MaxDelay]]
  BY <1>1, <1>2 DEF Older
<1>4. Older(q) \in Seq([m : M, age : 0 .. MaxDelay])
  BY <1>3, LenProperties, SeqDef
<1>5. Len(Older(q)) = Len(q)
  BY <1>1, <1>4, LenProperties, SMT
<1> QED
  BY <1>2, <1>4, <1>5

\* A new message is a message.
LEMMA MsgFacts ==
    /\ \A m \in {"CONNECT", "call", "heartbeat"} : Msg(m) \in Ups
    /\ \A m \in {"200", "404", "call", "heartbeat"} : Msg(m) \in Downs
    /\ \A m : Msg(m).m = m /\ Msg(m).age = 0
BY SMT DEF Msg, Ups, Downs

\* The empty sequence and a single message are sequences of messages.
LEMMA ShortFacts ==
    /\ <<>> \in Seq(Ups) /\ <<>> \in Seq(Downs) /\ Len(<<>>) = 0
    /\ <<Msg("CONNECT")>> \in Seq(Ups) /\ Len(<<Msg("CONNECT")>>) = 1
BY MsgFacts, SMT

\* A message after a sequence of one has no text.
LEMMA NoTexts ==
    ASSUME NEW S, NEW q \in Seq(S), q # <<>>, Len(q) <= 1
    PROVE  Texts(Tail(q)) = {}
<1>0. Tail(q) \in Seq(S) /\ Len(q) \in Nat \ {0} /\ Len(Tail(q)) = Len(q) - 1
  BY TailFacts
<1>1. Tail(q) \in Seq(S) /\ Len(Tail(q)) = 0
  BY <1>0, SMT
<1>2. DOMAIN Tail(q) = {}
  BY <1>1, LenProperties, SMT
<1> QED
  BY <1>2 DEF Texts

-----------------------------------------------------------------------------
(* The types and the handshake. *)

\* The timeouts are numbers.
LEMMA OptionFacts ==
    ASSUME Types
    PROVE  /\ copt.readTimeout \in Nat /\ copt.writeTimeout \in Nat
           /\ sopt.readTimeout \in ServerTimeouts
           /\ sopt.writeTimeout \in ServerTimeouts
           /\ sopt.readTimeout \in Nat /\ sopt.writeTimeout \in Nat
           /\ copt.heartbeat \in BOOLEAN
<1>1. /\ copt.readTimeout \in ReadTimeouts /\ copt.writeTimeout \in WriteTimeouts
      /\ copt.heartbeat \in BOOLEAN
      /\ sopt.readTimeout \in ServerTimeouts
      /\ sopt.writeTimeout \in ServerTimeouts
  BY Zenon DEF Types, ClientOptions, ServerOptions
<1> QED
  BY <1>1

\* Nobody has done anything yet.
LEMMA InitBase == Init => Base
<1> SUFFICES ASSUME Init PROVE Base
  OBVIOUS
<1>1. /\ network \in Networks
      /\ copt \in ClientOptions /\ sopt \in ServerOptions
  BY Zenon DEF Init, Networks, ClientOptions, ServerOptions
<1>2. tick \in BOOLEAN /\ dropped \in BOOLEAN /\ ~tick /\ ~dropped
  BY Zenon DEF Init
<1>3. handling = Nothing
      /\ handling \in [Requests -> (0 .. MaxHandling) \cup {nil}]
  BY Zenon DEF Init, Nothing
<1>0. /\ ticker = Interval /\ waited = 0 /\ uptime = 0 /\ waiting = {}
      /\ conn = "idle" /\ served = "none" /\ listener = "none"
      /\ up = <<>> /\ down = <<>> /\ lost = {}
  BY Zenon DEF Init
<1>4. ticker \in 1 .. Interval /\ waited \in 0 .. MaxWait /\ uptime \in Nat
  BY <1>0, SMT
<1>5. Types
  BY <1>1, <1>2, <1>3, <1>4, ShortFacts, Zenon DEF Init, Types, Left
<1>6. Handshake
  BY <1>0, <1>2, <1>3, ShortFacts, SMT DEF Handshake
<1> QED
  BY <1>5, <1>6 DEF Base

\* A listener that is made is not none.
LEMMA makeListenerBase == ASSUME Base, makeListener PROVE Base'
BY DEF Base, Types, Handshake, makeListener, optVars, clientVars, serverVars,
       histVars

\* Over HTTP net/http serves the connection first.
LEMMA AcceptBase == ASSUME Base, Accept PROVE Base'
BY SMT DEF Base, Types, Handshake, Accept, optVars, clientVars, histVars

\* Both answers leave the queue to the server empty.
LEMMA ServeHTTPBase == ASSUME Base, ServeHTTP PROVE Base'
<1>1. /\ served = "http" /\ up # <<>> /\ up' = <<>>
      /\ network = "http" /\ conn = "connect" /\ down = <<>> /\ Len(up) <= 1
  BY DEF Base, Handshake, ServeHTTP
<1>2. Texts(Tail(up)) = {}
  BY <1>1, NoTexts DEF Base, Types
<1>3. PICK m \in {"200", "404"} : down' = Append(down, Msg(m))
  BY DEF ServeHTTP
<1>4. down' \in Seq(Downs) /\ Len(down') = 1
  BY <1>1, <1>3, AppendFacts, MsgFacts, ShortFacts, SMT
<1>5. lost' = {} /\ served' \in {"serving", "closed"}
  BY <1>2 DEF ServeHTTP, Base, Handshake
<1>6. UNCHANGED <<optVars, listener, conn, clientVars, respondLeft, handling,
                  dropped>> /\ waited' = 0
  BY DEF ServeHTTP
<1> QED
  BY <1>1, <1>4, <1>5, <1>6, ShortFacts, SMT
     DEF Base, Types, Handshake, optVars, clientVars

\* What serveConn reads is a request.
LEMMA ReadRequestBase == ASSUME Base, ReadRequest PROVE Base'
<1>1. /\ served = "serving" /\ up # <<>> /\ up' = Tail(up)
      /\ handling' = [handling EXCEPT ![Head(up).m] = 0]
      /\ UNCHANGED <<optVars, listener, conn, served, down, clientVars, histVars>>
      /\ waited' = 0
  BY DEF ReadRequest
<1>2. /\ Len(up) \in Nat \ {0} /\ Head(up) = up[1]
      /\ up' \in Seq(Ups) /\ Len(up') = Len(up) - 1
      /\ \A i \in 1 .. Len(up) - 1 : up'[i] = up[i + 1]
  BY <1>1, TailFacts DEF Base, Types
<1>3. Head(up).m \in Requests
  BY <1>1, <1>2, SMT DEF Base, Handshake
<1>4. handling' \in [Requests -> (0 .. MaxHandling) \cup {nil}]
  BY <1>1, <1>3, SMT DEF Base, Types
<1>5. respondLeft' \in Left
  BY OptionFacts, SMT DEF ReadRequest, Base, Types, Left, Larger
<1>6. conn \notin {"idle", "connect"}
  BY <1>1 DEF Base, Handshake
<1> QED
  BY <1>1, <1>2, <1>4, <1>5, <1>6, SMT
     DEF Base, Types, Handshake, optVars, clientVars, histVars

\* A connection that the server has closed takes no requests.
LEMMA ServeConnEndsBase == ASSUME Base, ServeConnEnds PROVE Base'
BY ShortFacts, SMT DEF Base, Types, Handshake, ServeConnEnds, optVars,
   clientVars, serverVars, histVars

\* A response is written to a client that is up.
LEMMA RespondBase ==
    ASSUME Base, NEW m \in Requests, Respond(m)
    PROVE  Base'
<1>1. /\ handling' = [handling EXCEPT ![m] = nil] /\ handling[m] # nil
      /\ UNCHANGED <<optVars, listener, conn, served, up, clientVars, waited,
                     respondLeft, lost>>
  BY DEF Respond
<1>2. conn \notin {"idle", "connect"}
  BY <1>1 DEF Base, Handshake, Nothing
<1>3. dropped' \in BOOLEAN
  BY Zenon DEF Respond, Base, Types
<1>4. down' = down \/ (conn = "up" /\ down' = Append(down, Msg(m)))
  BY DEF Respond
<1>5. down' \in Seq(Downs)
  <2>1. Msg(m) \in Downs
    BY MsgFacts DEF Requests
  <2> QED
    BY <1>4, <2>1, AppendFacts DEF Base, Types
<1>6. handling' \in [Requests -> (0 .. MaxHandling) \cup {nil}]
  BY <1>1 DEF Base, Types
<1>7. network = "http" /\ served \in {"queued", "http"} => FALSE
  BY <1>2 DEF Base, Handshake
<1> QED
  BY <1>1, <1>2, <1>3, <1>5, <1>6, <1>7
     DEF Base, Types, Handshake, optVars, clientVars

\* A crash leaves nothing to do for the server.
LEMMA CrashBase == ASSUME Base, Crash PROVE Base'
<1>1. /\ handling' = Nothing
      /\ handling' \in [Requests -> (0 .. MaxHandling) \cup {nil}]
  BY DEF Crash, Nothing
<1>2. /\ served' \in {"none", "closed", "gone"}
      /\ served' = "none" <=> served = "none"
  BY DEF Crash
<1>3. /\ up' = <<>> /\ listener' = "crashed"
      /\ UNCHANGED <<optVars, conn, down, clientVars, waited, respondLeft,
                     histVars>>
  BY DEF Crash
<1> QED
  BY <1>1, <1>2, <1>3, ShortFacts, SMT
     DEF Base, Types, Handshake, optVars, clientVars, histVars

\* The deadlines of a new connection.
LEMMA ConnectedFacts ==
    ASSUME Base, Connected
    PROVE  /\ conn' = "up" /\ UNCHANGED <<uptime, tick, waiting>>
           /\ readLeft' \in Left /\ writeLeft' \in Left
           /\ ticker' \in 1 .. Interval
<1>1. ticker' \in 1 .. Interval
  BY SMT DEF Connected
<1>2. readLeft' \in Left /\ writeLeft' \in Left
  BY OptionFacts DEF Connected, Base, Deadline, Left
<1> QED
  BY <1>1, <1>2 DEF Connected

\* Connect begins the handshake, or ends it at once.
LEMMA ConnectBase == ASSUME Base, Connect PROVE Base'
<1>0. /\ conn = "idle" /\ served = "none" /\ up = <<>> /\ down = <<>>
      /\ UNCHANGED <<optVars, listener, down, serverVars, histVars>>
  BY DEF Base, Handshake, Connect
<1>1. CASE network = "http" /\ newHttpConn /\ served' = "queued"
  BY <1>0, <1>1, ShortFacts, SMT
     DEF newHttpConn, Base, Types, Handshake, optVars, clientVars, serverVars,
         histVars
<1>2. CASE network # "http" /\ Connected /\ UNCHANGED up /\ served' = "queued"
  BY <1>0, <1>2, ConnectedFacts, ShortFacts, SMT
     DEF Base, Types, Handshake, optVars, serverVars, histVars
<1>3. CASE /\ conn' \in {"panic", "refused"} /\ UNCHANGED <<up, clientVars>>
           /\ served' = "none"
  BY <1>0, <1>3, SMT
     DEF Base, Types, Handshake, optVars, clientVars, serverVars, histVars
<1>4. ASSUME Connected PROVE conn' = "up"
  BY <1>4 DEF Connected
<1>5. ASSUME newHttpConn PROVE conn' = "connect"
  BY <1>5 DEF newHttpConn
<1>6. CASE network # "kcp" /\ conn' = "refused"
           /\ UNCHANGED <<served, up, clientVars>>
  BY <1>0, <1>3, <1>6
<1>7. CASE /\ CASE network = "http" -> newHttpConn
                 [] network = "kcp" -> newKcpConn
                 [] network = "quic" -> newQuicConn
                 [] OTHER -> newDirectConn
           /\ served' = IF conn' = "panic" THEN "none" ELSE "queued"
  <2>1. CASE network = "http"
    BY <1>1, <1>5, <1>7, <2>1
  <2>2. CASE network = "kcp"
    BY <1>2, <1>3, <1>4, <1>7, <2>2 DEF newKcpConn
  <2>3. CASE network = "quic"
    BY <1>2, <1>4, <1>7, <2>3 DEF newQuicConn
  <2>4. CASE network \notin {"http", "kcp", "quic"}
    BY <1>2, <1>4, <1>7, <2>4 DEF newDirectConn
  <2> QED
    BY <2>1, <2>2, <2>3, <2>4
<1> QED
  BY <1>6, <1>7 DEF Connect

\* The answer to the CONNECT is all that its buffer holds.
LEMMA ReadResponseBase == ASSUME Base, ReadResponse PROVE Base'
<1>0. /\ conn = "connect" /\ network = "http" /\ Len(down) <= 1
      /\ served # "none" /\ waiting = {}
      /\ UNCHANGED <<optVars, listener, served, up, serverVars, dropped>>
  BY DEF Base, Handshake, ReadResponse
<1>1. down # <<>> => Texts(Tail(down)) = {} /\ served \notin {"queued", "http"}
  BY <1>0, NoTexts DEF Base, Types, Handshake
<1>2. /\ lost' = {} /\ down' = <<>>
      /\ served \notin {"queued", "http"}
      /\ Connected \/ (conn' = "refused" /\ UNCHANGED clientVars)
  BY <1>1 DEF ReadResponse, Base, Handshake
<1>3. CASE Connected
  BY <1>0, <1>2, <1>3, ConnectedFacts, ShortFacts, SMT
     DEF Base, Types, Handshake, optVars, serverVars
<1>4. CASE conn' = "refused" /\ UNCHANGED clientVars
  BY <1>0, <1>2, <1>4, ShortFacts, SMT
     DEF Base, Types, Handshake, optVars, clientVars, serverVars
<1> QED
  BY <1>2, <1>3, <1>4

\* A call and a heartbeat are written to a connection that is up.
LEMMA WriteBase ==
    ASSUME Base, NEW m \in Requests, Write(m), conn = "up", tick' \in BOOLEAN,
           UNCHANGED <<optVars, listener, conn, served, down, readLeft,
                       writeLeft, uptime, ticker, serverVars, histVars>>
    PROVE  Base'
<1>1. waiting' \subseteq Requests
  BY DEF Write, Base, Types
<1>2. up' = up \/ (up' = Append(up, Msg(m)) /\ served \notin {"closed", "gone"})
  BY DEF Write
<1>3. Msg(m) \in Ups /\ Msg(m).m \in Requests
  BY MsgFacts DEF Requests
<1>4. up \in Seq(Ups) /\ Len(up) \in Nat
  BY LenProperties DEF Base, Types
<1>5. /\ up' \in Seq(Ups)
      /\ \A i \in 1 .. Len(up') : up'[i] = Msg(m) \/ (i \in 1 .. Len(up) /\ up'[i] = up[i])
  <2>1. CASE up' = up
    BY <1>4, <2>1
  <2>2. CASE up' = Append(up, Msg(m))
    BY <1>3, <1>4, <2>2, AppendFacts, SMT
  <2> QED
    BY <1>2, <2>1, <2>2
<1>6. served # "none"
  BY DEF Base, Handshake
<1> QED
  BY <1>1, <1>3, <1>5, <1>6
     DEF Base, Types, Handshake, optVars, serverVars, histVars

\* A call is written to a connection that is up.
LEMMA CallBase == ASSUME Base, Call PROVE Base'
<1>1. /\ Write("call") /\ "call" \in Requests /\ conn = "up"
      /\ UNCHANGED <<optVars, listener, conn, served, down, readLeft,
                     writeLeft, uptime, ticker, serverVars, histVars>>
  BY DEF Call, Requests
<1>2. tick' \in BOOLEAN
  BY DEF Call, Base, Types
<1> QED
  BY <1>1, <1>2, WriteBase

\* So is a heartbeat, which takes its tick.
LEMMA HeartbeatBase == ASSUME Base, Heartbeat PROVE Base'
<1>1. /\ Write("heartbeat") /\ "heartbeat" \in Requests /\ conn = "up"
      /\ tick' \in BOOLEAN
      /\ UNCHANGED <<optVars, listener, conn, served, down, readLeft,
                     writeLeft, uptime, ticker, serverVars, histVars>>
  BY Zenon DEF Heartbeat, Requests
<1> QED
  BY <1>1, WriteBase

\* A response is taken from the sequence.
LEMMA HandleResponseBase == ASSUME Base, HandleResponse PROVE Base'
<1>1. down' \in Seq(Downs)
  BY TailFacts DEF HandleResponse, Base, Types
<1> QED
  BY <1>1 DEF HandleResponse, Base, Types, Handshake, optVars, serverVars,
              histVars

\* The end of the reader leaves no response behind.
LEMMA ReaderEndsBase == ASSUME Base, ReaderEnds PROVE Base'
BY ShortFacts DEF ReaderEnds, Base, Types, Handshake, optVars, serverVars,
                  histVars

\* What remains of a deadline.
LEMMA SoonerFacts ==
    ASSUME NEW d \in Left
    PROVE  /\ Sooner(d) \in Left /\ (d = nil => Sooner(d) = nil)
           /\ d \in Nat => Sooner(d) \in Nat /\ Sooner(d) >= d - 1
           /\ d \in Nat /\ d # 0 => Sooner(d) = d - 1
<1>1. CASE d = nil
  BY <1>1 DEF Sooner, Left
<1>2. CASE d \in Nat
  BY <1>2, SMT DEF Sooner, Left, Larger
<1> QED
  BY <1>1, <1>2 DEF Left

\* Time passes for those that wait.
LEMMA TickBase == ASSUME Base, Tick PROVE Base'
<1>1. /\ UNCHANGED <<optVars, listener, conn, served, waiting, histVars>>
      /\ up' = Older(up) /\ down' = Older(down) /\ Prompt
  BY DEF Tick
<1>2. /\ up' \in Seq(Ups) /\ Len(up') = Len(up)
      /\ \A i \in 1 .. Len(up) : up'[i].m = up[i].m
  BY <1>1, OlderFacts, Zenon DEF Base, Types, Ups
<1>3. down' \in Seq(Downs) /\ Len(down') = Len(down)
  BY <1>1, OlderFacts, Zenon DEF Base, Types, Downs
<1>4. /\ readLeft' \in Left /\ writeLeft' \in Left /\ respondLeft' \in Left
  BY SoonerFacts DEF Tick, Base, Types
<1>5. waited' \in 0 .. MaxWait
  BY SMT DEF Tick, Base, Types
<1>6. ticker' \in 1 .. Interval
  BY SMT DEF Tick, Base, Types
<1>7. tick' \in BOOLEAN /\ (tick' = tick \/ conn = "up")
  BY Zenon DEF Tick, Base, Types
<1>8. uptime' \in Nat /\ (uptime' = uptime \/ conn = "up")
  BY SMT DEF Tick, Base, Types
<1>9. /\ handling' \in [Requests -> (0 .. MaxHandling) \cup {nil}]
      /\ handling = Nothing => handling' = Nothing
  <2>1. ASSUME NEW m \in Requests
        PROVE  /\ handling[m] \in (0 .. MaxHandling) \cup {nil}
               /\ handling[m] # nil => handling[m] < MaxHandling
    BY <1>1 DEF Prompt, Base, Types
  <2>2. ASSUME NEW m \in Requests, handling[m] # nil
        PROVE  handling[m] + 1 \in 0 .. MaxHandling
    BY <2>1, <2>2, SMT
  <2> QED
    BY <2>2 DEF Tick, Nothing
<1>10. /\ up = <<>> => up' = <<>>
       /\ down = <<>> => down' = <<>>
  BY <1>2, <1>3, ShortFacts, EmptySeq, SMT DEF Base, Types
<1> QED
  BY <1>1, <1>2, <1>3, <1>4, <1>5, <1>6, <1>7, <1>8, <1>9, <1>10
     DEF Base, Types, Handshake, optVars, histVars

\* Every step keeps Base.
LEMMA NextBase == ASSUME Base, [Next]_vars PROVE Base'
<1>1. CASE UNCHANGED vars
  BY <1>1 DEF vars, Base, Types, Handshake, optVars, clientVars, serverVars,
              histVars
<1>2. CASE Next
  BY <1>2, makeListenerBase, AcceptBase, ServeHTTPBase, ReadRequestBase,
     ServeConnEndsBase, RespondBase, CrashBase, ConnectBase, ReadResponseBase,
     CallBase, HeartbeatBase, HandleResponseBase, ReaderEndsBase, TickBase
     DEF Next, Server, Client
<1> QED
  BY <1>1, <1>2

\* Types and handshake are invariants.
LEMMA BaseInvariant == Spec => []Base
BY InitBase, NextBase, PTL DEF Spec

-----------------------------------------------------------------------------
\* newHttpConn waits for the answer to its CONNECT before Connect starts to
\* write requests, and ServeHTTP answers before serveConn starts to respond:
\* for any delays, the buffers that both drop hold nothing.
THEOREM NothingLost == Spec => []HandshakeLosesNothing
<1>1. Base => HandshakeLosesNothing
  BY DEF Base, Handshake, HandshakeLosesNothing
<1> QED
  BY <1>1, BaseInvariant, PTL

-----------------------------------------------------------------------------
(* The life of a connection. *)

\* The read deadline is set by Connect and only comes nearer.
Lifetime ==
    conn = "up" /\ copt.readTimeout # 0 =>
        readLeft \in Nat /\ uptime + readLeft = copt.readTimeout

\* Connect starts the count.
LEMMA ConnectedLifetime ==
    ASSUME Base, Connected, uptime = 0, UNCHANGED optVars
    PROVE  Lifetime'
<1>1. /\ uptime' = 0 /\ readLeft' = Deadline(copt.readTimeout)
      /\ copt' = copt /\ copt.readTimeout \in Nat
  BY OptionFacts DEF Connected, optVars, Base
<1> QED
  BY <1>1, SMT DEF Lifetime, Deadline

\* Only Connect sets the read deadline, and time alone brings it nearer.
LEMMA NextLifetime == ASSUME Base, Lifetime, [Next]_vars PROVE Lifetime'
<1>1. CASE UNCHANGED <<optVars, conn, readLeft, uptime>>
  BY <1>1 DEF Lifetime, optVars
<1>2. CASE conn' # "up"
  BY <1>2 DEF Lifetime
<1>3. CASE Connect
  <2>1. uptime = 0 /\ UNCHANGED optVars
    BY <1>3 DEF Connect, Base, Handshake
  <2> QED
    BY <1>2, <1>3, <2>1, ConnectedLifetime
       DEF Connect, newHttpConn, newKcpConn, newQuicConn,
           newDirectConn
<1>4. CASE ReadResponse
  <2>1. uptime = 0 /\ UNCHANGED optVars
    BY <1>4 DEF ReadResponse, Base, Handshake
  <2> QED
    BY <1>2, <1>4, <2>1, ConnectedLifetime DEF ReadResponse
<1>5. CASE Tick /\ conn = "up" /\ copt.readTimeout # 0
  <2>1. readLeft \in Nat /\ readLeft # 0 /\ readLeft' = Sooner(readLeft)
    BY <1>5 DEF Tick, Prompt, Passed, Lifetime
  <2>2. /\ copt' = copt /\ uptime' = uptime + 1
        /\ copt.readTimeout \in Nat /\ uptime \in Nat
    BY <1>5, OptionFacts DEF Tick, optVars, Base, Types
  <2>3. readLeft' = readLeft - 1
    BY <2>1, SoonerFacts DEF Left
  <2> QED
    BY <1>5, <2>1, <2>2, <2>3, SMT DEF Lifetime
<1>6. CASE Tick /\ ~(conn = "up" /\ copt.readTimeout # 0)
  BY <1>6 DEF Tick, Lifetime, optVars
<1>7. CASE makeListener \/ Accept \/ ServeHTTP \/ ReadRequest \/ ServeConnEnds
           \/ (\E m \in Requests : Respond(m)) \/ Crash \/ UNCHANGED vars
  BY <1>1, <1>7, Zenon
     DEF makeListener, Accept, ServeHTTP, ReadRequest, ServeConnEnds, Respond,
         Crash, vars, clientVars
<1>8. CASE Call \/ Heartbeat \/ HandleResponse \/ ReaderEnds
  BY <1>1, <1>2, <1>8 DEF Call, Heartbeat, HandleResponse, ReaderEnds
<1> QED
  BY <1>3, <1>4, <1>5, <1>6, <1>7, <1>8 DEF Next, Server, Client

\* A client with a read timeout is connected for that time at most, however
\* many responses and heartbeats arrive: Connect sets the deadline once.
THEOREM LifeIsLimited == Spec => []NeverOutlivesReadTimeout
<1>1. Init => Lifetime
  BY Zenon DEF Init, Lifetime
<1>2. Base /\ Lifetime => NeverOutlivesReadTimeout
  <2>1. Base => copt.readTimeout \in Nat /\ uptime \in Nat
    BY OptionFacts DEF Base, Types
  <2> QED
    BY <2>1, SMT DEF Lifetime, NeverOutlivesReadTimeout
<1> QED
  BY <1>1, <1>2, NextLifetime, BaseInvariant, PTL DEF Spec

-----------------------------------------------------------------------------
(* Heartbeats keep a connection, for any interval and any bounds on the      *)
(* delays, if the server's timeouts leave room for them.  The invariant      *)
(* follows the one heartbeat that is under way on its round, and says how    *)
(* long serveConn may have waited by then.                                   *)

\* The options of a client and a server that heartbeats keep together.
Good ==
    /\ listener \in {"none", "open"}
    /\ copt.heartbeat /\ copt.writeTimeout = 0
    /\ sopt.readTimeout = 0 \/ sopt.readTimeout > Gap
    /\ sopt.writeTimeout = 0 \/ sopt.writeTimeout > Gap + MaxHandling

\* The places of a heartbeat in a sequence of messages.
Hb(msgs) == {i \in 1 .. Len(msgs) : msgs[i].m = "heartbeat"}
Handled == handling["heartbeat"] # nil

\* The server has waited no longer than the answer to the CONNECT is old.
Answered ==
    /\ served = "serving" => down # <<>> /\ waited <= down[1].age
    /\ \A i \in 1 .. Len(down) : down[i].m = "200" => served = "serving"

\* A heartbeat goes round: none is under way, and the next is due; it is on
\* its way to the server; it is handled; its response is on its way.
Idle ==
    /\ "heartbeat" \notin waiting
    /\ Hb(up) = {} /\ ~Handled /\ Hb(down) = {}
    /\ served = "serving" =>
          /\ waited <= MaxDelay + Larger(Interval, MaxHandling)
          /\ ~tick => waited + ticker <= Interval + MaxDelay

Sent ==
    /\ "heartbeat" \in waiting
    /\ ~Handled /\ Hb(down) = {}
    /\ \E i \in 1 .. Len(up) :
          /\ Hb(up) = {i}
          /\ served = "serving" =>
               waited <= MaxDelay + Larger(Interval, MaxHandling) + up[i].age

InHand ==
    /\ "heartbeat" \in waiting
    /\ Hb(up) = {} /\ Handled /\ Hb(down) = {}
    /\ served = "serving" => /\ waited <= handling["heartbeat"]
                             /\ ~tick => waited + ticker <= Interval

Returns ==
    /\ "heartbeat" \in waiting
    /\ Hb(up) = {} /\ ~Handled
    /\ \E i \in 1 .. Len(down) :
          /\ Hb(down) = {i}
          /\ served = "serving" => waited <= MaxHandling + down[i].age
    /\ served = "serving" => (~tick => waited + ticker <= Interval)

\* The write deadline leaves time for what is handled.
CanRespond ==
    IF sopt.writeTimeout = 0
      THEN respondLeft = nil
      ELSE \A m \in Requests : handling[m] # nil =>
              /\ respondLeft \in Nat
              /\ respondLeft > MaxHandling - handling[m]

Kept ==
    /\ served \in {"queued", "serving"} /\ ~dropped /\ writeLeft = nil
    /\ Idle \/ Sent \/ InHand \/ Returns

Healthy ==
    /\ conn \in {"idle", "connect", "up"} => CanRespond
    /\ conn = "connect" => Answered
    /\ conn = "up" => Kept

Keeps == Good => Healthy

\* Where heartbeats are after a message is added.
LEMMA HbAppend ==
    ASSUME NEW S, NEW q \in Seq(S), NEW x \in S
    PROVE  /\ x.m = "heartbeat" => Hb(Append(q, x)) = Hb(q) \cup {Len(q) + 1}
           /\ x.m # "heartbeat" => Hb(Append(q, x)) = Hb(q)
<1>1. /\ Len(q) \in Nat /\ Len(Append(q, x)) = Len(q) + 1
      /\ \A i \in 1 .. Len(q) : Append(q, x)[i] = q[i]
      /\ Append(q, x)[Len(q) + 1] = x
  BY AppendFacts, LenProperties
<1> DEFINE a == Append(q, x)
           n == Len(q)
<1>2. 1 .. Len(a) = (1 .. n) \cup {n + 1} /\ n + 1 \notin 1 .. n
  BY <1>1, SMT
<1>3. \A i \in 1 .. n : a[i].m = q[i].m
  BY <1>1
<1>4. a[n + 1].m = x.m
  BY <1>1
<1> HIDE DEF a, n
<1>5. Hb(a) = {i \in 1 .. n : q[i].m = "heartbeat"}
              \cup {i \in {n + 1} : x.m = "heartbeat"}
  BY <1>2, <1>3, <1>4 DEF Hb
<1> QED
  BY <1>5 DEF Hb, a, n

\* Where they are after the first message is taken.
LEMMA HbTail ==
    ASSUME NEW S, NEW q \in Seq(S), q # <<>>
    PROVE  /\ Hb(q) = {} => Hb(Tail(q)) = {} /\ Head(q).m # "heartbeat"
           /\ Hb(q) = {1} => Hb(Tail(q)) = {} /\ Head(q).m = "heartbeat"
           /\ \A i \in 1 .. Len(q) : Hb(q) = {i} /\ i # 1 =>
                 /\ Head(q).m # "heartbeat" /\ i - 1 \in 1 .. Len(Tail(q))
                 /\ Hb(Tail(q)) = {i - 1} /\ Tail(q)[i - 1] = q[i]
<1> DEFINE t == Tail(q)
           n == Len(q)
<1>1. /\ n \in Nat \ {0} /\ Head(q) = q[1] /\ Len(t) = n - 1
      /\ \A i \in 1 .. n - 1 : t[i] = q[i + 1]
  BY TailFacts
<1> HIDE DEF t, n
<1>2. \A i \in 1 .. n : i \in Hb(q) <=> q[i].m = "heartbeat"
  BY DEF Hb, n
<1>3. \A i \in 1 .. n - 1 : i \in Hb(t) <=> q[i + 1].m = "heartbeat"
  BY <1>1 DEF Hb
<1>4. \A i : i \in Hb(t) => i \in 1 .. n - 1
  BY <1>1 DEF Hb
<1>5. \A i \in 1 .. n - 1 : i \in Hb(t) <=> i + 1 \in Hb(q)
  BY <1>1, <1>2, <1>3, SMT
<1>6. 1 \in Hb(q) <=> Head(q).m = "heartbeat"
  BY <1>1, <1>2, SMT
<1>7. Hb(q) = {} => Hb(t) = {}
  BY <1>4, <1>5
<1>8. Hb(q) = {1} => Hb(t) = {}
  BY <1>1, <1>4, <1>5, SMT
<1>9. ASSUME NEW i \in 1 .. n, Hb(q) = {i}, i # 1
      PROVE  i - 1 \in 1 .. n - 1 /\ Hb(t) = {i - 1} /\ t[i - 1] = q[i]
  <2>1. i - 1 \in 1 .. n - 1 /\ i - 1 + 1 = i
    BY <1>1, <1>9, SMT
  <2>2. i - 1 \in Hb(t)
    BY <1>5, <1>9, <2>1
  <2>3. \A j \in Hb(t) : j = i - 1
    BY <1>1, <1>4, <1>5, <1>9, SMT
  <2> QED
    BY <1>1, <2>1, <2>2, <2>3
<1> QED
  BY <1>1, <1>6, <1>7, <1>8, <1>9 DEF t, n

\* Time does not move them.
LEMMA HbOlder ==
    ASSUME NEW M, NEW q \in Seq([m : M, age : 0 .. MaxDelay])
    PROVE  Hb(Older(q)) = Hb(q)
BY OlderFacts, Zenon DEF Hb

\* There is none where nothing is.
LEMMA HbEmpty == Hb(<<>>) = {}
<1>1. Len(<<>>) = 0 /\ 1 .. 0 = {}
  BY SMT
<1> QED
  BY <1>1 DEF Hb

\* The bounds are numbers.
LEMMA GapFacts ==
    /\ Larger(Interval, MaxHandling) \in Nat
    /\ Larger(Interval, MaxHandling) >= Interval
    /\ Larger(Interval, MaxHandling) >= MaxHandling
    /\ Gap \in Nat /\ Gap = 2 * MaxDelay + Larger(Interval, MaxHandling)
BY SMT DEF Larger, Gap

\* The types of what is counted.
LEMMA CountFacts ==
    ASSUME Base
    PROVE  /\ waited \in Nat /\ ticker \in 1 .. Interval
           /\ \A i \in 1 .. Len(up) : up[i].age \in 0 .. MaxDelay
           /\ \A i \in 1 .. Len(down) : down[i].age \in 0 .. MaxDelay
           /\ \A m \in Requests : handling[m] # nil =>
                 handling[m] \in 0 .. MaxHandling
           /\ handling["heartbeat"] # nil =>
                 handling["heartbeat"] \in 0 .. MaxHandling
           /\ Len(up) \in Nat /\ Len(down) \in Nat
           /\ up \in Seq(Ups) /\ down \in Seq(Downs)
<1>1. /\ \A i \in 1 .. Len(up) : up[i] \in Ups
      /\ \A i \in 1 .. Len(down) : down[i] \in Downs
      /\ up \in Seq(Ups) /\ down \in Seq(Downs)
  BY ElementOfSeq DEF Base, Types
<1>2. Len(up) \in Nat /\ Len(down) \in Nat
  BY <1>1, LenProperties
<1>3. "heartbeat" \in Requests
  BY DEF Requests
<1>4. waited \in Nat /\ ticker \in 1 .. Interval
  BY SMT DEF Base, Types
<1> QED
  BY <1>1, <1>2, <1>3, <1>4 DEF Base, Types, Ups, Downs

\* The counts of the server and of the ticker.
LEMMA WaitFacts == ASSUME Base PROVE waited \in Nat /\ ticker \in 1 .. Interval
BY CountFacts

\* A wait that begins is within all the bounds.
LEMMA NewWait ==
    ASSUME Base
    PROVE  /\ 0 <= MaxDelay + Larger(Interval, MaxHandling)
           /\ 0 + ticker <= Interval + MaxDelay /\ 0 + ticker <= Interval
           /\ \A i \in 1 .. Len(up) :
                 0 <= MaxDelay + Larger(Interval, MaxHandling) + up[i].age
           /\ \A i \in 1 .. Len(down) : 0 <= MaxHandling + down[i].age
<1>1. /\ 0 <= MaxDelay + Larger(Interval, MaxHandling)
      /\ 0 + ticker <= Interval + MaxDelay /\ 0 + ticker <= Interval
  BY CountFacts, GapFacts, SMT
<1>2. \A a \in 0 .. MaxDelay :
        /\ 0 <= MaxDelay + Larger(Interval, MaxHandling) + a
        /\ 0 <= MaxHandling + a
  BY GapFacts, SMT
<1> QED
  BY <1>1, <1>2, CountFacts, Zenon

\* While heartbeats go round, serveConn never waits for longer than Gap.
LEMMA WithinGap ==
    ASSUME Base, Healthy, conn \in {"connect", "up"}, served = "serving"
    PROVE  waited <= Gap
<1>1. CASE conn = "connect"
  <2>1. 1 \in 1 .. Len(down) /\ waited <= down[1].age
    BY <1>1, CountFacts, EmptySeq, SMT DEF Healthy, Answered
  <2> QED
    BY <2>1, CountFacts, GapFacts, SMTT(30)
<1>2. CASE Idle
  BY <1>2, WaitFacts, GapFacts, SMT DEF Idle
<1>3. CASE Sent
  <2>1. PICK i \in 1 .. Len(up) :
          waited <= MaxDelay + Larger(Interval, MaxHandling) + up[i].age
    BY <1>3 DEF Sent
  <2>2. up[i].age \in 0 .. MaxDelay
    BY CountFacts
  <2> QED
    BY <2>1, <2>2, WaitFacts, GapFacts, SMTT(30)
<1>4. CASE InHand
  BY <1>4, CountFacts, GapFacts, SMT DEF InHand, Handled
<1>5. CASE Returns
  <2>1. PICK i \in 1 .. Len(down) : waited <= MaxHandling + down[i].age
    BY <1>5 DEF Returns
  <2>2. down[i].age \in 0 .. MaxDelay
    BY CountFacts
  <2> QED
    BY <2>1, <2>2, WaitFacts, GapFacts, SMTT(30)
<1> QED
  BY <1>1, <1>2, <1>3, <1>4, <1>5 DEF Healthy, Kept

\* The read deadline of the server does not pass.
LEMMA NotExpired ==
    ASSUME Base, Good, Healthy, conn \in {"connect", "up"}
    PROVE  ~ReadExpired
<1>1. sopt.readTimeout \in Nat
  BY OptionFacts DEF Base
<1> QED
  BY <1>1, WithinGap, CountFacts, GapFacts, SMT DEF ReadExpired, Good

\* What Healthy is about; a step of other variables keeps it.
LEMMA SameHealthy ==
    ASSUME Healthy,
           UNCHANGED <<optVars, conn, served, up, down, clientVars, serverVars,
                       histVars>>
    PROVE  Healthy'
BY Zenon DEF Healthy, CanRespond, Answered, Kept, Idle, Sent, InHand, Returns, Hb,
       Handled, optVars, clientVars, serverVars, histVars

\* serveConn starts to wait.
LEMMA AcceptHealthy == ASSUME Base, Good, Healthy, Accept PROVE Healthy'
<1>1. /\ served = "queued" /\ waited' = 0
      /\ served' = IF network = "http" THEN "http" ELSE "serving"
      /\ UNCHANGED <<optVars, listener, conn, up, down, clientVars,
                     respondLeft, handling, histVars>>
  BY DEF Accept
<1>2. ASSUME conn' \in {"idle", "connect", "up"} PROVE CanRespond'
  BY <1>1, <1>2 DEF Healthy, CanRespond, optVars
<1>3. ASSUME conn' = "connect" PROVE Answered'
  BY <1>1, <1>3, ShortFacts, SMT DEF Base, Handshake, Answered, optVars
<1>4. ASSUME conn' = "up" PROVE Kept'
  <2>1. Kept /\ network # "http"
    BY <1>1, <1>4 DEF Healthy, Base, Handshake
  <2>2. /\ 0 <= MaxDelay + Larger(Interval, MaxHandling)
        /\ 0 + ticker <= Interval + MaxDelay /\ 0 + ticker <= Interval
    BY NewWait
  <2>3. /\ \A i \in 1 .. Len(up) :
              0 <= MaxDelay + Larger(Interval, MaxHandling) + up[i].age
        /\ \A i \in 1 .. Len(down) : 0 <= MaxHandling + down[i].age
    BY NewWait
  <2>4. Handled => 0 <= handling["heartbeat"]
    BY CountFacts, SMT DEF Handled
  <2>5. Idle => Idle'
    BY <1>1, <2>2 DEF Idle, Handled, Hb, clientVars
  <2>6. Sent => Sent'
    BY <1>1, <2>3 DEF Sent, Handled, Hb, clientVars
  <2>7. InHand => InHand'
    BY <1>1, <2>2, <2>4 DEF InHand, Handled, Hb, clientVars
  <2>8. Returns => Returns'
    BY <1>1, <2>2, <2>3 DEF Returns, Handled, Hb, clientVars
  <2> QED
    BY <1>1, <2>1, <2>5, <2>6, <2>7, <2>8 DEF Kept, clientVars, histVars
<1> QED
  BY <1>2, <1>3, <1>4 DEF Healthy

\* The answer to the CONNECT is as old as the wait of serveConn.
LEMMA ServeHTTPHealthy == ASSUME Base, Good, Healthy, ServeHTTP PROVE Healthy'
<1>1. /\ conn = "connect" /\ down = <<>> /\ waited' = 0
      /\ UNCHANGED <<optVars, conn, respondLeft, handling>>
  BY DEF ServeHTTP, Base, Handshake
<1>2. CanRespond'
  BY <1>1 DEF Healthy, CanRespond, optVars
<1>3. PICK m \in {"200", "404"} :
        /\ down' = Append(down, Msg(m))
        /\ m = "200" => served' = "serving"
        /\ m # "200" => served' # "serving"
  BY DEF ServeHTTP
<1>4. Msg(m) \in Downs /\ Msg(m).m = m /\ Msg(m).age = 0
  BY <1>3, MsgFacts
<1>5. down' = <<Msg(m)>> /\ Len(down') = 1 /\ down'[1] = Msg(m)
  BY <1>1, <1>3, <1>4, SMT
<1>6. down' # <<>> /\ \A i \in 1 .. Len(down') : down'[i].m = m
  BY <1>4, <1>5, SMT
<1> QED
  BY <1>1, <1>2, <1>3, <1>4, <1>5, <1>6, SMT DEF Healthy, Answered

\* serveConn reads in time to respond, and starts to wait anew.
LEMMA ReadRequestHealthy ==
    ASSUME Base, Good, Healthy, ReadRequest
    PROVE  Healthy'
<1>1. /\ served = "serving" /\ up # <<>> /\ up' = Tail(up)
      /\ handling' = [handling EXCEPT ![Head(up).m] = 0]
      /\ respondLeft' = IF sopt.writeTimeout = 0 THEN nil
                        ELSE Larger(sopt.writeTimeout - waited, 0)
      /\ UNCHANGED <<optVars, listener, conn, served, down, clientVars,
                     histVars>>
      /\ waited' = 0
  BY DEF ReadRequest
<1>2. /\ Len(up) \in Nat \ {0} /\ Head(up) = up[1]
      /\ up' \in Seq(Ups) /\ Len(up') = Len(up) - 1
  BY <1>1, TailFacts DEF Base, Types
<1>3. Head(up).m \in Requests
  BY <1>1, <1>2, SMT DEF Base, Handshake
<1>4. /\ \A m \in Requests : m # Head(up).m => handling'[m] = handling[m]
      /\ handling'[Head(up).m] = 0
  BY <1>1, <1>3 DEF Base, Types
<1>5. conn \notin {"idle", "connect"}
  BY <1>1, <1>2, SMT DEF Base, Handshake
<1>6. ASSUME conn = "up" PROVE CanRespond'
  <2>1. waited <= Gap /\ waited \in Nat /\ sopt.writeTimeout \in Nat
    BY <1>1, <1>6, WithinGap, CountFacts, OptionFacts DEF Base
  <2>2. sopt.writeTimeout # 0 => respondLeft' \in Nat /\ respondLeft' > MaxHandling
    BY <1>1, <2>1, GapFacts, SMT DEF Good, Larger
  <2>3. \A m \in Requests : handling'[m] # nil => handling'[m] \in Nat
    BY <1>3, <1>4, CountFacts, SMT
  <2>4. sopt.writeTimeout # 0 =>
           \A m \in Requests : handling'[m] # nil =>
              respondLeft' \in Nat /\ respondLeft' > MaxHandling - handling'[m]
    BY <2>2, <2>3, SMT
  <2> QED
    BY <1>1, <2>4 DEF CanRespond, optVars
<1>7. ASSUME conn = "up" PROVE Kept'
  <2>1. Kept
    BY <1>7 DEF Healthy
  <2>2. /\ 0 <= MaxDelay + Larger(Interval, MaxHandling)
        /\ 0 + ticker <= Interval + MaxDelay /\ 0 + ticker <= Interval
    BY NewWait
  <2>3. /\ \A i \in 1 .. Len(up) :
              0 <= MaxDelay + Larger(Interval, MaxHandling) + up[i].age
        /\ \A i \in 1 .. Len(down) : 0 <= MaxHandling + down[i].age
    BY NewWait
  <2>4. /\ Hb(up) = {} => Hb(up') = {} /\ Head(up).m # "heartbeat"
        /\ Hb(up) = {1} => Hb(up') = {} /\ Head(up).m = "heartbeat"
        /\ \A i \in 1 .. Len(up) : Hb(up) = {i} /\ i # 1 =>
              /\ Head(up).m # "heartbeat" /\ i - 1 \in 1 .. Len(up')
              /\ Hb(up') = {i - 1} /\ up'[i - 1] = up[i]
    BY <1>1, HbTail DEF Base, Types
  <2>5. Hb(up)' = Hb(up') /\ Hb(down)' = Hb(down)
    BY <1>1 DEF Hb
  <2>6. Head(up).m # "heartbeat" => handling'["heartbeat"] = handling["heartbeat"]
    BY <1>4 DEF Requests
  <2>7. Idle => Idle'
    BY <1>1, <2>2, <2>4, <2>5, <2>6 DEF Idle, Handled, clientVars
  <2>8. ASSUME Sent PROVE Sent' \/ InHand'
    <3>1. PICK i \in 1 .. Len(up) : Hb(up) = {i}
      BY <2>8 DEF Sent
    <3>2. CASE i = 1
      <4>1. handling'["heartbeat"] = 0 /\ 0 # nil /\ Hb(up') = {}
        BY <1>4, <2>4, <3>1, <3>2
      <4> QED
        BY <1>1, <2>2, <2>5, <2>8, <4>1, SMT DEF Sent, InHand, Handled, clientVars
    <3>3. CASE i # 1
      <4>1. /\ Head(up).m # "heartbeat" /\ i - 1 \in 1 .. Len(up')
            /\ Hb(up') = {i - 1} /\ up'[i - 1] = up[i]
        BY <2>4, <3>1, <3>3
      <4>2. 0 <= MaxDelay + Larger(Interval, MaxHandling) + up'[i - 1].age
        BY <2>3, <4>1
      <4> QED
        BY <1>1, <2>5, <2>6, <2>8, <4>1, <4>2 DEF Sent, Handled, clientVars
    <3> QED
      BY <3>2, <3>3
  <2>9. ASSUME InHand PROVE InHand'
    <3>1. handling["heartbeat"] # nil /\ 0 <= handling["heartbeat"]
      BY <2>9, CountFacts, SMT DEF InHand, Handled
    <3> QED
      BY <1>1, <2>2, <2>4, <2>5, <2>6, <2>9, <3>1 DEF InHand, Handled, clientVars
  <2>10. Returns => Returns'
    BY <1>1, <2>2, <2>3, <2>4, <2>5, <2>6 DEF Returns, Handled, clientVars
  <2> QED
    BY <1>1, <2>1, <2>7, <2>8, <2>9, <2>10 DEF Kept, clientVars, histVars
<1> QED
  BY <1>1, <1>5, <1>6, <1>7 DEF Healthy

\* The server does not close the connection.
LEMMA ServeConnEndsHealthy ==
    ASSUME Base, Good, Healthy, ServeConnEnds
    PROVE  Healthy'
<1>1. conn \notin {"connect", "up"} /\ UNCHANGED <<optVars, conn, serverVars>>
  BY NotExpired DEF ServeConnEnds
<1> QED
  BY <1>1 DEF Healthy, CanRespond, optVars, serverVars

\* A response is written, and takes the heartbeat along.
LEMMA RespondHealthy ==
    ASSUME Base, Good, Healthy, NEW m \in Requests, Respond(m)
    PROVE  Healthy'
<1>1. /\ handling' = [handling EXCEPT ![m] = nil] /\ handling[m] # nil
      /\ UNCHANGED <<optVars, listener, conn, served, up, clientVars, waited,
                     respondLeft, lost>>
  BY DEF Respond
<1>2. conn \notin {"idle", "connect"}
  BY <1>1 DEF Base, Handshake, Nothing
<1>3. \A k \in Requests : handling'[k] = IF k = m THEN nil ELSE handling[k]
  BY <1>1 DEF Base, Types
<1>4. ASSUME conn = "up" PROVE CanRespond' /\ Kept'
  <2>1. CanRespond /\ Kept
    BY <1>4 DEF Healthy
  <2>2. CanRespond'
    BY <1>1, <1>3, <2>1 DEF CanRespond, optVars
  <2>3. ~Passed(respondLeft)
    <3>1. CASE sopt.writeTimeout = 0
      BY <2>1, <3>1, SMT DEF CanRespond, Passed
    <3>2. CASE sopt.writeTimeout # 0
      <4>1. respondLeft \in Nat /\ respondLeft > MaxHandling - handling[m]
        BY <1>1, <2>1, <3>2 DEF CanRespond
      <4>2. handling[m] \in 0 .. MaxHandling
        BY <1>1, CountFacts
      <4> QED
        BY <4>1, <4>2, SMT DEF Passed
    <3> QED
      BY <3>1, <3>2
  <2>4. down' = Append(down, Msg(m)) /\ dropped' = dropped
    BY <1>4, <2>1, <2>3 DEF Respond, Kept
  <2>5. Msg(m) \in Downs /\ Msg(m).m = m /\ Msg(m).age = 0
    BY MsgFacts DEF Requests
  <2>6. /\ m = "heartbeat" => Hb(down') = Hb(down) \cup {Len(down) + 1}
        /\ m # "heartbeat" => Hb(down') = Hb(down)
    BY <2>4, <2>5, CountFacts, HbAppend
  <2>7. /\ \A i \in 1 .. Len(down) : i \in 1 .. Len(down') /\ down'[i] = down[i]
        /\ Len(down) + 1 \in 1 .. Len(down') /\ down'[Len(down) + 1] = Msg(m)
    <3>1. /\ Len(down') = Len(down) + 1
          /\ \A i \in 1 .. Len(down) : down'[i] = down[i]
          /\ down'[Len(down) + 1] = Msg(m)
      BY <2>4, <2>5, CountFacts, AppendFacts
    <3> QED
      BY <3>1, CountFacts, SMT
  <2>8. Hb(up)' = Hb(up) /\ Hb(down)' = Hb(down')
    BY <1>1 DEF Hb
  <2>9. CASE m = "heartbeat"
    <3>1. InHand /\ ~Handled'
      BY <1>1, <1>3, <2>1, <2>9 DEF Kept, Idle, Sent, Returns, Handled
    <3>2. served = "serving" => waited <= MaxHandling + 0
      BY <1>1, <2>9, <3>1, CountFacts, SMT DEF InHand, Handled
    <3>3. Hb(down') = {Len(down) + 1}
      BY <2>6, <2>9, <3>1 DEF InHand
    <3>4. Returns'
      BY <1>1, <2>5, <2>7, <2>8, <3>1, <3>2, <3>3
         DEF InHand, Returns, clientVars
    <3> QED
      BY <1>1, <2>1, <2>2, <2>4, <3>4 DEF Kept, clientVars
  <2>10. CASE m # "heartbeat"
    <3>1. Handled' = Handled /\ handling'["heartbeat"] = handling["heartbeat"]
      BY <1>3, <2>10 DEF Handled, Requests
    <3>2. Idle => Idle'
      BY <1>1, <2>6, <2>8, <2>10, <3>1 DEF Idle, clientVars
    <3>3. Sent => Sent'
      BY <1>1, <2>6, <2>8, <2>10, <3>1, Zenon DEF Sent, clientVars
    <3>4. InHand => InHand'
      BY <1>1, <2>6, <2>8, <2>10, <3>1 DEF InHand, clientVars
    <3>5. Returns => Returns'
      BY <1>1, <2>6, <2>7, <2>8, <2>10, <3>1, Zenon DEF Returns, clientVars
    <3> QED
      BY <1>1, <2>1, <2>2, <2>4, <3>2, <3>3, <3>4, <3>5 DEF Kept, clientVars
  <2> QED
    BY <2>9, <2>10
<1> QED
  BY <1>1, <1>2, <1>4 DEF Healthy

\* A connection that is new has nothing under way, and its first heartbeat is
\* due after Interval.
LEMMA ConnectedHealthy ==
    ASSUME Base, Good, Healthy, Connected, conn \in {"idle", "connect"},
           UNCHANGED <<optVars, serverVars, dropped>>,
           up' = <<>>, down' = <<>>, served' \in {"queued", "serving"},
           served' = "serving" => waited <= MaxDelay
    PROVE  Healthy'
<1>1. /\ waiting' = {} /\ ~dropped' /\ handling' = Nothing
      /\ conn' = "up" /\ ticker' = Interval /\ waited' = waited
  BY DEF Connected, Base, Handshake, serverVars
<1>2. writeLeft' = nil
  BY DEF Connected, Good, Deadline
<1>3. CanRespond'
  BY DEF Healthy, CanRespond, optVars, serverVars
<1>4. Hb(up)' = {} /\ Hb(down)' = {} /\ ~Handled'
  BY <1>1, HbEmpty DEF Hb, Handled, Nothing, Requests
<1>5. served' = "serving" =>
        /\ waited' <= MaxDelay + Larger(Interval, MaxHandling)
        /\ waited' + ticker' <= Interval + MaxDelay
  BY <1>1, CountFacts, GapFacts, SMTT(30)
<1>6. Idle'
  BY <1>1, <1>4, <1>5 DEF Idle
<1> QED
  BY <1>1, <1>2, <1>3, <1>6 DEF Healthy, Kept

\* Connect leaves a new connection, or one that waits for its answer.
LEMMA ConnectHealthy == ASSUME Base, Good, Healthy, Connect PROVE Healthy'
<1>1. /\ conn = "idle" /\ up = <<>> /\ down = <<>>
      /\ UNCHANGED <<optVars, listener, down, serverVars, histVars>>
  BY DEF Base, Handshake, Connect
<1>2. CanRespond'
  BY <1>1 DEF Healthy, CanRespond, optVars, serverVars
<1>3. CASE conn' \in {"refused", "panic"}
  BY <1>3 DEF Healthy
<1>4. CASE newHttpConn /\ served' = "queued"
  <2>1. conn' = "connect" /\ down' = <<>>
    BY <1>1, <1>4 DEF newHttpConn
  <2> QED
    BY <1>2, <1>4, <2>1, ShortFacts, SMT DEF Healthy, Answered
<1>5. CASE Connected /\ UNCHANGED up /\ served' = "queued"
  BY <1>1, <1>5, ConnectedHealthy DEF histVars
<1>6. newHttpConn => conn' = "connect"
  BY DEF newHttpConn
<1>7. Connected => conn' = "up"
  BY DEF Connected
<1> QED
  BY <1>3, <1>4, <1>5, <1>6, <1>7 DEF Connect, newKcpConn,
     newQuicConn, newDirectConn

\* The answer comes soon enough for the server that waits.
LEMMA ReadResponseHealthy ==
    ASSUME Base, Good, Healthy, ReadResponse
    PROVE  Healthy'
<1>1. /\ conn = "connect" /\ Len(down) <= 1 /\ Answered
      /\ UNCHANGED <<optVars, listener, served, up, serverVars, dropped>>
  BY DEF Base, Handshake, ReadResponse, Healthy
<1>2. CASE conn' = "refused"
  BY <1>2 DEF Healthy
<1>3. CASE Connected /\ down # <<>> /\ Head(down).m = "200" /\ down' = <<>>
  <2>1. 1 \in 1 .. Len(down) /\ Head(down) = down[1]
    BY <1>3, CountFacts, EmptySeq, SMT
  <2>2. served = "serving" /\ waited <= down[1].age
    BY <1>1, <1>3, <2>1 DEF Answered
  <2>3. waited <= MaxDelay
    BY <2>1, <2>2, CountFacts, SMT
  <2>4. up' = <<>>
    BY <1>1, <2>2 DEF Base, Handshake
  <2> QED
    BY <1>1, <1>3, <2>2, <2>3, <2>4, ConnectedHealthy
<1> QED
  BY <1>2, <1>3 DEF ReadResponse

\* What Write does to a connection that is up.
LEMMA WriteFacts ==
    ASSUME Base, Healthy, conn = "up", NEW m \in Requests, Write(m)
    PROVE  /\ waiting' = waiting \cup {m}
           /\ m = "heartbeat" => Hb(up') = Hb(up) \cup {Len(up) + 1}
           /\ m # "heartbeat" => Hb(up') = Hb(up)
           /\ \A i \in 1 .. Len(up) : i \in 1 .. Len(up') /\ up'[i] = up[i]
           /\ Len(up) + 1 \in 1 .. Len(up') /\ up'[Len(up) + 1].age = 0
<1>1. /\ Msg(m) \in Ups /\ Msg(m).m = m /\ Msg(m).age = 0
  BY MsgFacts DEF Requests
<1>2. ~Passed(writeLeft)
  BY SMT DEF Healthy, Kept, Passed
<1>3. waiting' = waiting \cup {m} /\ up' = Append(up, Msg(m))
  BY <1>2 DEF Write, Healthy, Kept
<1>4. /\ Len(up') = Len(up) + 1
      /\ \A i \in 1 .. Len(up) : up'[i] = up[i]
      /\ up'[Len(up) + 1] = Msg(m)
  BY <1>1, <1>3, CountFacts, AppendFacts
<1>5. /\ \A i \in 1 .. Len(up) : i \in 1 .. Len(up')
      /\ Len(up) + 1 \in 1 .. Len(up')
  BY <1>4, CountFacts, SMT
<1>6. /\ m = "heartbeat" => Hb(up') = Hb(up) \cup {Len(up) + 1}
      /\ m # "heartbeat" => Hb(up') = Hb(up)
  BY <1>1, <1>3, CountFacts, HbAppend
<1> QED
  BY <1>1, <1>3, <1>4, <1>5, <1>6

\* A call leaves the heartbeat where it is.
LEMMA CallHealthy == ASSUME Base, Good, Healthy, Call PROVE Healthy'
<1>1. /\ conn = "up" /\ Write("call") /\ "call" \in Requests
      /\ UNCHANGED <<optVars, listener, conn, served, down, readLeft,
                     writeLeft, uptime, ticker, tick, serverVars, histVars>>
  BY DEF Call, Requests
<1>2. /\ waiting' = waiting \cup {"call"} /\ Hb(up') = Hb(up)
      /\ \A i \in 1 .. Len(up) : i \in 1 .. Len(up') /\ up'[i] = up[i]
  BY <1>1, WriteFacts
<1>3. Hb(up)' = Hb(up') /\ Hb(down)' = Hb(down) /\ Handled' = Handled
  BY <1>1, Zenon DEF Hb, Handled, serverVars
<1>4. Idle => Idle'
  BY <1>1, <1>2, <1>3 DEF Idle, serverVars
<1>5. Sent => Sent'
  BY <1>1, <1>2, <1>3, Zenon DEF Sent, serverVars
<1>6. InHand => InHand'
  BY <1>1, <1>2, <1>3 DEF InHand, serverVars
<1>7. Returns => Returns'
  BY <1>1, <1>2, <1>3, Zenon DEF Returns, serverVars
<1> QED
  BY <1>1, <1>4, <1>5, <1>6, <1>7
     DEF Healthy, Kept, CanRespond, optVars, serverVars, histVars

\* The next heartbeat is sent.
LEMMA HeartbeatHealthy == ASSUME Base, Good, Healthy, Heartbeat PROVE Healthy'
<1>1. /\ conn = "up" /\ Write("heartbeat") /\ "heartbeat" \in Requests
      /\ "heartbeat" \notin waiting
      /\ UNCHANGED <<optVars, listener, conn, served, down, readLeft,
                     writeLeft, uptime, ticker, serverVars, histVars>>
  BY DEF Heartbeat, Requests
<1>2. /\ waiting' = waiting \cup {"heartbeat"}
      /\ Hb(up') = Hb(up) \cup {Len(up) + 1}
      /\ Len(up) + 1 \in 1 .. Len(up') /\ up'[Len(up) + 1].age = 0
  BY <1>1, WriteFacts, Zenon
<1>3. Hb(up)' = Hb(up') /\ Hb(down)' = Hb(down) /\ Handled' = Handled
  BY <1>1 DEF Hb, Handled, serverVars
<1>4. Idle /\ Kept
  BY <1>1, Zenon DEF Healthy, Kept, Sent, InHand, Returns
<1>5. Hb(up') = {Len(up) + 1}
  BY <1>2, <1>4 DEF Idle
<1>6. served = "serving" =>
        waited <= MaxDelay + Larger(Interval, MaxHandling) + 0
  BY <1>4, CountFacts, GapFacts, SMT DEF Idle
<1>7. Sent'
  BY <1>1, <1>2, <1>3, <1>4, <1>5, <1>6, Zenon DEF Idle, Sent, serverVars
<1> QED
  BY <1>1, <1>4, <1>7, Zenon
     DEF Healthy, Kept, CanRespond, optVars, serverVars, histVars

\* The response to the heartbeat is the end of its round.
LEMMA HandleResponseHealthy ==
    ASSUME Base, Good, Healthy, HandleResponse
    PROVE  Healthy'
<1>1. /\ conn = "up" /\ down # <<>> /\ down' = Tail(down)
      /\ waiting' = waiting \ {Head(down).m}
      /\ UNCHANGED <<optVars, listener, conn, served, up, readLeft, writeLeft,
                     uptime, ticker, tick, serverVars, histVars>>
  BY Zenon DEF HandleResponse
<1>2. /\ Hb(down) = {} => Hb(down') = {} /\ Head(down).m # "heartbeat"
      /\ Hb(down) = {1} => Hb(down') = {} /\ Head(down).m = "heartbeat"
      /\ \A i \in 1 .. Len(down) : Hb(down) = {i} /\ i # 1 =>
            /\ Head(down).m # "heartbeat" /\ i - 1 \in 1 .. Len(down')
            /\ Hb(down') = {i - 1} /\ down'[i - 1] = down[i]
  BY <1>1, HbTail DEF Base, Types
<1>3. Hb(down)' = Hb(down') /\ Hb(up)' = Hb(up) /\ Handled' = Handled
  BY <1>1, Zenon DEF Hb, Handled, serverVars
<1>4. Idle => Idle'
  BY <1>1, <1>2, <1>3, Zenon DEF Idle, serverVars
<1>5. Sent => Sent'
  BY <1>1, <1>2, <1>3, Zenon DEF Sent, serverVars
<1>6. InHand => InHand'
  BY <1>1, <1>2, <1>3, Zenon DEF InHand, serverVars
<1>7. ASSUME Returns PROVE Idle' \/ Returns'
  <2>1. PICK i \in 1 .. Len(down) :
          /\ Hb(down) = {i}
          /\ served = "serving" => waited <= MaxHandling + down[i].age
    BY <1>7 DEF Returns
  <2>2. CASE i = 1
    <3>0. down[i].age \in 0 .. MaxDelay /\ waited \in Nat
      BY CountFacts
    <3>1. served = "serving" =>
            waited <= MaxDelay + Larger(Interval, MaxHandling)
      BY <2>1, <3>0, GapFacts, SMTT(30)
    <3>2. waited + ticker <= Interval => waited + ticker <= Interval + MaxDelay
      BY CountFacts, SMT
    <3>3. Hb(down') = {} /\ Head(down).m = "heartbeat"
      BY <1>2, <2>1, <2>2, Zenon
    <3> QED
      BY <1>1, <1>3, <1>7, <3>1, <3>2, <3>3, Zenon DEF Idle, Returns, serverVars
  <2>3. CASE i # 1
    <3>1. /\ Head(down).m # "heartbeat" /\ i - 1 \in 1 .. Len(down')
          /\ Hb(down') = {i - 1} /\ down'[i - 1] = down[i]
      BY ONLY <1>2, <2>1, <2>3, Zenon
    <3> QED
      BY <1>1, <1>3, <1>7, <2>1, <3>1, Zenon DEF Returns, serverVars
  <2> QED
    BY <2>2, <2>3
<1> QED
  BY <1>1, <1>4, <1>5, <1>6, <1>7, SMTT(30)
     DEF Healthy, Kept, CanRespond, optVars, serverVars, histVars

\* Nothing is promised to a reader that has ended.
LEMMA ReaderEndsHealthy == ASSUME ReaderEnds PROVE Healthy'
BY DEF ReaderEnds, Healthy

\* Time passes, for the server that waits, for the heartbeat that is under way
\* and for the next one.
LEMMA TickHealthy == ASSUME Base, Good, Healthy, Tick PROVE Healthy'
<1> DEFINE L == Larger(Interval, MaxHandling)
<1>1. /\ UNCHANGED <<optVars, listener, conn, served, waiting, histVars>>
      /\ up' = Older(up) /\ down' = Older(down) /\ Prompt
      /\ respondLeft' = Sooner(respondLeft) /\ writeLeft' = Sooner(writeLeft)
  BY DEF Tick
<1>2. /\ Len(up') = Len(up)
      /\ \A i \in 1 .. Len(up) : /\ up'[i].m = up[i].m
                                 /\ up[i].age < MaxDelay =>
                                      up'[i].age = up[i].age + 1
  BY <1>1, OlderFacts, Zenon DEF Base, Types, Ups
<1>3. /\ Len(down') = Len(down)
      /\ \A i \in 1 .. Len(down) : down'[i].m = down[i].m
                                   /\ (down[i].age < MaxDelay =>
                                         down'[i].age = down[i].age + 1)
  BY <1>1, OlderFacts, Zenon DEF Base, Types, Downs
<1>4. \A i \in 1 .. Len(down) : down'[i].age = down[i].age + 1
  <2>1. \A i \in 1 .. Len(down) : down[i].age < MaxDelay
    BY <1>1, CountFacts, LenProperties, Zenon DEF Prompt
  <2> QED
    BY <1>3, <2>1
<1>5. served = "serving" =>
        \A i \in 1 .. Len(up) : up'[i].age = up[i].age + 1
  <2>1. served = "serving" => listener = "open"
    BY DEF Good, Base, Handshake
  <2>2. served = "serving" => \A i \in 1 .. Len(up) : up[i].age < MaxDelay
    BY <1>1, <2>1, CountFacts, LenProperties, Zenon DEF Prompt
  <2> QED
    BY <1>2, <2>2
<1>6. Hb(up)' = Hb(up) /\ Hb(down)' = Hb(down)
  BY <1>2, <1>3 DEF Hb
<1>7. waited' <= waited + 1 /\ waited' \in Nat
  <2>1. waited' = waited \/ waited' = waited + 1
    BY Zenon DEF Tick
  <2> QED
    BY <2>1, WaitFacts, SMT
<1>8. \A m \in Requests : /\ handling[m] = nil => handling'[m] = nil
                          /\ handling[m] # nil => handling'[m] = handling[m] + 1
  BY DEF Tick
<1>9. ASSUME conn \in {"idle", "connect", "up"} PROVE CanRespond'
  <2>0. CanRespond
    BY <1>9 DEF Healthy
  <2>1. CASE sopt.writeTimeout = 0
    BY <1>1, <2>0, <2>1, Zenon DEF CanRespond, Sooner, optVars
  <2>2. CASE sopt.writeTimeout # 0
    <3>1. ASSUME NEW m \in Requests, handling'[m] # nil
          PROVE  respondLeft' \in Nat /\ respondLeft' > MaxHandling - handling'[m]
      <4>1. handling[m] # nil /\ handling'[m] = handling[m] + 1
        BY <1>8, <3>1
      <4>2. handling[m] \in 0 .. MaxHandling
        BY <4>1, CountFacts
      <4>3. respondLeft \in Nat /\ respondLeft > MaxHandling - handling[m]
        BY <2>0, <2>2, <4>1 DEF CanRespond
      <4>4. respondLeft' \in Nat /\ respondLeft' >= respondLeft - 1
        BY <1>1, <4>3, SoonerFacts DEF Left
      <4> QED
        BY <4>1, <4>2, <4>3, <4>4, SMT
    <3> QED
      BY <1>1, <2>2, <3>1 DEF CanRespond, optVars
  <2> QED
    BY <2>1, <2>2
<1>10. ASSUME conn = "connect" PROVE Answered'
  <2>1. Answered
    BY <1>10 DEF Healthy
  <2>2. ASSUME served = "serving" PROVE down' # <<>> /\ waited' <= down'[1].age
    <3>1. 1 \in 1 .. Len(down) /\ waited <= down[1].age
      BY <2>1, <2>2, CountFacts, EmptySeq, SMT DEF Answered
    <3>2. down'[1].age = down[1].age + 1 /\ down[1].age \in Nat
      BY <1>4, <3>1, CountFacts, SMT
    <3>3. down' # <<>>
      BY <1>3, <3>1, ShortFacts, SMT
    <3> QED
      BY <1>7, <3>1, <3>2, <3>3, WaitFacts, SMT
  <2> QED
    BY <1>1, <1>3, <2>1, <2>2, Zenon DEF Answered
<1>11. ASSUME conn = "up" PROVE Kept'
  <2>1. Kept
    BY <1>11 DEF Healthy
  <2>2. writeLeft' = nil
    BY <1>1, <2>1 DEF Kept, Sooner
  <2>3. ~tick' => ~tick /\ ticker' = ticker - 1
    BY <1>11, Zenon DEF Tick, Good
  <2>4. \A b \in {Interval, Interval + MaxDelay} :
          /\ waited + ticker <= b /\ ticker' = ticker - 1 => waited' + ticker' <= b
          /\ waited + ticker <= b => waited' <= b
    BY <1>7, WaitFacts, SMT
  <2>5. ASSUME Idle PROVE Idle'
    <3>1. ~tick
      BY <1>1, <1>11, <2>5, Zenon DEF Prompt, Idle
    <3>2. served = "serving" => waited + ticker <= Interval + MaxDelay
      BY <2>5, <3>1 DEF Idle
    <3>3. Interval + MaxDelay <= MaxDelay + L /\ Interval + MaxDelay \in Nat
          /\ MaxDelay + L \in Nat
      BY GapFacts, SMT
    <3>4. served = "serving" => waited' <= MaxDelay + L
      <4>1. served = "serving" => waited' <= Interval + MaxDelay
        BY <2>4, <3>2
      <4> HIDE DEF L
      <4> QED
        BY <1>7, <3>3, <4>1, SMT
    <3>5. ~Handled'
      BY <1>8, <2>5 DEF Idle, Handled, Requests
    <3> QED
      BY <1>1, <1>6, <2>3, <2>4, <2>5, <3>2, <3>4, <3>5, Zenon DEF Idle
  <2>6. ASSUME Sent PROVE Sent'
    <3>1. PICK i \in 1 .. Len(up) :
            /\ Hb(up) = {i}
            /\ served = "serving" => waited <= MaxDelay + L + up[i].age
      BY <2>6 DEF Sent
    <3>2. served = "serving" => waited' <= MaxDelay + L + up'[i].age
      <4>1. up[i].age \in Nat /\ L \in Nat
        BY CountFacts, GapFacts, SMTT(30)
      <4>2. served = "serving" => up'[i].age = up[i].age + 1
        BY <1>5
      <4> HIDE DEF L
      <4> QED
        BY <1>7, <3>1, <4>1, <4>2, WaitFacts, SMT
    <3>3. ~Handled'
      BY <1>8, <2>6, Zenon DEF Sent, Handled, Requests
    <3> QED
      BY <1>1, <1>2, <1>6, <2>6, <3>1, <3>2, <3>3, Zenon DEF Sent
  <2>7. ASSUME InHand PROVE InHand'
    <3>1. /\ handling["heartbeat"] \in 0 .. MaxHandling
          /\ handling'["heartbeat"] = handling["heartbeat"] + 1
      BY <1>8, <2>7, CountFacts, Zenon DEF InHand, Handled, Requests
    <3>2. served = "serving" => waited' <= handling'["heartbeat"]
      BY <1>7, <2>7, <3>1, WaitFacts, SMT DEF InHand
    <3>3. Handled'
      BY <3>1, SMT DEF Handled
    <3> QED
      BY <1>1, <1>6, <2>3, <2>4, <2>7, <3>2, <3>3, SMTT(30) DEF InHand
  <2>8. ASSUME Returns PROVE Returns'
    <3>1. PICK i \in 1 .. Len(down) :
            /\ Hb(down) = {i}
            /\ served = "serving" => waited <= MaxHandling + down[i].age
      BY <2>8 DEF Returns
    <3>2. served = "serving" => waited' <= MaxHandling + down'[i].age
      <4>1. down[i].age \in Nat /\ down'[i].age = down[i].age + 1
        BY <1>4, CountFacts, SMT
      <4> QED
        BY <1>7, <3>1, <4>1, WaitFacts, SMT
    <3>3. ~Handled'
      BY <1>8, <2>8 DEF Returns, Handled, Requests
    <3> QED
      BY <1>1, <1>3, <1>6, <2>3, <2>4, <2>8, <3>1, <3>2, <3>3, Zenon DEF Returns
  <2> QED
    BY <1>1, <2>1, <2>2, <2>5, <2>6, <2>7, <2>8 DEF Kept, histVars
<1> QED
  BY <1>1, <1>9, <1>10, <1>11 DEF Healthy

\* A crash, or a listener that fails, ends what is promised.
LEMMA NextKeeps == ASSUME Base, Keeps, [Next]_vars PROVE Keeps'
<1> SUFFICES ASSUME Good' PROVE Healthy'
  BY DEF Keeps
<1>1. CASE UNCHANGED vars
  <2>1. Good
    BY <1>1 DEF vars, optVars, Good
  <2> QED
    BY <1>1, <2>1, SameHealthy DEF vars, Keeps
<1>2. CASE makeListener
  <2>1. Good
    BY <1>2 DEF makeListener, optVars, Good
  <2> QED
    BY <1>2, <2>1, SameHealthy DEF makeListener, Keeps
<1>3. CASE Crash
  BY <1>3 DEF Crash, Good
<1>4. CASE Server \/ Client \/ Connect \/ Call \/ Tick
  <2>1. UNCHANGED <<optVars, listener>>
    BY <1>4, Zenon
       DEF Server, Client, Connect, Call, Tick, Accept, ServeHTTP, ReadRequest,
           ServeConnEnds, Respond, ReadResponse, Heartbeat, HandleResponse,
           ReaderEnds
  <2>2. Good /\ Healthy
    BY <2>1 DEF optVars, Good, Keeps
  <2> QED
    BY <1>4, <2>2, AcceptHealthy, ServeHTTPHealthy, ReadRequestHealthy,
       ServeConnEndsHealthy, RespondHealthy, ConnectHealthy,
       ReadResponseHealthy, CallHealthy, HeartbeatHealthy,
       HandleResponseHealthy, ReaderEndsHealthy, TickHealthy, SMTT(30)
       DEF Server, Client
<1> QED
  BY <1>1, <1>2, <1>3, <1>4 DEF Next

\* Heartbeats every Interval keep a connection, and all its responses are
\* written, if the server's read timeout is longer than two delays and the
\* longer of Interval and a method's time, and its write timeout longer by
\* another method's time, because serveConn counts it from before the read.
THEOREM HeartbeatsKeep == Spec => []HeartbeatsKeepConnection
<1>1. Init => Keeps
  <2>1. ASSUME Init PROVE CanRespond
    BY <2>1, Zenon DEF Init, CanRespond
  <2> QED
    BY <2>1, Zenon DEF Init, Keeps, Healthy
<1>2. Keeps => HeartbeatsKeepConnection
  BY DEF Keeps, Good, Healthy, Kept, HeartbeatsKeepConnection
<1> QED
  BY <1>1, <1>2, NextKeeps, BaseInvariant, PTL DEF Spec
=============================================================================
