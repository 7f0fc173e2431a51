---------------------------- MODULE ServerProofs ----------------------------
(***************************************************************************)
(* What holds of the server for any number of connections and requests,    *)
(* any bucket and either network: Close misses no connection but one, what *)
(* is registered is live, RateLimit limits, and the meters agree; and, for *)
(* any number of servers, any interval and any delay of less than an       *)
(* interval, that a server which refreshes its entry stays published.      *)
(***************************************************************************)
EXTENDS Server, Naming, FiniteSetTheorems, TLAPS

USE ServerAssumption

-----------------------------------------------------------------------------
(* Types. *)

\* The accept loop has a connection in its hands until it serves it.
InHand == loop \in {"register", "control"} => cur \in Conns

Typed == TypeOK /\ InHand

\* Init has the types.
LEMMA InitTyped == Init => Typed
<1> SUFFICES ASSUME Init PROVE Typed
  OBVIOUS
<1>1. lnSet \in BOOLEAN /\ lnOpen \in BOOLEAN /\ done \in BOOLEAN
  BY Zenon DEF Init
<1> QED
  BY <1>1, SMT DEF Init, TypeOK, InHand, Typed

\* The accept loop keeps them.
LEMMA LoopTyped ==
    ASSUME Typed, AcceptLoop
    PROVE  Typed'
<1>1. CASE MakeListener
  BY <1>1, Zenon DEF Typed, TypeOK, InHand, MakeListener, lnVars, reqVars, ctrlVars,
         bucket, qps
<1>2. CASE Listen
  BY <1>2 DEF Typed, TypeOK, InHand, Listen, reqVars, ctrlVars, bucket, qps
<1>3. ASSUME NEW c \in Conns, Accept(c) PROVE Typed'
  BY <1>3 DEF Typed, TypeOK, InHand, Accept, Move, lnVars, reqVars, ctrlVars, bucket,
         qps
<1>4. CASE AcceptFails
  BY <1>4 DEF Typed, TypeOK, InHand, AcceptFails, lnVars, reqVars, ctrlVars, bucket, qps
<1>5. CASE CheckDone
  <2>1. ret' \in {"none", "nil", "err", "ErrServerClosed"}
    BY <1>5 DEF Typed, TypeOK, InHand, CheckDone
  <2> QED
    BY <1>5, <2>1 DEF Typed, TypeOK, InHand, CheckDone, lnVars, reqVars, ctrlVars,
           bucket, qps
<1>6. CASE Track
  BY <1>6 DEF Typed, TypeOK, InHand, Track, lnVars, reqVars, ctrlVars, bucket, qps
<1>7. CASE Control
  BY <1>7 DEF Typed, TypeOK, InHand, Control, HandleConn, Refused, Mark, Move,
         lnVars, reqVars,
              qps
<1> QED
  BY <1>1, <1>2, <1>3, <1>4, <1>5, <1>6, <1>7 DEF AcceptLoop

\* The goroutines of connections and requests, Close and the clients keep them.
LEMMA NextTyped == Typed /\ [Next]_vars => Typed'
<1> SUFFICES ASSUME Typed, [Next]_vars PROVE Typed'
  OBVIOUS
<1>1. CASE AcceptLoop
  BY <1>1, LoopTyped
<1>2. CASE Close
  BY <1>2 DEF Typed, TypeOK, InHand, Close, loopVars, lnVars, reqVars, ctrlVars,
         bucket, qps
<1>3. CASE Fill
  BY <1>3 DEF Typed, TypeOK, InHand, Fill, loopVars, lnVars, reqVars, qps
<1>4. ASSUME NEW c \in Conns, ServeHTTP(c) PROVE Typed'
  BY <1>4 DEF Typed, TypeOK, InHand, ServeHTTP, Move, loopVars, lnVars, reqVars,
         ctrlVars,
              bucket, qps
<1>5. ASSUME NEW c \in Conns, NEW r \in Requests, Read(c, r) PROVE Typed'
  BY <1>5 DEF Typed, TypeOK, InHand, Read, Mark, loopVars, lnVars, bucket
<1>6. ASSUME NEW c \in Conns, Leave(c) PROVE Typed'
  BY <1>6 DEF Typed, TypeOK, InHand, Leave, Move, loopVars, lnVars, reqVars,
         ctrlVars, bucket,
              qps
<1>7. ASSUME NEW c \in Conns, CloseConn(c) PROVE Typed'
  BY <1>7 DEF Typed, TypeOK, InHand, CloseConn, Move, loopVars, lnVars, reqVars,
         ctrlVars,
              bucket, qps
<1>8. ASSUME NEW r \in Requests, Respond(r) PROVE Typed'
  BY <1>8 DEF Typed, TypeOK, InHand, Respond, Reply, Mark, loopVars, lnVars, bucket
<1>9. ASSUME NEW c \in Conns, Dial(c) PROVE Typed'
  BY <1>9 DEF Typed, TypeOK, InHand, Dial, Move, loopVars, lnVars, reqVars, ctrlVars,
         bucket,
              qps
<1>10. ASSUME NEW c \in Conns, NEW r \in Requests, Send(c, r) PROVE Typed'
  BY <1>10 DEF Typed, TypeOK, InHand, Send, loopVars, lnVars, ctrlVars, bucket, qps
<1>11. CASE UNCHANGED vars
  BY <1>11 DEF Typed, TypeOK, InHand, vars, loopVars, lnVars, reqVars, ctrlVars,
         bucket, qps
<1> QED
  BY <1>1, <1>2, <1>3, <1>4, <1>5, <1>6, <1>7, <1>8, <1>9, <1>10, <1>11
     DEF Next, ServeConn

\* The server's variables keep their types.
THEOREM TypeCorrect == Spec => []TypeOK
<1>1. Spec => []Typed
  BY InitTyped, NextTyped, PTL DEF Spec
<1>2. Typed => TypeOK
  BY DEF Typed
<1> QED
  BY <1>1, <1>2, PTL

-----------------------------------------------------------------------------
(* Connections. *)

\* Where a connection is tells whether it is open and registered.  Close never
\* finds the listener set before the accept loop runs.
Places ==
    /\ \A c \in Conns : state[c] = "accepted" =>
          c = cur /\ loop \in {"register", "control"} /\ network = "tcp"
    /\ loop \in {"register", "control"} => state[cur] = "accepted"
    /\ \A c \in Conns : state[c] = "http" => network = "http"
    /\ \A c \in Conns : Unregistered(c) => c \in open /\ c \notin activeConn
    /\ \A c \in open : state[c] \in {"accepted", "http", "serving", "leaving"}
    /\ \A c \in activeConn : state[c] \in {"accepted", "serving", "rejected"}
    /\ loop \in {"idle", "start"} => ~lnSet
    /\ loop = "start" => lnOpen

\* After Close one connection at most is open and not about to be closed.
Alone ==
    done /\ lnSet /\ ~lnOpen /\ network = "tcp" =>
        \A c, d \in open :
            state[c] # "leaving" /\ state[d] # "leaving" => c = d

Tracking == Typed /\ Places /\ OpenIsTracked /\ TrackedIsLive /\ Alone

\* At first there are no connections.
LEMMA InitTracking == Init => Tracking
<1> SUFFICES ASSUME Init PROVE Tracking
  OBVIOUS
<1>1. Typed
  BY InitTyped
<1> QED
  BY <1>1 DEF Init, Tracking, Places, Unregistered, OpenIsTracked, TrackedIsLive,
              Alone

\* What every step below may use and has to show.
LEMMA TrackingParts ==
    ASSUME Tracking, [Next]_vars,
           Places', OpenIsTracked', TrackedIsLive', Alone'
    PROVE  Tracking'
BY NextTyped DEF Tracking

\* A listener that is new is not set.
LEMMA MakeListenerTracks ==
    ASSUME Tracking, MakeListener
    PROVE  Places' /\ OpenIsTracked' /\ TrackedIsLive' /\ Alone'
BY SMT DEF Typed, TypeOK, InHand, Tracking, Places, Unregistered,
           OpenIsTracked, TrackedIsLive, Alone, MakeListener, lnVars

\* The listener is open when it is set.
LEMMA ListenTracks ==
    ASSUME Tracking, Listen
    PROVE  Places' /\ OpenIsTracked' /\ TrackedIsLive' /\ Alone'
BY SMT DEF Typed, TypeOK, InHand, Tracking, Places, Unregistered,
           OpenIsTracked, TrackedIsLive, Alone, Listen

\* A connection is accepted only while the listener is open.
LEMMA AcceptTracks ==
    ASSUME Tracking, NEW c \in Conns, Accept(c)
    PROVE  Places' /\ OpenIsTracked' /\ TrackedIsLive' /\ Alone'
BY SMT DEF Typed, TypeOK, InHand, Tracking, Places, Unregistered,
           OpenIsTracked, TrackedIsLive, Alone, Accept, Move, lnVars

\* The loop has no connection in its hands when Accept fails.
LEMMA AcceptFailsTracks ==
    ASSUME Tracking, AcceptFails
    PROVE  Places' /\ OpenIsTracked' /\ TrackedIsLive' /\ Alone'
BY SMT DEF Typed, TypeOK, InHand, Tracking, Places, Unregistered,
           OpenIsTracked, TrackedIsLive, Alone, AcceptFails, lnVars

\* Nor when it looks at doneChan.
LEMMA CheckDoneTracks ==
    ASSUME Tracking, CheckDone
    PROVE  Places' /\ OpenIsTracked' /\ TrackedIsLive' /\ Alone'
BY SMT DEF Typed, TypeOK, InHand, Tracking, Places, Unregistered,
           OpenIsTracked, TrackedIsLive, Alone, CheckDone, lnVars

\* A connection is open when it is registered.
LEMMA RegisterTracks ==
    ASSUME Tracking, Track
    PROVE  Places' /\ OpenIsTracked' /\ TrackedIsLive' /\ Alone'
BY SMT DEF Typed, TypeOK, InHand, Tracking, Places, Unregistered,
           OpenIsTracked, TrackedIsLive, Alone, Track, lnVars

\* A connection that is turned away is closed.
LEMMA ControlTracks ==
    ASSUME Tracking, Control
    PROVE  Places' /\ OpenIsTracked' /\ TrackedIsLive' /\ Alone'
BY SMT DEF Typed, TypeOK, InHand, Tracking, Places, Unregistered,
           OpenIsTracked, TrackedIsLive, Alone, Control, HandleConn, Move,
           lnVars

\* Close misses what is not registered, over TCP the connection in the hands
\* of the loop.
LEMMA CloseTracks ==
    ASSUME Tracking, Close
    PROVE  Places' /\ OpenIsTracked' /\ TrackedIsLive' /\ Alone'
BY SMT DEF Typed, TypeOK, InHand, Tracking, Places, Unregistered,
           OpenIsTracked, TrackedIsLive, Alone, Close, loopVars, lnVars

\* A hijacked connection is open when it is registered.
LEMMA ServeHTTPTracks ==
    ASSUME Tracking, NEW c \in Conns, ServeHTTP(c)
    PROVE  Places' /\ OpenIsTracked' /\ TrackedIsLive' /\ Alone'
BY SMT DEF Typed, TypeOK, InHand, Tracking, Places, Unregistered,
           OpenIsTracked, TrackedIsLive, Alone, ServeHTTP, Move,
           loopVars, lnVars

\* serveConn takes its connection out of activeConn before it closes it.
LEMMA LeaveTracks ==
    ASSUME Tracking, NEW c \in Conns, Leave(c)
    PROVE  Places' /\ OpenIsTracked' /\ TrackedIsLive' /\ Alone'
BY SMT DEF Typed, TypeOK, InHand, Tracking, Places, Unregistered,
           OpenIsTracked, TrackedIsLive, Alone, Leave, Move,
           loopVars, lnVars

\* A connection that is closed is not registered any more.
LEMMA CloseConnTracks ==
    ASSUME Tracking, NEW c \in Conns, CloseConn(c)
    PROVE  Places' /\ OpenIsTracked' /\ TrackedIsLive' /\ Alone'
BY SMT DEF Typed, TypeOK, InHand, Tracking, Places, Unregistered,
           OpenIsTracked, TrackedIsLive, Alone, CloseConn, Move,
           loopVars, lnVars

\* A connection in the queue is neither open nor registered.
LEMMA DialTracks ==
    ASSUME Tracking, NEW c \in Conns, Dial(c)
    PROVE  Places' /\ OpenIsTracked' /\ TrackedIsLive' /\ Alone'
BY SMT DEF Typed, TypeOK, InHand, Tracking, Places, Unregistered,
           OpenIsTracked, TrackedIsLive, Alone, Dial, Move, loopVars,
           lnVars

\* Every step preserves the invariant.
LEMMA NextTracking == Tracking /\ [Next]_vars => Tracking'
<1> SUFFICES ASSUME Tracking, [Next]_vars
             PROVE  Places' /\ OpenIsTracked' /\ TrackedIsLive' /\ Alone'
  BY TrackingParts
<1>1. CASE AcceptLoop
  BY <1>1, MakeListenerTracks, ListenTracks, AcceptTracks, AcceptFailsTracks,
     CheckDoneTracks, RegisterTracks, ControlTracks DEF AcceptLoop
<1>2. CASE UNCHANGED <<loopVars, lnVars, lnOpen, done, activeConn, state, open>>
  BY <1>2, SMT DEF Tracking, Places, Unregistered, OpenIsTracked, TrackedIsLive,
                   Alone, loopVars, lnVars
<1>3. CASE Fill \/ (\E r \in Requests : Respond(r)) \/ UNCHANGED vars
  BY <1>2, <1>3 DEF Fill, Respond, vars
<1>4. CASE \E c \in Conns, r \in Requests : Read(c, r) \/ Send(c, r)
  BY <1>2, <1>4 DEF Read, Send
<1> QED
  BY <1>1, <1>3, <1>4, CloseTracks, ServeHTTPTracks, LeaveTracks,
     CloseConnTracks, DialTracks, Zenon DEF Next, ServeConn

\* The invariant holds.
LEMMA AlwaysTracking == Spec => []Tracking
BY InitTracking, NextTracking, PTL DEF Spec

\* Close can reach every open connection that is registered, and one that is
\* not has just been accepted or is about to be closed by its serveConn.
THEOREM OpenTracked == Spec => []OpenIsTracked
<1>1. Tracking => OpenIsTracked
  BY DEF Tracking
<1> QED
  BY <1>1, AlwaysTracking, PTL

\* activeConn holds what is open, and what RateLimit turned away.
THEOREM TrackedLive == Spec => []TrackedIsLive
<1>1. Tracking => TrackedIsLive
  BY DEF Tracking
<1> QED
  BY <1>1, AlwaysTracking, PTL

\* Close leaves at most one connection open that nobody is about to close.
THEOREM CloseLeavesOne == Spec => []CloseLeavesAtMostOne
<1>1. ASSUME Tracking PROVE CloseLeavesAtMostOne
  <2> DEFINE Left == {c \in open : state[c] # "leaving"}
  <2> SUFFICES ASSUME \A c, d \in Left : c = d
               PROVE  Cardinality(Left) <= 1
    BY <1>1 DEF Tracking, Alone, CloseLeavesAtMostOne
  <2> HIDE DEF Left
  <2>1. CASE Left = {}
    BY <2>1, FS_EmptySet, SMT
  <2>2. CASE Left # {}
    <3>1. PICK c : c \in Left
      BY <2>2
    <3>2. Left = {c}
      BY <3>1
    <3> QED
      BY <3>2, FS_Singleton, SMT
  <2> QED
    BY <2>1, <2>2
<1> QED
  BY <1>1, AlwaysTracking, PTL

-----------------------------------------------------------------------------
(* The controllers. *)

\* The chain of the controllers never changes.
LEMMA PlaceSame ==
    ASSUME UNCHANGED controllers, NEW name
    PROVE  Place(name)' = Place(name)
BY DEF Place

Served == In({"serving", "leaving", "over"})
Handling == {r \in Requests : request[r] = "handling"}

\* The tokens that are left and the connections that have taken one are no
\* more than there ever were.
Budget ==
    Place("RateLimit") # 0 /\ network = "tcp" =>
        Cardinality(Served) + tokens <= Capacity + fills

\* The sets that are counted are finite.
LEMMA Finite ==
    /\ IsFiniteSet(Served) /\ Cardinality(Served) \in Nat
    /\ IsFiniteSet(Handling) /\ Cardinality(Handling) \in Nat
<1>1. Served \subseteq Conns /\ Handling \subseteq Requests
  BY DEF Served, In, Handling
<1> QED
  BY <1>1, FS_Subset, FS_CardinalityType

\* A connection that the loop serves has taken a token.
LEMMA ControlBudget ==
    ASSUME Tracking, Control, Budget
    PROVE  Budget'
<1>1. /\ UNCHANGED <<controllers, network, fills>>
      /\ cur \in Conns /\ cur \notin Served
  BY DEF Control, Tracking, Typed, InHand, Places, Served, In, lnVars
<1>2. Place("RateLimit")' = Place("RateLimit")
  BY <1>1, PlaceSame
<1>3. SUFFICES ASSUME Place("RateLimit") # 0, network = "tcp"
               PROVE  Cardinality(Served') + tokens' <= Capacity + fills
  BY <1>1, <1>2 DEF Budget
<1>4. CASE Refused
  <2>1. Served' = Served /\ tokens' = tokens
    BY <1>1, <1>4, Zenon DEF Control, HandleConn, Move, Served, In, Tracking,
                             Typed, TypeOK
  <2> QED
    BY <1>3, <2>1 DEF Budget
<1>5. CASE ~Refused
  <2>1. Served' = Served \cup {cur}
    BY <1>1, <1>5, SMT DEF Control, HandleConn, Move, Served, In, Tracking,
                           Typed, TypeOK
  <2>2. Cardinality(Served') = Cardinality(Served) + 1
    BY <1>1, <2>1, Finite, FS_AddElement, Zenon
  <2>3. tokens' = tokens - 1 /\ tokens \in Nat /\ fills \in Nat
    BY <1>3, <1>5, SMT DEF Control, HandleConn, Tracking, Typed, TypeOK
  <2> QED
    BY <1>3, <2>2, <2>3, Finite, SMT DEF Budget
<1> QED
  BY <1>4, <1>5

\* No other step serves a connection of the accept loop: over TCP they move
\* connections only before or after.
LEMMA ServedSame ==
    ASSUME Tracking, [Next]_vars, ~Control, network = "tcp"
    PROVE  Served' = Served
<1> USE DEF Tracking, Typed, TypeOK, Places, Served, In, Move
<1>1. ASSUME NEW c \in Conns, Accept(c) PROVE Served' = Served
  BY <1>1, Zenon DEF Accept
<1>2. ASSUME NEW c \in Conns, ServeHTTP(c) PROVE Served' = Served
  BY <1>2, Zenon DEF ServeHTTP
<1>3. ASSUME NEW c \in Conns, Leave(c) PROVE Served' = Served
  BY <1>3, Zenon DEF Leave
<1>4. ASSUME NEW c \in Conns, CloseConn(c) PROVE Served' = Served
  BY <1>4, Zenon DEF CloseConn
<1>5. ASSUME NEW c \in Conns, Dial(c) PROVE Served' = Served
  BY <1>5, SMT DEF Dial
<1> HIDE DEF Tracking, Typed, TypeOK, Places, Served, In, Move
<1>6. CASE UNCHANGED state
  BY <1>6, Zenon DEF Served, In
<1>7. CASE AcceptLoop
  BY <1>1, <1>6, <1>7, Zenon DEF AcceptLoop, MakeListener, Listen, AcceptFails,
                                 CheckDone, Track
<1>8. CASE Close \/ Fill \/ (\E r \in Requests : Respond(r)) \/ UNCHANGED vars
  BY <1>6, <1>8, Zenon DEF Close, Fill, Respond, vars
<1>9. CASE \E c \in Conns, r \in Requests : Read(c, r) \/ Send(c, r)
  BY <1>6, <1>9, Zenon DEF Read, Send
<1> QED
  BY <1>2, <1>3, <1>4, <1>5, <1>7, <1>8, <1>9, Zenon DEF Next, ServeConn

\* Only Control and Fill touch the bucket, and nothing the chain.
LEMMA BucketSame ==
    ASSUME [Next]_vars
    PROVE  /\ UNCHANGED <<controllers, network>>
           /\ ~Control /\ ~Fill => UNCHANGED <<tokens, fills>>
BY Zenon DEF Next, AcceptLoop, ServeConn, MakeListener, Listen, Accept, AcceptFails,
       CheckDone, Track, Control, Close, Fill, ServeHTTP, Read, Leave,
       CloseConn, Respond, Dial, Send, vars, lnVars, ctrlVars, bucket

\* Every step preserves the budget.
LEMMA NextBudget ==
    ASSUME Tracking, [Next]_vars, Budget
    PROVE  Budget'
<1>1. CASE Control
  BY <1>1, ControlBudget
<1>2. CASE ~Control
  <2>1. /\ UNCHANGED <<controllers, network>>
        /\ Place("RateLimit")' = Place("RateLimit")
    BY BucketSame, PlaceSame
  <2>2. SUFFICES ASSUME Place("RateLimit") # 0, network = "tcp"
                 PROVE  Cardinality(Served) + tokens' <= Capacity + fills'
    BY <1>2, <2>1, ServedSame DEF Budget
  <2>3. Cardinality(Served) + tokens <= Capacity + fills
    BY <2>2 DEF Budget
  <2>4. CASE Fill
    BY <2>3, <2>4, Finite, SMT DEF Fill, Tracking, Typed, TypeOK
  <2>5. CASE ~Fill
    BY <1>2, <2>3, <2>5, BucketSame
  <2> QED
    BY <2>4, <2>5
<1> QED
  BY <1>1, <1>2

\* RateLimit admits no more connections than it has tokens for.
THEOREM WithinLimit == Spec => []AdmittedWithinLimit
<1>1. Init => Budget
  <2> SUFFICES ASSUME Init PROVE Budget
    OBVIOUS
  <2>1. Served = {}
    BY DEF Init, Served, In
  <2> QED
    BY <2>1, FS_EmptySet, SMT DEF Init, Budget
<1>2. Tracking /\ Budget /\ [Next]_vars => Budget'
  BY NextBudget
<1>3. Tracking /\ Budget => AdmittedWithinLimit
  BY Finite, SMT DEF Tracking, Typed, TypeOK, Budget, AdmittedWithinLimit, Served
<1> QED
  BY <1>1, <1>2, <1>3, AlwaysTracking, PTL DEF Spec

\* A request that is read is counted, and so is one that is done with.
LEMMA NextMeters ==
    ASSUME Typed, [Next]_vars, MetersAgree
    PROVE  MetersAgree'
<1>1. UNCHANGED controllers
  BY BucketSame
<1>2. Place("Metric")' = Place("Metric")
  BY <1>1, PlaceSame
<1>3. SUFFICES ASSUME Place("Metric") # 0
               PROVE  readQps' = writeQps' + Cardinality(Handling')
  BY <1>2 DEF MetersAgree, Handling
<1>4. readQps = writeQps + Cardinality(Handling)
  BY <1>3 DEF MetersAgree, Handling
<1>5. ASSUME NEW c \in Conns, NEW r \in Requests, Read(c, r)
      PROVE  readQps' = writeQps' + Cardinality(Handling')
  <2>1. Handling' = Handling \cup {r} /\ r \notin Handling
    BY <1>5, SMT DEF Read, Handling, Typed, TypeOK
  <2>2. readQps' = readQps + 1 /\ writeQps' = writeQps
    BY <1>3, <1>5 DEF Read, Mark
  <2>3. Cardinality(Handling') = Cardinality(Handling) + 1
    BY <2>1, Finite, FS_AddElement, Zenon
  <2> QED
    BY <1>4, <2>2, <2>3, Finite, SMT DEF Typed, TypeOK
<1>6. ASSUME NEW r \in Requests, Respond(r)
      PROVE  readQps' = writeQps' + Cardinality(Handling')
  <2>1. Handling' = Handling \ {r} /\ r \in Handling
    BY <1>6, SMT DEF Respond, Reply, Handling, Typed, TypeOK
  <2>2. readQps' = readQps /\ writeQps' = writeQps + 1
    BY <1>3, <1>6 DEF Respond, Mark
  <2>3. Cardinality(Handling') = Cardinality(Handling) - 1
    BY <2>1, Finite, FS_RemoveElement, Zenon
  <2> QED
    BY <1>4, <2>2, <2>3, Finite, SMT DEF Typed, TypeOK
<1>7. ASSUME NEW c \in Conns, NEW r \in Requests, Send(c, r)
      PROVE  readQps' = writeQps' + Cardinality(Handling')
  <2>1. Handling' = Handling /\ UNCHANGED <<readQps, writeQps>>
    BY <1>7, SMT DEF Send, Handling, Typed, TypeOK, ctrlVars, qps
  <2> QED
    BY <1>4, <2>1
<1>8. CASE UNCHANGED <<request, readQps, writeQps>>
  BY <1>4, <1>8 DEF Handling
<1>9. CASE AcceptLoop
  BY <1>8, <1>9, Zenon DEF AcceptLoop, MakeListener, Listen, Accept, AcceptFails,
                    CheckDone, Track, Control, reqVars, ctrlVars, qps
<1>10. CASE Close \/ Fill \/ UNCHANGED vars
  BY <1>8, <1>10, Zenon DEF Close, Fill, vars, reqVars, ctrlVars, qps
<1>11. CASE \E c \in Conns : ServeHTTP(c) \/ Leave(c) \/ CloseConn(c) \/ Dial(c)
  BY <1>8, <1>11, Zenon
     DEF ServeHTTP, Leave, CloseConn, Dial, reqVars, ctrlVars, qps
<1> QED
  BY <1>5, <1>6, <1>7, <1>9, <1>10, <1>11, Zenon DEF Next, ServeConn

\* Read_Qps is ahead of Write_Qps by the requests that are being handled.
THEOREM MetersMatch == Spec => []MetersAgree
<1>1. Init => MetersAgree
  <2> SUFFICES ASSUME Init PROVE MetersAgree
    OBVIOUS
  <2>1. Handling = {}
    BY DEF Init, Handling
  <2> QED
    BY <2>1, FS_EmptySet, SMT DEF Init, MetersAgree, Handling
<1>2. Tracking /\ MetersAgree /\ [Next]_vars => MetersAgree'
  BY NextMeters DEF Tracking
<1> QED
  BY <1>1, <1>2, AlwaysTracking, PTL DEF Spec

-----------------------------------------------------------------------------
(* A server that refreshes its entry keeps it, in either store, whatever the *)
(* discoveries do.                                                           *)

\* The types that the argument needs.  A refresh is never later than MaxLate,
\* and only the refreshes of a published service count as missed.
StoreTypes ==
    /\ backend \in {"etcd", "consul"}
    /\ life \in [Servers -> {0, 2 * Interval, 3 * Interval}]
    /\ ttl \in [Servers -> Nat]
    /\ \A s \in Servers : ttl[s] > 0 => life[s] # 0

ServerTypes ==
    /\ up \in [Servers -> {"new", "started", "listed", "unlisted", "crashed"}]
    /\ ticking \in [Servers -> BOOLEAN]
    /\ due \in [Servers -> -MaxLate .. Interval]
    /\ missed \in [Servers -> Nat]
    /\ \A s \in Servers : up[s] # "listed" => missed[s] = 0

\* How much longer than to its next refresh an entry lives: an interval, and
\* one more for a refresh that may still fail.
MarginOf(s) ==
    up[s] = "listed" /\ ticking[s] =>
        /\ missed[s] = 0 => ttl[s] >= due[s] + Interval
        /\ missed[s] = 0 /\ life[s] = 3 * Interval
              => ttl[s] >= due[s] + 2 * Interval
        /\ missed[s] = 1 /\ life[s] = 3 * Interval
              => ttl[s] >= due[s] + Interval

Margin == \A s \in Servers : MarginOf(s)

IInv == StoreTypes /\ ServerTypes /\ Margin

USE IntervalAssumption, LateAssumption

\* Init establishes the invariant: nothing is published.
LEMMA InitIInv == NamingInit => IInv
BY SMT DEF NamingInit, RegistryInit, IInv, StoreTypes, ServerTypes, Margin,
           MarginOf

\* A step that leaves server x alone, and one that leaves its entry alone.
SameServer(x) ==
    /\ up'[x] = up[x] /\ ticking'[x] = ticking[x]
    /\ due'[x] = due[x] /\ missed'[x] = missed[x]
SameEntry(x) == ttl'[x] = ttl[x] /\ life'[x] = life[x]

\* A step that leaves the store alone keeps what it holds.
LEMMA StoreSame ==
    UNCHANGED store => /\ StoreTypes => StoreTypes'
                       /\ \A x \in Servers : SameEntry(x)
BY Zenon DEF StoreTypes, store, SameEntry

\* Only the margin of the server that takes the step is at stake.
LEMMA MarginOthers ==
    ASSUME Margin, NEW s \in Servers, MarginOf(s)',
           \A x \in Servers \ {s} : SameServer(x) /\ SameEntry(x)
    PROVE  Margin'
<1>1. ASSUME NEW x \in Servers, x # s PROVE MarginOf(x)'
  BY <1>1, Zenon DEF Margin, MarginOf, SameServer, SameEntry
<1> QED
  BY <1>1, Zenon DEF Margin

\* Start does not touch what is published.
LEMMA StartIInv ==
    ASSUME IInv, NEW s \in Servers, Start(s)
    PROVE  IInv'
<1>0. StoreTypes /\ ServerTypes /\ Margin
  BY Zenon DEF IInv
<1>1. ticking' \in [Servers -> BOOLEAN]
  BY <1>0, Zenon DEF ServerTypes, Start
<1>2. up[s] = "new" /\ up' = [up EXCEPT ![s] = "started"]
  BY Zenon DEF Start
<1>3. \A x \in Servers : x # s => ticking'[x] = ticking[x]
  BY <1>0, Zenon DEF ServerTypes, Start
<1>4. UNCHANGED <<store, due, missed>>
  BY Zenon DEF Start
<1>5. StoreTypes'
  BY <1>0, <1>4, StoreSame, Zenon
<1>6. ServerTypes'
  BY <1>0, <1>1, <1>2, <1>4, SMT DEF ServerTypes
<1>7. Margin'
  <2>1. MarginOf(s)'
    <3>1. up'[s] = "started"
      BY <1>0, <1>2, Zenon DEF ServerTypes
    <3> QED
      BY <3>1, Zenon DEF MarginOf
  <2>2. ASSUME NEW x \in Servers \ {s} PROVE SameServer(x)
    BY <1>0, <1>2, <1>3, <1>4, SMT DEF ServerTypes, SameServer
  <2> QED
    BY <1>0, <1>4, <2>1, <2>2, StoreSame, MarginOthers, Zenon
<1> QED
  BY <1>5, <1>6, <1>7, Zenon DEF IInv

\* The entry of s, and no other, gets its whole life again.
Renewed(s) ==
    /\ life'[s] # 0 /\ ttl'[s] = life'[s]
    /\ \A x \in Servers \ {s} : SameEntry(x)

\* What Put does to the life of an entry, in either store.
LEMMA PutLife ==
    ASSUME StoreTypes, NEW s \in Servers,
           NEW t \in {2 * Interval, 3 * Interval}, Put(s, t)
    PROVE  StoreTypes' /\ Renewed(s)
<1>1. /\ life' \in [Servers -> {0, 2 * Interval, 3 * Interval}]
      /\ ttl' \in [Servers -> Nat]
      /\ backend' = backend
  BY SMT DEF StoreTypes, Put, Entries
<1>2. Renewed(s)
  BY SMT DEF StoreTypes, Put, Entries, Renewed, SameEntry
<1> QED
  BY <1>1, <1>2, SMT DEF StoreTypes, Renewed, SameEntry

\* After Register the entry lives for two intervals, and the first refresh is
\* due within one.
LEMMA RegisterIInv ==
    ASSUME IInv, NEW s \in Servers, Register(s)
    PROVE  IInv'
<1>0. StoreTypes /\ ServerTypes /\ Margin
  BY Zenon DEF IInv
<1>1. up[s] = "started" /\ UNCHANGED <<ticking, due, missed>>
  BY Zenon DEF Register
<1>2. CASE Put(s, 2 * Interval) /\ up' = [up EXCEPT ![s] = "listed"]
  <2>1. StoreTypes' /\ Renewed(s)
    BY <1>0, <1>2, PutLife, Zenon
  <2>2. ServerTypes'
    BY <1>0, <1>1, <1>2, Zenon DEF ServerTypes
  <2>3. due'[s] \in -MaxLate .. Interval /\ missed'[s] = 0
    BY <1>0, <1>1, SMT DEF ServerTypes
  <2>4. ASSUME NEW x \in Servers \ {s} PROVE SameServer(x)
    BY <1>0, <1>1, <1>2, SMT DEF ServerTypes, SameServer
  <2>5. ttl'[s] = life'[s] /\ life'[s] \in {2 * Interval, 3 * Interval}
    BY <2>1, SMT DEF StoreTypes, Renewed
  <2>6. MarginOf(s)'
    <3>1. missed'[s] # 1 /\ ttl'[s] >= due'[s] + Interval
      BY <2>3, <2>5, SMT
    <3>2. life'[s] = 3 * Interval => ttl'[s] >= due'[s] + 2 * Interval
      BY <2>3, <2>5, SMT
    <3> QED
      BY <3>1, <3>2, Zenon DEF MarginOf
  <2>7. Margin'
    BY <1>0, <2>1, <2>4, <2>6, MarginOthers, Zenon DEF Renewed
  <2> QED
    BY <2>1, <2>2, <2>7, Zenon DEF IInv
<1>3. CASE Fails /\ up' = [up EXCEPT ![s] = "unlisted"]
           /\ UNCHANGED <<store, changed>>
  <2>1. StoreTypes'
    BY <1>0, <1>3, StoreSame, Zenon
  <2>2. ServerTypes'
    BY <1>0, <1>1, <1>3, SMT DEF ServerTypes
  <2>3. MarginOf(s)'
    <3>1. up'[s] = "unlisted"
      BY <1>0, <1>3, Zenon DEF ServerTypes
    <3> QED
      BY <3>1, Zenon DEF MarginOf
  <2>4. ASSUME NEW x \in Servers \ {s} PROVE SameServer(x)
    BY <1>0, <1>1, <1>3, SMT DEF ServerTypes, SameServer
  <2>5. Margin'
    BY <1>0, <1>3, <2>3, <2>4, StoreSame, MarginOthers, Zenon
  <2> QED
    BY <2>1, <2>2, <2>5, Zenon DEF IInv
<1> QED
  BY <1>2, <1>3, Zenon DEF Register

\* A refresh that arrives restores the margin, and one that fails uses up an
\* interval of it.
LEMMA RefreshIInv ==
    ASSUME IInv, NEW s \in Servers, Refresh(s)
    PROVE  IInv'
<1>0. StoreTypes /\ ServerTypes /\ Margin
  BY Zenon DEF IInv
<1>1. /\ due[s] \in -MaxLate .. 0
      /\ due' = [due EXCEPT ![s] = @ + Interval]
      /\ UNCHANGED <<up, ticking>>
  BY <1>0, SMT DEF ServerTypes, Refresh
<1>2. CASE /\ up[s] = "listed" /\ Put(s, 3 * Interval)
           /\ missed' = [missed EXCEPT ![s] = 0]
  <2>1. StoreTypes' /\ Renewed(s)
    BY <1>0, <1>2, PutLife, Zenon
  <2>2. ServerTypes'
    BY <1>0, <1>1, <1>2, SMT DEF ServerTypes
  <2>3. due'[s] \in -MaxLate .. Interval /\ missed'[s] = 0
    BY <1>0, <1>1, <1>2, <2>2, SMT DEF ServerTypes
  <2>4. ASSUME NEW x \in Servers \ {s} PROVE SameServer(x)
    BY <1>0, <1>1, <1>2, SMT DEF ServerTypes, SameServer
  <2>5. ttl'[s] = life'[s] /\ life'[s] \in {2 * Interval, 3 * Interval}
    BY <2>1, SMT DEF StoreTypes, Renewed
  <2>6. MarginOf(s)'
    <3>1. missed'[s] # 1 /\ ttl'[s] >= due'[s] + Interval
      BY <2>3, <2>5, SMT
    <3>2. life'[s] = 3 * Interval => ttl'[s] >= due'[s] + 2 * Interval
      BY <2>3, <2>5, SMT
    <3> QED
      BY <3>1, <3>2, Zenon DEF MarginOf
  <2>7. Margin'
    BY <1>0, <2>1, <2>4, <2>6, MarginOthers, Zenon DEF Renewed
  <2> QED
    BY <2>1, <2>2, <2>7, Zenon DEF IInv
<1>3. CASE /\ up[s] = "listed" /\ UNCHANGED <<store, changed>>
           /\ missed' = [missed EXCEPT ![s] = @ + 1]
  <2>1. StoreTypes'
    BY <1>0, <1>3, StoreSame, Zenon
  <2>2. ServerTypes'
    BY <1>0, <1>1, <1>3, SMT DEF ServerTypes
  <2>3. /\ missed'[s] = missed[s] + 1 /\ missed[s] \in Nat
        /\ due'[s] = due[s] + Interval /\ ticking'[s] = ticking[s]
    BY <1>0, <1>1, <1>3, SMT DEF ServerTypes
  <2>4. ASSUME NEW x \in Servers \ {s} PROVE SameServer(x)
    BY <1>0, <1>1, <1>3, SMT DEF ServerTypes, SameServer
  <2>5. SameEntry(s) /\ ttl[s] \in Nat
    BY <1>0, <1>3, StoreSame, Zenon DEF StoreTypes
  <2>6. MarginOf(s)'
    <3>1. missed'[s] # 0 /\ (missed'[s] = 1 => missed[s] = 0)
      BY <2>3, SMT
    <3>2. ttl[s] >= due[s] + 2 * Interval => ttl'[s] >= due'[s] + Interval
      BY <1>1, <2>3, <2>5, SMT DEF SameEntry
    <3>3. MarginOf(s)
      BY <1>0, Zenon DEF Margin
    <3> QED
      BY <1>3, <2>3, <2>5, <3>1, <3>2, <3>3, Zenon DEF MarginOf, SameEntry
  <2>7. Margin'
    BY <1>0, <1>3, <2>4, <2>6, StoreSame, MarginOthers, Zenon
  <2> QED
    BY <2>1, <2>2, <2>7, Zenon DEF IInv
<1>4. CASE up[s] # "listed" /\ UNCHANGED <<store, changed, missed, fails>>
  <2>1. StoreTypes'
    BY <1>0, <1>4, StoreSame, Zenon
  <2>2. ServerTypes'
    BY <1>0, <1>1, <1>4, SMT DEF ServerTypes
  <2>3. MarginOf(s)'
    BY <1>1, <1>4, Zenon DEF MarginOf
  <2>4. ASSUME NEW x \in Servers \ {s} PROVE SameServer(x)
    BY <1>0, <1>1, <1>4, SMT DEF ServerTypes, SameServer
  <2>5. Margin'
    BY <1>0, <1>4, <2>3, <2>4, StoreSame, MarginOthers, Zenon
  <2> QED
    BY <2>1, <2>2, <2>5, Zenon DEF IInv
<1> QED
  BY <1>2, <1>3, <1>4, Zenon DEF Refresh

\* A server that has crashed has no refreshes to miss.
LEMMA CrashIInv ==
    ASSUME IInv, NEW s \in Servers, Crash(s)
    PROVE  IInv'
<1>0. StoreTypes /\ ServerTypes /\ Margin
  BY Zenon DEF IInv
<1>1. StoreTypes'
  BY <1>0, StoreSame, Zenon DEF Crash
<1>2. ServerTypes'
  BY <1>0, SMT DEF ServerTypes, Crash
<1>3. MarginOf(s)'
  <2>1. up'[s] = "crashed"
    BY <1>0, Zenon DEF ServerTypes, Crash
  <2> QED
    BY <2>1, Zenon DEF MarginOf
<1>4. ASSUME NEW x \in Servers \ {s} PROVE SameServer(x)
  BY <1>0, Zenon DEF ServerTypes, SameServer, Crash
<1>5. Margin'
  BY <1>0, <1>3, <1>4, StoreSame, MarginOthers, Zenon DEF Crash
<1> QED
  BY <1>1, <1>2, <1>5, Zenon DEF IInv

\* Time shortens the life of an entry and the wait for its refresh alike; an
\* entry with its margin does not expire.
LEMMA TickIInv ==
    ASSUME IInv, Tick
    PROVE  IInv'
<1>0. StoreTypes /\ ServerTypes /\ Margin
  BY Zenon DEF IInv
<1>1. StoreTypes'
  BY <1>0, SMT DEF StoreTypes, Tick, Age
<1>2. ServerTypes'
  BY <1>0, SMT DEF ServerTypes, Tick
<1>3. ASSUME NEW s \in Servers PROVE MarginOf(s)'
  <2>1. /\ UNCHANGED <<up, ticking, missed>>
        /\ due'[s] = IF ticking[s] THEN due[s] - 1 ELSE due[s]
        /\ due[s] \in -MaxLate .. Interval /\ (ticking[s] => due[s] > -MaxLate)
    BY <1>0, SMT DEF ServerTypes, Tick
  <2>2. /\ ttl'[s] = IF ttl[s] > 0 THEN ttl[s] - 1 ELSE 0
        /\ life'[s] = IF ttl[s] > 1 THEN life[s] ELSE 0
        /\ ttl[s] \in Nat
    BY <1>0, Zenon DEF StoreTypes, Tick, Age
  <2>3. MarginOf(s)
    BY <1>0, Zenon DEF Margin
  <2> QED
    <3>1. ASSUME NEW k \in {Interval, 2 * Interval}, ticking[s],
                 ttl[s] >= due[s] + k
          PROVE  ttl'[s] >= due'[s] + k
      <4>1. due'[s] = due[s] - 1 /\ due[s] \in Int
        BY <2>1, <3>1, SMT
      <4>2. ttl'[s] >= ttl[s] - 1 /\ ttl'[s] \in Int /\ ttl[s] \in Int
        BY <2>2, SMT
      <4>3. k \in Int
        BY SMT
      <4> QED BY ONLY <3>1, <4>1, <4>2, <4>3, SMT
    <3>2. life'[s] = 3 * Interval => life[s] = 3 * Interval
      BY <2>2, SMT
    <3> QED
      BY <2>1, <2>3, <3>1, <3>2, Zenon DEF MarginOf
<1> QED
  BY <1>1, <1>2, <1>3, Zenon DEF IInv, Margin

\* A discovery only reads the store.
LEMMA DiscoveryReads ==
    ASSUME DiscoveryNext
    PROVE  UNCHANGED store
BY Zenon DEF DiscoveryNext, NewDiscovery, GetServices, WatchService, Apply,
       CloseWatcher, WatchEnds, WatchTree, List, Receive, WatchBreaks, Deliver,
       Drop

\* Every step preserves the invariant.
LEMMA NextIInv == IInv /\ [NamingNext]_namingVars => IInv'
<1> SUFFICES ASSUME IInv, [NamingNext]_namingVars PROVE IInv'
  OBVIOUS
<1>1. CASE RegistryNext
  BY <1>1, StartIInv, RegisterIInv, RefreshIInv, CrashIInv, TickIInv
     DEF RegistryNext
<1>2. CASE UNCHANGED <<store, registryVars>>
  <2>0. StoreTypes /\ ServerTypes /\ Margin
    BY Zenon DEF IInv
  <2>1. StoreTypes'
    BY <1>2, <2>0, StoreSame, Zenon
  <2>2. ServerTypes' /\ Margin'
    BY <1>2, <2>0, Zenon
       DEF ServerTypes, Margin, MarginOf, store, registryVars
  <2> QED
    BY <2>1, <2>2, Zenon DEF IInv
<1> QED
  BY <1>1, <1>2, DiscoveryReads DEF NamingNext, namingVars

\* The invariant is what the property needs.
LEMMA IInvPublished == IInv => PublishedWhileRefreshed
BY SMT DEF IInv, StoreTypes, ServerTypes, Margin, MarginOf,
           PublishedWhileRefreshed, Spare, Entries

\* An entry outlives the time to its next refresh: a server whose refreshes
\* arrive, but for one in a row where the TTL allows for it, stays published,
\* with etcd and with the sessions of consul.
THEOREM StaysPublished == NamingSpec => []PublishedWhileRefreshed
<1>1. NamingSpec => []IInv
  BY InitIInv, NextIInv, PTL DEF NamingSpec
<1> QED
  BY <1>1, IInvPublished, PTL
=============================================================================
