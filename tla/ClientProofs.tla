---------------------------- MODULE ClientProofs ----------------------------
(***************************************************************************)
(* What the parts of a client keep for any number of goroutines: the pool  *)
(* of connections and the circuit breaker that they share.                 *)
(***************************************************************************)
EXTENDS ClientPool, SimpleBreaker, FiniteSetTheorems, TLAPS

-----------------------------------------------------------------------------
(* ClientPool, for any callers, servers and clients and any number of        *)
(* retries, from the inductive invariant PoolInv.                            *)

KeepsPool == PoolInv => PoolInv'

\* The invariant holds of a new client.
LEMMA PoolInit == Init => PoolInv
<1> SUFFICES ASSUME Init PROVE PoolInv
  OBVIOUS
<1>1. /\ first \in [Callers -> BOOLEAN]
      /\ poolClosed \in BOOLEAN /\ unwatching \in BOOLEAN
      /\ watching \in BOOLEAN
  BY Zenon DEF Init
<1>2. TypeOK
  BY <1>1, PoolAssumption DEF Init, TypeOK, Modes, Errors, NoError
<1>3. \A u \in Callers : pc[u] = "idle" /\ first[u]
  BY Zenon DEF Init
<1>4. LocalInv /\ CloseInv /\ FailedInv
  BY <1>3, Zenon DEF LocalInv, CloseInv, FailedInv
<1>5. /\ CacheInv /\ ClosedInv /\ NoStrayClient /\ ServedReturnsNil
  BY <1>3, PoolAssumption
     DEF Init, CacheInv, ClosedInv, NoStrayClient, ServedReturnsNil
<1> QED BY <1>2, <1>4, <1>5 DEF PoolInv

\* Where a caller goes on after removeClient.
LEMMA AfterRemoveValue ==
  TypeOK => /\ mode = "FailFast" => AfterRemove = "returned"
            /\ mode = "FailOver" => AfterRemove = "select"
            /\ mode = "FailTry" => AfterRemove = "lookup"
            /\ mode \in {"FailFast", "FailOver", "FailTry"}
BY DEF TypeOK, Modes, AfterRemove

\* A caller makes a Call.
LEMMA KeepsCall == \A u \in Callers : Call(u) => KeepsPool
<1> SUFFICES ASSUME NEW u \in Callers, PoolInv, Call(u) PROVE PoolInv'
  BY DEF KeepsPool
<1> USE PoolAssumption, SMTT(20)
        DEF Set, poolVars, kidVars, watchVars, localVars
<1>0. /\ TypeOK /\ CacheInv /\ LocalInv /\ CloseInv /\ ClosedInv /\ FailedInv
      /\ NoStrayClient /\ ServedReturnsNil
  BY DEF PoolInv
<1>1. /\ first' \in [Callers -> BOOLEAN]
      /\ poolClosed' \in BOOLEAN /\ unwatching' \in BOOLEAN
      /\ watching' \in BOOLEAN
  BY <1>0, Zenon DEF Call, TypeOK
<1>2. TypeOK'
  BY <1>0, <1>1 DEF Call, TypeOK, Modes, Errors, NoError, LocalInv, CloseInv
<1>3. CacheInv' /\ LocalInv'
  BY <1>0 DEF Call, TypeOK, CacheInv, LocalInv, CloseInv, NoError
<1>4. CloseInv' /\ ClosedInv' /\ FailedInv'
  BY <1>0 DEF Call, TypeOK, CacheInv, LocalInv, CloseInv, ClosedInv,
     FailedInv, NoError
<1>5. NoStrayClient' /\ ServedReturnsNil'
  BY <1>0 DEF Call, TypeOK, CacheInv, LocalInv, CloseInv, NoStrayClient,
     ServedReturnsNil, FailedInv, Dead, NoError
<1> QED BY <1>2, <1>3, <1>4, <1>5 DEF PoolInv

\* A caller selects a server.
LEMMA KeepsSelect == \A u \in Callers : Select(u) => KeepsPool
<1> SUFFICES ASSUME NEW u \in Callers, PoolInv, Select(u) PROVE PoolInv'
  BY DEF KeepsPool
<1> USE PoolAssumption, SMTT(20)
        DEF Set, poolVars, kidVars, watchVars, localVars
<1>0. /\ TypeOK /\ CacheInv /\ LocalInv /\ CloseInv /\ ClosedInv /\ FailedInv
      /\ NoStrayClient /\ ServedReturnsNil
  BY DEF PoolInv
<1>1. /\ first' \in [Callers -> BOOLEAN]
      /\ poolClosed' \in BOOLEAN /\ unwatching' \in BOOLEAN
      /\ watching' \in BOOLEAN
  BY <1>0, Zenon DEF Select, Got, TypeOK
<1>2. TypeOK'
  BY <1>0, <1>1 DEF Select, Got, TypeOK, Modes, Errors, NoError, LocalInv,
     CloseInv
<1>3. CacheInv' /\ LocalInv'
  BY <1>0 DEF Select, Got, TypeOK, CacheInv, LocalInv, CloseInv, NoError
<1>4. CloseInv' /\ ClosedInv' /\ FailedInv'
  BY <1>0 DEF Select, Got, TypeOK, CacheInv, LocalInv, CloseInv, ClosedInv,
     FailedInv, NoError
<1>5. NoStrayClient' /\ ServedReturnsNil'
  BY <1>0 DEF Select, Got, TypeOK, CacheInv, LocalInv, CloseInv,
     NoStrayClient, ServedReturnsNil, FailedInv, Dead, NoError
<1> QED BY <1>2, <1>3, <1>4, <1>5 DEF PoolInv

\* getCachedClient looks into the cache.
LEMMA KeepsLookup == \A u \in Callers : Lookup(u) => KeepsPool
<1> SUFFICES ASSUME NEW u \in Callers, PoolInv, Lookup(u) PROVE PoolInv'
  BY DEF KeepsPool
<1> USE PoolAssumption, SMTT(20)
        DEF Set, poolVars, kidVars, watchVars, localVars
<1>0. /\ TypeOK /\ CacheInv /\ LocalInv /\ CloseInv /\ ClosedInv /\ FailedInv
      /\ NoStrayClient /\ ServedReturnsNil
  BY DEF PoolInv
<1>1. /\ first' \in [Callers -> BOOLEAN]
      /\ poolClosed' \in BOOLEAN /\ unwatching' \in BOOLEAN
      /\ watching' \in BOOLEAN
  BY <1>0, Zenon DEF Lookup, Got, Dead, TypeOK
<1>2. TypeOK'
  BY <1>0, <1>1 DEF Lookup, Got, Dead, TypeOK, Modes, Errors, NoError,
     LocalInv, CloseInv
<1>3. CacheInv' /\ LocalInv'
  BY <1>0 DEF Lookup, Got, Dead, TypeOK, CacheInv, LocalInv, CloseInv,
     NoError
<1>4. CloseInv' /\ ClosedInv' /\ FailedInv'
  BY <1>0 DEF Lookup, Got, Dead, TypeOK, CacheInv, LocalInv, CloseInv,
     ClosedInv, FailedInv, NoError
<1>5. NoStrayClient' /\ ServedReturnsNil'
  BY <1>0 DEF Lookup, Got, Dead, TypeOK, CacheInv, LocalInv, CloseInv,
     NoStrayClient, ServedReturnsNil, FailedInv, NoError
<1> QED BY <1>2, <1>3, <1>4, <1>5 DEF PoolInv

\* getCachedClient connects and enters its client into the cache.
LEMMA KeepsConnect == \A u \in Callers : Connect(u) => KeepsPool
<1> SUFFICES ASSUME NEW u \in Callers, PoolInv, Connect(u) PROVE PoolInv'
  BY DEF KeepsPool
<1> USE PoolAssumption, SMTT(20)
        DEF Set, poolVars, kidVars, watchVars, localVars
<1>0. /\ TypeOK /\ CacheInv /\ LocalInv /\ CloseInv /\ ClosedInv /\ FailedInv
      /\ NoStrayClient /\ ServedReturnsNil
  BY DEF PoolInv
<1>1. /\ first' \in [Callers -> BOOLEAN]
      /\ poolClosed' \in BOOLEAN /\ unwatching' \in BOOLEAN
      /\ watching' \in BOOLEAN
  BY <1>0, Zenon DEF Connect, Got, Dead, TypeOK
<1>2. TypeOK'
  BY <1>0, <1>1 DEF Connect, Got, Dead, TypeOK, Modes, Errors, NoError,
     LocalInv, CloseInv
<1>3. CacheInv' /\ LocalInv'
  BY <1>0 DEF Connect, Got, Dead, TypeOK, CacheInv, LocalInv, CloseInv,
     NoError
<1>4. CloseInv' /\ ClosedInv' /\ FailedInv'
  BY <1>0 DEF Connect, Got, Dead, TypeOK, CacheInv, LocalInv, CloseInv,
     ClosedInv, FailedInv, NoError
<1>5. NoStrayClient' /\ ServedReturnsNil'
  BY <1>0 DEF Connect, Got, Dead, TypeOK, CacheInv, LocalInv, CloseInv,
     NoStrayClient, ServedReturnsNil, FailedInv, NoError
<1> QED BY <1>2, <1>3, <1>4, <1>5 DEF PoolInv

\* A caller tries its call on the client it got.
LEMMA KeepsTry == \A u \in Callers : Try(u) => KeepsPool
<1> SUFFICES ASSUME NEW u \in Callers, PoolInv, Try(u) PROVE PoolInv'
  BY DEF KeepsPool
<1> USE PoolAssumption, SMTT(20)
        DEF Set, poolVars, kidVars, watchVars, localVars
<1>0. /\ TypeOK /\ CacheInv /\ LocalInv /\ CloseInv /\ ClosedInv /\ FailedInv
      /\ NoStrayClient /\ ServedReturnsNil
  BY DEF PoolInv
<1>1. /\ first' \in [Callers -> BOOLEAN]
      /\ poolClosed' \in BOOLEAN /\ unwatching' \in BOOLEAN
      /\ watching' \in BOOLEAN
  BY <1>0, Zenon DEF Try, TryWith, Outcomes, Dead, Errors, TypeOK
<1>2. TypeOK'
  BY <1>0, <1>1 DEF Try, TryWith, Outcomes, Dead, Errors, TypeOK, Modes,
     NoError, LocalInv, CloseInv
<1>3. CacheInv' /\ LocalInv'
  BY <1>0 DEF Try, TryWith, Outcomes, Dead, Errors, TypeOK, CacheInv,
     LocalInv, CloseInv, NoError
<1>4. CloseInv' /\ ClosedInv' /\ FailedInv'
  BY <1>0 DEF Try, TryWith, Outcomes, Dead, Errors, TypeOK, CacheInv,
     LocalInv, CloseInv, ClosedInv, FailedInv, NoError
<1>5. NoStrayClient' /\ ServedReturnsNil'
  BY <1>0 DEF Try, TryWith, Outcomes, Dead, Errors, TypeOK, CacheInv,
     LocalInv, CloseInv, NoStrayClient, ServedReturnsNil, FailedInv, NoError
<1> QED BY <1>2, <1>3, <1>4, <1>5 DEF PoolInv

\* A caller got no client to try its call on.
LEMMA KeepsTryNone == \A u \in Callers : TryNone(u) => KeepsPool
<1> SUFFICES ASSUME NEW u \in Callers, PoolInv, TryNone(u) PROVE PoolInv'
  BY DEF KeepsPool
<1> USE PoolAssumption, SMTT(20)
        DEF Set, poolVars, kidVars, watchVars, localVars
<1>0. /\ TypeOK /\ CacheInv /\ LocalInv /\ CloseInv /\ ClosedInv /\ FailedInv
      /\ NoStrayClient /\ ServedReturnsNil
  BY DEF PoolInv
<1>1. /\ first' \in [Callers -> BOOLEAN]
      /\ poolClosed' \in BOOLEAN /\ unwatching' \in BOOLEAN
      /\ watching' \in BOOLEAN
  BY <1>0, Zenon DEF TryNone, TypeOK
<1>2. TypeOK'
  BY <1>0, <1>1 DEF TryNone, TypeOK, Modes, Errors, NoError, LocalInv,
     CloseInv
<1>3. CacheInv' /\ LocalInv'
  BY <1>0 DEF TryNone, TypeOK, CacheInv, LocalInv, CloseInv, NoError
<1>4. CloseInv' /\ ClosedInv' /\ FailedInv'
  BY <1>0 DEF TryNone, TypeOK, CacheInv, LocalInv, CloseInv, ClosedInv,
     FailedInv, NoError
<1>5. NoStrayClient' /\ ServedReturnsNil'
  BY <1>0 DEF TryNone, TypeOK, CacheInv, LocalInv, CloseInv, NoStrayClient,
     ServedReturnsNil, FailedInv, Dead, NoError
<1> QED BY <1>2, <1>3, <1>4, <1>5 DEF PoolInv

\* A caller is out of retries and returns.
LEMMA KeepsGiveUp == \A u \in Callers : GiveUp(u) => KeepsPool
<1> SUFFICES ASSUME NEW u \in Callers, PoolInv, GiveUp(u) PROVE PoolInv'
  BY DEF KeepsPool
<1> USE PoolAssumption, SMTT(20)
        DEF Set, poolVars, kidVars, watchVars, localVars
<1>0. /\ TypeOK /\ CacheInv /\ LocalInv /\ CloseInv /\ ClosedInv /\ FailedInv
      /\ NoStrayClient /\ ServedReturnsNil
  BY DEF PoolInv
<1>1. /\ first' \in [Callers -> BOOLEAN]
      /\ poolClosed' \in BOOLEAN /\ unwatching' \in BOOLEAN
      /\ watching' \in BOOLEAN
  BY <1>0, Zenon DEF GiveUp, TypeOK
<1>2. TypeOK'
  BY <1>0, <1>1 DEF GiveUp, TypeOK, Modes, Errors, NoError, LocalInv,
     CloseInv
<1>3. CacheInv' /\ LocalInv'
  BY <1>0 DEF GiveUp, TypeOK, CacheInv, LocalInv, CloseInv, NoError
<1>4. CloseInv' /\ ClosedInv' /\ FailedInv'
  BY <1>0 DEF GiveUp, TypeOK, CacheInv, LocalInv, CloseInv, ClosedInv,
     FailedInv, NoError
<1>5. NoStrayClient' /\ ServedReturnsNil'
  BY <1>0 DEF GiveUp, TypeOK, CacheInv, LocalInv, CloseInv, NoStrayClient,
     ServedReturnsNil, FailedInv, Dead, NoError
<1> QED BY <1>2, <1>3, <1>4, <1>5 DEF PoolInv

\* removeClient takes a client out of the cache.
LEMMA KeepsRemove == \A u \in Callers : Remove(u) => KeepsPool
<1> SUFFICES ASSUME NEW u \in Callers, PoolInv, Remove(u) PROVE PoolInv'
  BY DEF KeepsPool
<1> USE PoolAssumption, SMTT(20)
        DEF Set, poolVars, kidVars, watchVars, localVars
<1>0. /\ TypeOK /\ CacheInv /\ LocalInv /\ CloseInv /\ ClosedInv /\ FailedInv
      /\ NoStrayClient /\ ServedReturnsNil
  BY DEF PoolInv
<1>6. /\ mode = "FailFast" => AfterRemove = "returned"
      /\ mode = "FailOver" => AfterRemove = "select"
      /\ mode = "FailTry" => AfterRemove = "lookup"
      /\ mode \in {"FailFast", "FailOver", "FailTry"}
  BY <1>0, AfterRemoveValue
<1>1. /\ first' \in [Callers -> BOOLEAN]
      /\ poolClosed' \in BOOLEAN /\ unwatching' \in BOOLEAN
      /\ watching' \in BOOLEAN
  BY <1>0, Zenon DEF Remove, TypeOK
<1>2. TypeOK'
  BY <1>0, <1>6, <1>1 DEF Remove, TypeOK, Modes, Errors, NoError, LocalInv,
     CloseInv
<1>3. CacheInv' /\ LocalInv'
  BY <1>0, <1>6 DEF Remove, TypeOK, CacheInv, LocalInv, CloseInv, NoError
<1>4. CloseInv' /\ ClosedInv' /\ FailedInv'
  BY <1>0, <1>6 DEF Remove, TypeOK, CacheInv, LocalInv, CloseInv, ClosedInv,
     FailedInv, NoError
<1>5. NoStrayClient' /\ ServedReturnsNil'
  BY <1>0, <1>6 DEF Remove, TypeOK, CacheInv, LocalInv, CloseInv,
     NoStrayClient, ServedReturnsNil, FailedInv, Dead, NoError
<1> QED BY <1>2, <1>3, <1>4, <1>5 DEF PoolInv

\* removeClient closes the client it has taken out.
LEMMA KeepsClose == \A u \in Callers : Close(u) => KeepsPool
<1> SUFFICES ASSUME NEW u \in Callers, PoolInv, Close(u) PROVE PoolInv'
  BY DEF KeepsPool
<1> USE PoolAssumption, SMTT(20)
        DEF Set, poolVars, kidVars, watchVars, localVars
<1>0. /\ TypeOK /\ CacheInv /\ LocalInv /\ CloseInv /\ ClosedInv /\ FailedInv
      /\ NoStrayClient /\ ServedReturnsNil
  BY DEF PoolInv
<1>6. /\ mode = "FailFast" => AfterRemove = "returned"
      /\ mode = "FailOver" => AfterRemove = "select"
      /\ mode = "FailTry" => AfterRemove = "lookup"
      /\ mode \in {"FailFast", "FailOver", "FailTry"}
  BY <1>0, AfterRemoveValue
<1>1. /\ first' \in [Callers -> BOOLEAN]
      /\ poolClosed' \in BOOLEAN /\ unwatching' \in BOOLEAN
      /\ watching' \in BOOLEAN
  BY <1>0, Zenon DEF Close, TypeOK
<1>2. TypeOK'
  BY <1>0, <1>6, <1>1 DEF Close, TypeOK, Modes, Errors, NoError, LocalInv,
     CloseInv
<1>3. CacheInv' /\ LocalInv'
  BY <1>0, <1>6 DEF Close, TypeOK, CacheInv, LocalInv, CloseInv, NoError
<1>4. CloseInv' /\ ClosedInv' /\ FailedInv'
  BY <1>0, <1>6 DEF Close, TypeOK, CacheInv, LocalInv, CloseInv, ClosedInv,
     FailedInv, NoError
<1>5. NoStrayClient' /\ ServedReturnsNil'
  BY <1>0, <1>6 DEF Close, TypeOK, CacheInv, LocalInv, CloseInv,
     NoStrayClient, ServedReturnsNil, FailedInv, Dead, NoError
<1> QED BY <1>2, <1>3, <1>4, <1>5 DEF PoolInv

\* Close closes the clients of the cache.
LEMMA KeepsPoolClose == PoolClose => KeepsPool
<1> SUFFICES ASSUME PoolInv, PoolClose PROVE PoolInv'
  BY DEF KeepsPool
<1> USE PoolAssumption, SMTT(20)
        DEF Set, poolVars, kidVars, watchVars, localVars
<1>0. /\ TypeOK /\ CacheInv /\ LocalInv /\ CloseInv /\ ClosedInv /\ FailedInv
      /\ NoStrayClient /\ ServedReturnsNil
  BY DEF PoolInv
<1>1. /\ first' \in [Callers -> BOOLEAN]
      /\ poolClosed' \in BOOLEAN /\ unwatching' \in BOOLEAN
      /\ watching' \in BOOLEAN
  BY <1>0, Zenon DEF PoolClose, Cached, TypeOK
<1>2. TypeOK'
  BY <1>0, <1>1 DEF PoolClose, Cached, TypeOK, Modes, Errors, NoError,
     LocalInv, CloseInv
<1>3. CacheInv' /\ LocalInv'
  BY <1>0 DEF PoolClose, Cached, TypeOK, CacheInv, LocalInv, CloseInv,
     NoError
<1>4. CloseInv' /\ ClosedInv' /\ FailedInv'
  BY <1>0 DEF PoolClose, Cached, TypeOK, CacheInv, LocalInv, CloseInv,
     ClosedInv, FailedInv, NoError
<1>5. NoStrayClient' /\ ServedReturnsNil'
  BY <1>0 DEF PoolClose, Cached, TypeOK, CacheInv, LocalInv, CloseInv,
     NoStrayClient, ServedReturnsNil, FailedInv, Dead, NoError
<1> QED BY <1>2, <1>3, <1>4, <1>5 DEF PoolInv

\* Close gives up its watcher.
LEMMA KeepsUnwatch == Unwatch => KeepsPool
<1> SUFFICES ASSUME PoolInv, Unwatch PROVE PoolInv'
  BY DEF KeepsPool
<1> USE PoolAssumption, SMTT(20)
        DEF Set, poolVars, kidVars, watchVars, localVars
<1>0. /\ TypeOK /\ CacheInv /\ LocalInv /\ CloseInv /\ ClosedInv /\ FailedInv
      /\ NoStrayClient /\ ServedReturnsNil
  BY DEF PoolInv
<1>1. /\ first' \in [Callers -> BOOLEAN]
      /\ poolClosed' \in BOOLEAN /\ unwatching' \in BOOLEAN
      /\ watching' \in BOOLEAN
  BY <1>0, Zenon DEF Unwatch, TypeOK
<1>2. TypeOK'
  BY <1>0, <1>1 DEF Unwatch, TypeOK, Modes, Errors, NoError, LocalInv,
     CloseInv
<1>3. CacheInv' /\ LocalInv'
  BY <1>0 DEF Unwatch, TypeOK, CacheInv, LocalInv, CloseInv, NoError
<1>4. CloseInv' /\ ClosedInv' /\ FailedInv'
  BY <1>0 DEF Unwatch, TypeOK, CacheInv, LocalInv, CloseInv, ClosedInv,
     FailedInv, NoError
<1>5. NoStrayClient' /\ ServedReturnsNil'
  BY <1>0 DEF Unwatch, TypeOK, CacheInv, LocalInv, CloseInv, NoStrayClient,
     ServedReturnsNil, FailedInv, Dead, NoError
<1> QED BY <1>2, <1>3, <1>4, <1>5 DEF PoolInv

\* A connection dies by itself.
LEMMA KeepsDie == \A k \in Kids : Die(k) => KeepsPool
<1> SUFFICES ASSUME NEW k \in Kids, PoolInv, Die(k) PROVE PoolInv'
  BY DEF KeepsPool
<1> USE PoolAssumption, SMTT(20)
        DEF Set, poolVars, kidVars, watchVars, localVars
<1>0. /\ TypeOK /\ CacheInv /\ LocalInv /\ CloseInv /\ ClosedInv /\ FailedInv
      /\ NoStrayClient /\ ServedReturnsNil
  BY DEF PoolInv
<1>1. /\ first' \in [Callers -> BOOLEAN]
      /\ poolClosed' \in BOOLEAN /\ unwatching' \in BOOLEAN
      /\ watching' \in BOOLEAN
  BY <1>0, Zenon DEF Die, TypeOK
<1>2. TypeOK'
  BY <1>0, <1>1 DEF Die, TypeOK, Modes, Errors, NoError, LocalInv, CloseInv
<1>3. CacheInv' /\ LocalInv'
  BY <1>0 DEF Die, TypeOK, CacheInv, LocalInv, CloseInv, NoError
<1>4. CloseInv' /\ ClosedInv' /\ FailedInv'
  BY <1>0 DEF Die, TypeOK, CacheInv, LocalInv, CloseInv, ClosedInv,
     FailedInv, NoError
<1>5. NoStrayClient' /\ ServedReturnsNil'
  BY <1>0 DEF Die, TypeOK, CacheInv, LocalInv, CloseInv, NoStrayClient,
     ServedReturnsNil, FailedInv, Dead, NoError
<1> QED BY <1>2, <1>3, <1>4, <1>5 DEF PoolInv

\* A stuttering step.
LEMMA KeepsUnchanged == UNCHANGED vars => KeepsPool
<1> SUFFICES ASSUME PoolInv, UNCHANGED vars PROVE PoolInv'
  BY DEF KeepsPool
<1> USE DEF vars, poolVars, kidVars, watchVars, localVars
<1>1. TypeOK' /\ CacheInv' /\ LocalInv' /\ CloseInv'
  BY DEF PoolInv, TypeOK, CacheInv, LocalInv, CloseInv
<1>2. ClosedInv' /\ FailedInv' /\ NoStrayClient' /\ ServedReturnsNil'
  BY DEF PoolInv, ClosedInv, FailedInv, NoStrayClient, ServedReturnsNil, Dead
<1> QED BY <1>1, <1>2 DEF PoolInv

\* PoolInv holds in every reachable state of the pool.
THEOREM PoolInductive == Spec => []PoolInv
<1>1. Init => PoolInv
  BY PoolInit
<1>2. PoolInv /\ [Next]_vars => PoolInv'
  BY KeepsCall, KeepsSelect, KeepsLookup, KeepsConnect, KeepsTry, KeepsTryNone,
     KeepsGiveUp, KeepsRemove, KeepsClose, KeepsPoolClose, KeepsUnwatch,
     KeepsDie, KeepsUnchanged, Zenon
     DEF KeepsPool, Next, Caller
<1> QED BY <1>1, <1>2, PTL DEF Spec

\* Every connected client is dead, or cached, or about to be closed by the
\* caller that evicted it: getCachedClient's second look under the lock and
\* removeClient's comparison leave no other client behind.
THEOREM NoneStray == Spec => []NoStrayClient
<1>1. PoolInv => NoStrayClient
  BY DEF PoolInv
<1> QED BY <1>1, PoolInductive, PTL

\* A client that removeClient has given to Close is not cached, so Close of
\* the parent never calls close on it.
THEOREM ClosedEvicted == Spec => []ClosedIsEvicted
<1>1. PoolInv => ClosedIsEvicted
  BY PoolAssumption
     DEF PoolInv, TypeOK, CacheInv, ClosedInv, ClosedIsEvicted, Cached
<1> QED BY <1>1, PoolInductive, PTL

\* A caller whose CallDirect succeeded has returned nil, and FailFast returns
\* nil only to such a caller.
THEOREM ServedNil == Spec => []ServedReturnsNil
<1>1. PoolInv => ServedReturnsNil
  BY DEF PoolInv
<1> QED BY <1>1, PoolInductive, PTL

\* An entry of the cache disappears only through Close of the parent, or
\* through a caller in removeClient whose own client it is.
THEOREM EvictsOwn == Spec => EvictsItsOwnClient
<1> USE SMTT(20)
<1> DEFINE Evicts ==
      \A s \in Servers : cache[s] # nil /\ cache'[s] # cache[s] =>
         \/ poolClosed' # poolClosed
         \/ \E u \in Callers :
               pc[u] = "remove" /\ pc'[u] = "close" /\ kid[u] = cache[s]
<1>1. ASSUME PoolInv, Next PROVE Evicts
  <2> HIDE DEF Evicts
  <2>0. TypeOK
    BY <1>1 DEF PoolInv
  <2>1. ASSUME cache' = cache PROVE Evicts
    BY <2>1 DEF Evicts
  <2>2. ASSUME NEW u \in Callers, Connect(u) PROVE Evicts
    BY <2>0, <2>2 DEF Connect, Set, poolVars, TypeOK, Evicts
  <2>3. ASSUME NEW u \in Callers, Remove(u) PROVE Evicts
    BY <2>0, <2>3 DEF Remove, Set, TypeOK, Evicts
  <2>4. CASE PoolClose
    BY <2>0, <2>4, Zenon DEF PoolClose, Evicts
  <2>5. ASSUME NEW u \in Callers,
               \/ Call(u) \/ Select(u) \/ Lookup(u) \/ Try(u) \/ TryNone(u)
               \/ GiveUp(u) \/ Close(u)
        PROVE  Evicts
    BY <2>1, <2>5 DEF Call, Select, Lookup, Try, TryWith, TryNone, GiveUp, Close,
                      poolVars
  <2>6. ASSUME Unwatch \/ \E k \in Kids : Die(k) PROVE Evicts
    BY <2>1, <2>6 DEF Unwatch, Die, poolVars
  <2> QED BY <1>1, <2>2, <2>3, <2>4, <2>5, <2>6, Zenon DEF Next, Caller
<1>2. PoolInv /\ [Next]_vars => [Evicts]_vars
  BY <1>1
<1> QED BY <1>2, PoolInductive, PTL DEF Spec, EvictsItsOwnClient

-----------------------------------------------------------------------------
(* SimpleBreaker: its types, and the bound on the failures it counts, for    *)
(* any number of goroutines, any threshold and any window.                   *)
(* BreakerTypeOK /\ BoundedOvershoot is inductive.                           *)

\* A new breaker has fields of their types.
LEMMA BreakerTypeInit == BreakerInit => BreakerTypeOK
BY BreakerAssumption DEF BreakerInit, BreakerTypeOK, Ages

\* Every step of a breaker keeps the types.
LEMMA BreakerTypeStep == BreakerTypeOK /\ [BreakerNext]_breakerVars => BreakerTypeOK'
<1> SUFFICES ASSUME BreakerTypeOK, [BreakerNext]_breakerVars PROVE BreakerTypeOK'
  OBVIOUS
<1> USE BreakerAssumption DEF BreakerTypeOK, Ages, Goto
<1>1. ASSUME NEW c \in Users, Enter(c) PROVE BreakerTypeOK'
  BY <1>1 DEF Enter
<1>2. ASSUME NEW c \in Users, CheckWindow(c) PROVE BreakerTypeOK'
  BY <1>2 DEF CheckWindow
<1>3. ASSUME NEW c \in Users, Load(c) PROVE BreakerTypeOK'
  BY <1>3 DEF Load
<1>4. ASSUME NEW c \in Users, Reset(c) PROVE BreakerTypeOK'
  BY <1>4 DEF Reset
<1>5. ASSUME NEW c \in Users, Finish(c) PROVE BreakerTypeOK'
  BY <1>5 DEF Finish
<1>6. ASSUME NEW c \in Users, Fail(c) PROVE BreakerTypeOK'
  BY <1>6 DEF Fail
<1>7. ASSUME NEW c \in Users, Note(c) PROVE BreakerTypeOK'
  BY <1>7 DEF Note
<1>8. CASE Tick
  BY <1>8 DEF Tick, Older
<1>9. CASE UNCHANGED breakerVars
  BY <1>9 DEF breakerVars
<1> QED BY <1>1, <1>2, <1>3, <1>4, <1>5, <1>6, <1>7, <1>8, <1>9
        DEF BreakerNext, Step

\* The variables of the breaker keep their types; in particular failures
\* never goes below zero.
THEOREM BreakerTypeCorrect == BreakerSpec => []BreakerTypeOK
BY BreakerTypeInit, BreakerTypeStep, PTL DEF BreakerSpec

\* A set of goroutines is finite and no larger than all of them.
LEMMA SubsetBound ==
  ASSUME NEW S \in SUBSET Users
  PROVE  /\ IsFiniteSet(S)
         /\ Cardinality(S) \in Nat
         /\ Cardinality(Users) \in Nat
         /\ Cardinality(S) <= Cardinality(Users)
BY BreakerAssumption, FS_Subset, FS_CardinalityType

\* Every step keeps the bound on the overshoot.
LEMMA OvershootStep ==
  BreakerTypeOK /\ BoundedOvershoot /\ [BreakerNext]_breakerVars => BoundedOvershoot'
<1> SUFFICES ASSUME BreakerTypeOK, BoundedOvershoot, [BreakerNext]_breakerVars
             PROVE  BoundedOvershoot'
  OBVIOUS
<1> USE DEF Goto
<1>0. /\ IsFiniteSet(Admitted)
      /\ Cardinality(Admitted) \in Nat
      /\ Cardinality(Users) \in Nat
      /\ IsFiniteSet(Admitted')
      /\ Cardinality(Admitted') \in Nat
      /\ Cardinality(Admitted') <= Cardinality(Users)
  <2>1. Admitted \in SUBSET Users /\ Admitted' \in SUBSET Users
    BY DEF Admitted
  <2> QED BY <2>1, SubsetBound
<1>1. ASSUME failures' = failures, Admitted' \subseteq Admitted
      PROVE  BoundedOvershoot'
  <2>1. Cardinality(Admitted') <= Cardinality(Admitted)
    BY <1>0, <1>1, FS_Subset
  <2> QED BY <1>0, <1>1, <2>1, BreakerAssumption
          DEF BoundedOvershoot, BreakerTypeOK
<1>2. ASSUME failures' < Threshold, failures' \in Nat PROVE BoundedOvershoot'
  BY <1>0, <1>2, BreakerAssumption DEF BoundedOvershoot
<1>3. ASSUME NEW c \in Users, Fail(c) PROVE BoundedOvershoot'
  <2>1. c \in Admitted /\ Admitted' = Admitted \ {c}
    BY <1>3 DEF Fail, Admitted, BreakerTypeOK
  <2>2. Cardinality(Admitted') = Cardinality(Admitted) - 1
    BY <1>0, <2>1, FS_RemoveElement
  <2> QED BY <1>0, <1>3, <2>2, BreakerAssumption
          DEF Fail, BoundedOvershoot, BreakerTypeOK
<1>4. ASSUME NEW c \in Users, Enter(c) \/ CheckWindow(c) \/ Finish(c) \/ Note(c)
      PROVE  BoundedOvershoot'
  <2>1. failures' = failures /\ Admitted' \subseteq Admitted
    BY <1>4 DEF Enter, CheckWindow, Finish, Note, Admitted, BreakerTypeOK
  <2> QED BY <1>1, <2>1
<1>5. ASSUME NEW c \in Users, Load(c) PROVE BoundedOvershoot'
  <2>1. CASE failures < Threshold
    BY <1>2, <1>5, <2>1 DEF Load, BreakerTypeOK
  <2>2. CASE ~(failures < Threshold)
    <3>1. failures' = failures /\ Admitted' \subseteq Admitted
      BY <1>5, <2>2 DEF Load, Admitted, BreakerTypeOK
    <3> QED BY <1>1, <3>1
  <2> QED BY <2>1, <2>2
<1>6. ASSUME NEW c \in Users, Reset(c) PROVE BoundedOvershoot'
  BY <1>2, <1>6, BreakerAssumption DEF Reset
<1>7. CASE Tick \/ UNCHANGED breakerVars
  <2>1. failures' = failures /\ Admitted' \subseteq Admitted
    BY <1>7 DEF Tick, breakerVars, Admitted
  <2> QED BY <1>1, <2>1
<1> QED BY <1>3, <1>4, <1>5, <1>6, <1>7 DEF BreakerNext, Step

\* SimpleCircuitBreaker counts at most Threshold - 1 failures plus one for
\* each goroutine that was let in concurrently, so failures cannot wrap.
THEOREM OvershootBounded == BreakerSpec => []BoundedOvershoot
<1>1. BreakerInit => BoundedOvershoot
  <2> SUFFICES ASSUME BreakerInit PROVE BoundedOvershoot
    OBVIOUS
  <2>1. Admitted = {}
    BY DEF BreakerInit, Admitted
  <2>2. Cardinality(Admitted) = 0
    BY <2>1, FS_EmptySet
  <2>3. Cardinality(Users) \in Nat
    BY BreakerAssumption, FS_CardinalityType
  <2> QED BY <2>2, <2>3, BreakerAssumption DEF BreakerInit, BoundedOvershoot
<1>2. BreakerTypeOK /\ BoundedOvershoot /\ [BreakerNext]_breakerVars => BoundedOvershoot'
  BY OvershootStep
<1> QED BY <1>1, <1>2, BreakerTypeCorrect, PTL DEF BreakerSpec
=============================================================================
