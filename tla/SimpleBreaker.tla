--------------------------- MODULE SimpleBreaker ---------------------------
(***************************************************************************)
(* SimpleCircuitBreaker of circuit/breaker_simple.go, shared by the        *)
(* goroutines that make calls through it: Client.CallDirect runs every     *)
(* call and every heartbeat of a client, and of the clients it caches,     *)
(* through one breaker.                                                    *)
(*                                                                         *)
(* failures is accessed atomically, lastFailureTime without any lock, and  *)
(* each access is a step.  Time is abstracted to ages: the age of          *)
(* lastFailureTime, and for each goroutine the time since it could first   *)
(* have evaluated the time.Now() it is about to store.  Ages past the      *)
(* window are all alike and are counted as Window + 1.                     *)
(***************************************************************************)
EXTENDS Integers, FiniteSets

CONSTANTS
    Users,        \* the goroutines that use the breaker
    Threshold,      \* failureThreshold
    Window          \* window, in ticks

ASSUME BreakerAssumption ==
    /\ IsFiniteSet(Users)
    /\ Threshold \in Nat \ {0}
    /\ Window \in Nat

VARIABLES
    failures,       \* failures
    age,            \* time.Since(lastFailureTime)
    at,             \* where each goroutine is in Call
    stamp           \* how old the time it is about to store may be

breakerVars == <<failures, age, at, stamp>>

Ages == 0 .. Window + 1
Older(a) == IF a > Window THEN a ELSE a + 1

Goto(c, where) == at' = [at EXCEPT ![c] = where]

\* The zero time.Time is older than any window.
BreakerInit ==
    /\ failures = 0
    /\ age = Window + 1
    /\ at = [c \in Users |-> "idle"]
    /\ stamp = [c \in Users |-> 0]

\* Faults that the properties below detect: ready admits one call too many,
\* a call that is turned away restarts the window, and reset stores the time
\* only.
LoadOffByOne(c) ==
    /\ at[c] = "load"
    /\ Goto(c, IF failures <= Threshold THEN "run" ELSE "idle")
    /\ UNCHANGED <<failures, age, stamp>>

LoadExtends(c) ==
    /\ at[c] = "load"
    /\ Goto(c, IF failures < Threshold THEN "run" ELSE "idle")
    /\ age' = IF failures < Threshold THEN age ELSE 0
    /\ UNCHANGED <<failures, stamp>>

ResetTime(c) ==
    /\ at[c] \in {"expired", "succeeded"}
    /\ stamp' = [stamp EXCEPT ![c] = 0]
    /\ Goto(c, IF at[c] = "expired" THEN "restart" ELSE "note")
    /\ UNCHANGED <<failures, age>>

\* A goroutine calls Call.
Enter(c) ==
    /\ at[c] = "idle"
    /\ Goto(c, "ready")
    /\ UNCHANGED <<failures, age, stamp>>

\* ready: the window since the last failure or reset has passed, or not.
CheckWindow(c) ==
    /\ at[c] = "ready"
    /\ Goto(c, IF age > Window THEN "expired" ELSE "load")
    /\ UNCHANGED <<failures, age, stamp>>

\* ready: failures is loaded, and the call goes ahead or gets ErrBreakerOpen.
Load(c) ==
    /\ at[c] = "load"
    /\ Goto(c, IF failures < Threshold THEN "run" ELSE "idle")
    /\ UNCHANGED <<failures, age, stamp>>

\* reset, called by ready or by success: failures is stored; the time is
\* stored by Note.
Reset(c) ==
    /\ at[c] \in {"expired", "succeeded"}
    /\ failures' = 0
    /\ stamp' = [stamp EXCEPT ![c] = 0]
    /\ Goto(c, IF at[c] = "expired" THEN "restart" ELSE "note")
    /\ UNCHANGED age

\* fn returns, or the timer fires first; what fn returns after that goes to
\* a buffered channel that nobody reads.
Finish(c) ==
    /\ at[c] = "run"
    /\ \E result \in {"succeeded", "failed"} : Goto(c, result)
    /\ UNCHANGED <<failures, age, stamp>>

\* fail: failures is incremented; the time is stored by Note.
Fail(c) ==
    /\ at[c] = "failed"
    /\ failures' = failures + 1
    /\ stamp' = [stamp EXCEPT ![c] = 0]
    /\ Goto(c, "note")
    /\ UNCHANGED age

\* lastFailureTime = time.Now(), the last statement of reset and of fail: the
\* goroutine may have been delayed between the evaluation and the store.
Note(c) ==
    /\ at[c] \in {"restart", "note"}
    /\ age' \in 0 .. stamp[c]
    /\ Goto(c, IF at[c] = "restart" THEN "run" ELSE "idle")
    /\ UNCHANGED <<failures, stamp>>

\* Time passes.
Tick ==
    /\ age' = Older(age)
    /\ stamp' = [c \in Users |-> IF at[c] \in {"restart", "note"}
                                     THEN Older(stamp[c]) ELSE stamp[c]]
    /\ UNCHANGED <<failures, at>>

Step(c) ==
    \/ CheckWindow(c) \/ Load(c) \/ Reset(c) \/ Finish(c) \/ Fail(c)
    \/ Note(c)

BreakerNext == Tick \/ \E c \in Users : Enter(c) \/ Step(c)

BreakerSpec == BreakerInit /\ [][BreakerNext]_breakerVars

\* The goroutines run, time passes, every fn ends (a timeout d > 0 sees to
\* it), and the goroutines keep calling.
FairBreakerSpec ==
    /\ BreakerSpec
    /\ \A c \in Users : WF_breakerVars(Enter(c)) /\ WF_breakerVars(Step(c))
    /\ WF_breakerVars(Tick)

-----------------------------------------------------------------------------
\* The variables keep their types: the count of failures is a number however
\* fail and reset interleave, and every goroutine is at a step of Call.
BreakerTypeOK ==
    /\ failures \in Nat
    /\ age \in Ages
    /\ at \in [Users -> {"idle", "ready", "load", "expired", "restart", "run",
                           "succeeded", "failed", "note"}]
    /\ stamp \in [Users -> Ages]

\* The calls that ready has admitted and that may still fail.
Admitted ==
    {c \in Users : at[c] \in {"restart", "run", "succeeded", "failed"}}

\* However the goroutines interleave, the calls that get past ready beyond
\* the threshold are at most the ones that were let in concurrently: the
\* failures counted and the calls that may still add one are bounded by the
\* threshold and the number of goroutines.
BoundedOvershoot ==
    failures + Cardinality(Admitted) <= Threshold - 1 + Cardinality(Users)

\* The breaker never stays open: calls are admitted again and again, although
\* every one of them may fail and although a call that is turned away goes
\* through ready too.
Recovers == []<>(\E c \in Users : at[c] = "run")

\* Once calls have stopped failing the breaker closes for good: no failure
\* that was counted before, by however late a goroutine, is left over.
Heals == <>[](\A c \in Users : at[c] # "failed")
            => <>[](failures < Threshold)
=============================================================================
