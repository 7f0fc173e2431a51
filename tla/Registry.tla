------------------------------ MODULE Registry ------------------------------
(***************************************************************************)
(* EtcdRegister and ConsulRegister: a server publishes its address under   *)
(* its service and refreshes the entry.  A refresh may be late, by less    *)
(* than an interval, and an operation of the store may fail.  Close of the *)
(* server does not concern its registry; only the end of its process does. *)
(***************************************************************************)
EXTENDS Store

CONSTANTS
    MaxLate,        \* how late a refresh may be
    MaxFails        \* bound on the operations of the store that fail

ASSUME LateAssumption == MaxLate \in 0 .. Interval - 1

VARIABLES
    up,             \* where each server is
    ticking,        \* whether Start has started its refreshes
    due,            \* the time to its next tick, negative when it is late
    missed,         \* history: the refreshes that failed since the last Put
    fails           \* the operations of the store that have failed

registryVars == <<up, ticking, due, missed, fails>>

RegistryInit ==
    /\ backend \in {"etcd", "consul"}
    /\ life = [s \in Servers |-> 0]
    /\ ttl = [s \in Servers |-> 0]
    /\ changed = FALSE
    /\ up = [s \in Servers |-> "new"]
    /\ ticking = [s \in Servers |-> FALSE]
    /\ due = [s \in Servers |-> Interval]
    /\ missed = [s \in Servers |-> 0]
    /\ fails = 0

Fails == fails < MaxFails /\ fails' = fails + 1

\* Start, from Server.Registry, which ignores its error: a Put of the base
\* path that fails leaves the server without refreshes.
Start(s) ==
    /\ up[s] = "new"
    /\ up' = [up EXCEPT ![s] = "started"]
    /\ \/ /\ ticking' = [ticking EXCEPT ![s] = TRUE]
          /\ UNCHANGED fails
       \/ Fails /\ UNCHANGED ticking
    /\ UNCHANGED <<store, changed, due, missed>>

\* A fault: the first entry lives for one interval.
RegisterShort(s) ==
    /\ up[s] = "started"
    /\ \/ /\ Put(s, Interval)
          /\ up' = [up EXCEPT ![s] = "listed"]
          /\ UNCHANGED fails
       \/ /\ Fails
          /\ up' = [up EXCEPT ![s] = "unlisted"]
          /\ UNCHANGED <<store, changed>>
    /\ UNCHANGED <<ticking, due, missed>>

\* Register, from RegisterWithMeta, which ignores its error: a service that
\* one of its three Puts fails for is not added to Services.
Register(s) ==
    /\ up[s] = "started"
    /\ \/ /\ Put(s, 2 * Interval)
          /\ up' = [up EXCEPT ![s] = "listed"]
          /\ UNCHANGED fails
       \/ /\ Fails
          /\ up' = [up EXCEPT ![s] = "unlisted"]
          /\ UNCHANGED <<store, changed>>
    /\ UNCHANGED <<ticking, due, missed>>

\* A fault: an entry that is not found is not created again.
RefreshOnlyExisting(s) ==
    /\ ticking[s] /\ due[s] <= 0
    /\ due' = [due EXCEPT ![s] = @ + Interval]
    /\ \/ /\ up[s] = "listed" /\ s \in Entries
          /\ Put(s, 3 * Interval)
          /\ missed' = [missed EXCEPT ![s] = 0]
          /\ UNCHANGED fails
       \/ /\ up[s] = "listed" /\ s \in Entries
          /\ Fails
          /\ missed' = [missed EXCEPT ![s] = @ + 1]
          /\ UNCHANGED <<store, changed>>
       \/ /\ ~(up[s] = "listed" /\ s \in Entries)
          /\ UNCHANGED <<store, changed, missed, fails>>
    /\ UNCHANGED <<up, ticking>>

\* A tick of Start's goroutine: the entry of a service in Services is put
\* again, whether Get finds it or not; the Put may fail.
Refresh(s) ==
    /\ ticking[s] /\ due[s] <= 0
    /\ due' = [due EXCEPT ![s] = @ + Interval]
    /\ \/ /\ up[s] = "listed"
          /\ Put(s, 3 * Interval)
          /\ missed' = [missed EXCEPT ![s] = 0]
          /\ UNCHANGED fails
       \/ /\ up[s] = "listed"
          /\ Fails
          /\ missed' = [missed EXCEPT ![s] = @ + 1]
          /\ UNCHANGED <<store, changed>>
       \/ /\ up[s] # "listed"
          /\ UNCHANGED <<store, changed, missed, fails>>
    /\ UNCHANGED <<up, ticking>>

\* The process of the server ends, and its ticker with it.
Crash(s) ==
    /\ up[s] # "crashed"
    /\ up' = [up EXCEPT ![s] = "crashed"]
    /\ ticking' = [ticking EXCEPT ![s] = FALSE]
    /\ due' = [due EXCEPT ![s] = Interval]
    /\ missed' = [missed EXCEPT ![s] = 0]
    /\ UNCHANGED <<store, changed, fails>>

\* Time passes, unless a refresh would be too late.
Tick ==
    /\ \A s \in Servers : ticking[s] => due[s] > -MaxLate
    /\ Age
    /\ due' = [s \in Servers |-> IF ticking[s] THEN due[s] - 1 ELSE due[s]]
    /\ UNCHANGED <<up, ticking, missed, fails>>

RegistryNext ==
    \/ \E s \in Servers : Start(s) \/ Register(s) \/ Refresh(s) \/ Crash(s)
    \/ Tick

\* The refreshes in a row that may fail while an entry lives.
Spare(s) == IF life[s] = 3 * Interval THEN 1 ELSE 0

\* A server in Services whose refreshes arrive is never without its entry.
\* One refresh may fail if the entry has got the TTL of a refresh, which in
\* consul takes an entry that had expired.
PublishedWhileRefreshed ==
    \A s \in Servers :
        up[s] = "listed" /\ ticking[s] /\ missed[s] <= Spare(s)
            => s \in Entries
=============================================================================
