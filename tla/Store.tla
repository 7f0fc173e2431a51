------------------------------- MODULE Store --------------------------------
(***************************************************************************)
(* The entries of one service in etcd or consul, as libkv presents them:   *)
(* an entry lives for a number of units of time, and a watch is told that  *)
(* something has changed.  In consul the life of an entry is that of a     *)
(* session, which a later Put renews as it is.                             *)
(***************************************************************************)
EXTENDS Integers, Bags, Sequences, FiniteSets

CONSTANTS
    Servers,        \* the addresses of the servers of the service
    Interval,       \* UpdateInterval, in units of time
    nothing

ASSUME IntervalAssumption == Interval \in Nat \ {0}

VARIABLES
    backend,        \* the kind of the store
    life,           \* the TTL that each entry lives by; 0: there is none
    ttl,            \* how long each entry has still to live; 0: there is none
    changed         \* WatchTree has not yet listed the latest change

store == <<backend, life, ttl>>

Entries == {s \in Servers : ttl[s] > 0}

\* libkv: etcd takes the TTL of every Put, and consul that of the first Put
\* since the entry was last missing.
Put(s, t) ==
    /\ life' = [life EXCEPT ![s] =
                   IF backend = "consul" /\ s \in Entries THEN @ ELSE t]
    /\ ttl' = [ttl EXCEPT ![s] = life'[s]]
    /\ changed' = TRUE
    /\ UNCHANGED backend

\* A unit of time passes, and entries expire.
Age ==
    /\ ttl' = [s \in Servers |-> IF ttl[s] > 0 THEN ttl[s] - 1 ELSE 0]
    /\ life' = [s \in Servers |-> IF ttl[s] > 1 THEN life[s] ELSE 0]
    /\ changed' = (changed \/ \E s \in Servers : ttl[s] = 1)
    /\ UNCHANGED backend
=============================================================================
