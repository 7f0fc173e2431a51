------------------------------ MODULE Selector ------------------------------
(***************************************************************************)
(* The selectors that NewSelector makes, with goroutines that call Select  *)
(* at the same time: selectClient does so without a lock, and the fields   *)
(* of a selector have none.  A step is one access to a shared field.       *)
(*                                                                         *)
(* A server is its place in the list, which the range over a map puts into *)
(* any order: a list is the sequence of the servers' weights.  Nothing in  *)
(* the repository calls UpdateServer; it is taken to be called when no     *)
(* Select is under way.                                                    *)
(***************************************************************************)
EXTENDS Integers, Sequences, FiniteSetsExt

CONSTANTS
    Callers,        \* the goroutines that call Select
    MaxServers,     \* bound on the length of a list
    Metas,          \* what metadata says of a weight: an integer, or NoWeight
    Rtts,           \* what Ping returns, in milliseconds
    MaxSelects,     \* bound on the Selects of one list
    MaxRaced,       \* the same, when some of them overlap
    MaxUpdates,     \* bound on the UpdateServers
    NoWeight        \* metadata without a weight, or with one that is no number

\* Atoi takes any integer for a weight, and a ping time is a quotient of
\* durations.
ASSUME SelectorAssumption ==
    /\ MaxServers \in Nat
    /\ Metas \ {NoWeight} \subseteq Int
    /\ Rtts \subseteq Int

VARIABLES
    mode,           \* core.SelectMode
    servers,        \* the field servers: the Weight and EffectiveWeight of
                    \* each, which are equal from the start and stay so
    currentWeight,  \* the CurrentWeight of each
    i,              \* roundRobinSelector.i
    updates,        \* history: the UpdateServers
    pc,             \* where each caller is
    k, best, total, \* its locals in nextWeighted
    tmp,            \* the value it has loaded
    started,        \* history: the Selects of this list that have begun
    count,          \* history: how often each server was selected
    raced,          \* history: two Selects were under way at once
    chosen          \* history: the server each key was given last, and the
                    \* length of the list that it was in; 0: none yet

list    == <<mode, servers, updates>>
locals  == <<k, best, total, tmp>>
history == <<started, count, raced, chosen>>
vars == <<list, currentWeight, i, pc, locals, history>>

\* The weight that createWeighted takes from the metadata of a server.
WeightOf(meta) == IF meta = NoWeight THEN 1 ELSE meta

\* The weight that createICMPWeighted takes from the time of its ping.
CalculateWeight(rtt) ==
    CASE rtt >= 0 /\ rtt <= 10 -> 191
      [] rtt > 10 /\ rtt <= 200 -> 201 - rtt
      [] rtt > 200 /\ rtt < 1000 -> 1
      [] OTHER -> 0

Weights(m) == CASE m = "Weighted" -> {WeightOf(x) : x \in Metas}
                [] m = "Ping" -> {CalculateWeight(t) : t \in Rtts}
                [] OTHER -> {1}

Lists(m) == UNION {[1 .. l -> Weights(m)] : l \in 0 .. MaxServers}

Zeros(ss) == [s \in DOMAIN ss |-> 0]

\* Hash jumps from bucket to bucket, beginning with bucket 0 and always
\* forward: the factor of b + 1 is at least 1.  Where it goes depends on the
\* key alone, so that a key is the set of the buckets that it visits.
Keys == {v \in SUBSET (0 .. MaxServers - 1) : 0 \in v}

NotChosen == [key \in Keys |-> [server |-> 0, of |-> 0]]

Init ==
    /\ mode \in {"Random", "RoundRobin", "Weighted", "Hash", "Ping", "Closest"}
    /\ servers \in Lists(mode)
    /\ currentWeight = Zeros(servers)
    /\ i = 0
    /\ updates = 0
    /\ pc = [c \in Callers |-> "idle"]
    /\ k = [c \in Callers |-> 1]
    /\ best = [c \in Callers |-> 1]
    /\ total = [c \in Callers |-> 0]
    /\ tmp = [c \in Callers |-> 0]
    /\ started = 0
    /\ count = Zeros(servers)
    /\ raced = FALSE
    /\ chosen = NotChosen

Idle == \A c \in Callers : pc[c] = "idle"

\* The list is replaced; i goes on from where it was.
UpdateServer ==
    /\ Idle
    /\ updates < MaxUpdates
    /\ servers' \in Lists(mode)
    /\ currentWeight' = Zeros(servers')
    /\ updates' = updates + 1
    /\ started' = 0
    /\ count' = Zeros(servers')
    /\ raced' = FALSE
    /\ UNCHANGED <<mode, i, pc, locals, chosen>>

\* Select begins with the list it is going to use.
Begin(c) ==
    /\ pc[c] = "idle"
    /\ raced' = (raced \/ ~Idle)
    /\ started < IF raced' THEN MaxRaced ELSE MaxSelects
    /\ started' = started + 1

Selected(s) == count' = [count EXCEPT ![s] = @ + 1]

\* The end of a Select, with its locals.
Return(c, s) ==
    /\ Selected(s)
    /\ pc' = [pc EXCEPT ![c] = "idle"]
    /\ k' = [k EXCEPT ![c] = 1]
    /\ best' = [best EXCEPT ![c] = 1]
    /\ total' = [total EXCEPT ![c] = 0]
    /\ tmp' = [tmp EXCEPT ![c] = 0]

\* An empty list has no server to return.
SelectNone(c) ==
    /\ Begin(c)
    /\ servers = <<>>
    /\ UNCHANGED <<list, currentWeight, i, pc, locals, count, chosen>>

\* fastrand chooses.  NewSelector makes a random selector for core.Closest.
SelectRandom(c) ==
    /\ Begin(c)
    /\ mode \in {"Random", "Closest"}
    /\ \E s \in DOMAIN servers : Selected(s)
    /\ UNCHANGED <<list, currentWeight, i, pc, locals, chosen>>

-----------------------------------------------------------------------------
(* The jump hash. *)

\* A fault: the remainder of the key.
HashModulo(key, buckets) == SumSet(key) % buckets

\* The loop of Hash ends with the last bucket before numBuckets.
Hash(key, buckets) == Max({b \in key : b < buckets})

\* JumpConsistentHash, of the names and the arguments.
SelectHash(c) ==
    /\ Begin(c)
    /\ mode = "Hash" /\ servers # <<>>
    /\ \E key \in Keys :
          LET s == Hash(key, Len(servers)) + 1
          IN /\ Selected(s)
             /\ chosen' = [chosen EXCEPT ![key] =
                              [server |-> s, of |-> Len(servers)]]
    /\ UNCHANGED <<list, currentWeight, i, pc, locals>>

-----------------------------------------------------------------------------
(* Round robin. *)

\* A fault: the index is not brought back into the list.
LoadUnbounded(c) ==
    /\ Begin(c)
    /\ mode = "RoundRobin" /\ servers # <<>>
    /\ tmp' = [tmp EXCEPT ![c] = i]
    /\ pc' = [pc EXCEPT ![c] = "store"]
    /\ UNCHANGED <<list, currentWeight, i, k, best, total, count, chosen>>

LoadIndex(c) ==
    /\ Begin(c)
    /\ mode = "RoundRobin" /\ servers # <<>>
    /\ tmp' = [tmp EXCEPT ![c] = i % Len(servers)]
    /\ pc' = [pc EXCEPT ![c] = "store"]
    /\ UNCHANGED <<list, currentWeight, i, k, best, total, count, chosen>>

\* A fault: the next Select gets the same server.
StoreSame(c) ==
    /\ pc[c] = "store"
    /\ i' = tmp[c]
    /\ Return(c, tmp[c] + 1)
    /\ UNCHANGED <<list, currentWeight, started, raced, chosen>>

StoreIndex(c) ==
    /\ pc[c] = "store"
    /\ i' = tmp[c] + 1
    /\ Return(c, tmp[c] + 1)
    /\ UNCHANGED <<list, currentWeight, started, raced, chosen>>

-----------------------------------------------------------------------------
(* nextWeighted, of the weighted and the ping selector. *)

NextWeighted(c) ==
    /\ Begin(c)
    /\ mode \in {"Weighted", "Ping"} /\ servers # <<>>
    /\ pc' = [pc EXCEPT ![c] = "load"]
    /\ UNCHANGED <<list, currentWeight, i, locals, count, chosen>>

\* w.CurrentWeight += w.EffectiveWeight is a load and a store.
LoadWeight(c) ==
    /\ pc[c] = "load"
    /\ tmp' = [tmp EXCEPT ![c] = currentWeight[k[c]]]
    /\ pc' = [pc EXCEPT ![c] = "add"]
    /\ UNCHANGED <<list, currentWeight, i, k, best, total, history>>

AddWeight(c) ==
    /\ pc[c] = "add"
    /\ currentWeight' = [currentWeight EXCEPT ![k[c]] = tmp[c] + servers[k[c]]]
    /\ total' = [total EXCEPT ![c] = @ + servers[k[c]]]
    /\ pc' = [pc EXCEPT ![c] = "compare"]
    /\ UNCHANGED <<list, i, k, best, tmp, history>>

\* The weights are compared as they are by then; a tie is for the earlier.
Better(c) == IF currentWeight[k[c]] > currentWeight[best[c]] THEN k[c] ELSE best[c]

Compare(c) ==
    /\ pc[c] = "compare"
    /\ best' = [best EXCEPT ![c] = Better(c)]
    /\ IF k[c] < Len(servers)
         THEN /\ k' = [k EXCEPT ![c] = @ + 1]
              /\ pc' = [pc EXCEPT ![c] = "load"]
         ELSE /\ pc' = [pc EXCEPT ![c] = "settle"]
              /\ UNCHANGED k
    /\ UNCHANGED <<list, currentWeight, i, total, tmp, history>>

\* best.CurrentWeight -= total is a load and a store too.
LoadBest(c) ==
    /\ pc[c] = "settle"
    /\ tmp' = [tmp EXCEPT ![c] = currentWeight[best[c]]]
    /\ pc' = [pc EXCEPT ![c] = "subtract"]
    /\ UNCHANGED <<list, currentWeight, i, k, best, total, history>>

\* A fault: the server chosen pays its own weight only.
SubtractOwn(c) ==
    /\ pc[c] = "subtract"
    /\ currentWeight' = [currentWeight EXCEPT ![best[c]] = tmp[c] - servers[best[c]]]
    /\ Return(c, best[c])
    /\ UNCHANGED <<list, i, started, raced, chosen>>

SubtractTotal(c) ==
    /\ pc[c] = "subtract"
    /\ currentWeight' = [currentWeight EXCEPT ![best[c]] = tmp[c] - total[c]]
    /\ Return(c, best[c])
    /\ UNCHANGED <<list, i, started, raced, chosen>>

Next ==
    \/ UpdateServer
    \/ \E c \in Callers :
          \/ SelectNone(c) \/ SelectRandom(c) \/ SelectHash(c)
          \/ LoadIndex(c) \/ StoreIndex(c)
          \/ NextWeighted(c) \/ LoadWeight(c) \/ AddWeight(c) \/ Compare(c)
          \/ LoadBest(c) \/ SubtractTotal(c)

Spec == Init /\ [][Next]_vars

-----------------------------------------------------------------------------
\* The index that a round robin Select is about to use is in the list, also
\* after another list was set and although other Selects move i meanwhile.
IndexInList ==
    \A c \in Callers : pc[c] = "store" => tmp[c] + 1 \in DOMAIN servers

\* Selects that do not overlap give every server its turn: none is ahead of
\* another by more than one, wherever i stood when the list was set.
RoundRobinTurns ==
    mode = "RoundRobin" /\ ~raced =>
        \A s, t \in DOMAIN servers : count[s] <= count[t] + 1

\* The hash is consistent: when calls with the same names and arguments go to
\* another place of the list than before, either that place has been added or
\* the old one is gone.  As long as the list is the same they do not move.
KeyMovesIfItMust ==
    [][\A key \in Keys :
          LET old == chosen[key]
              new == chosen'[key]
          IN old.server \notin {0, new.server} =>
                new.server > old.of \/ old.server > new.of]_vars

\* The sums of the first elements of a list of integers.
Sums(f) ==
    LET sum[n \in 0 .. Len(f)] == IF n = 0 THEN 0 ELSE sum[n - 1] + f[n]
    IN sum

Sum(f) == Sums(f)[Len(f)]

\* Selects that do not overlap give each server the share of its weight: it
\* never gets a whole Select more than its share, and gets exactly its share
\* whenever the weights have gone round.  A server of weight 0, which a ping
\* does not reach, is not selected as long as another one has a weight.
WeightedShare ==
    /\ mode \in {"Weighted", "Ping"} /\ ~raced /\ Idle
    /\ Sum(servers) > 0
    /\ \A s \in DOMAIN servers : servers[s] >= 0
    => \A s \in DOMAIN servers :
          LET ahead == count[s] * Sum(servers) - started * servers[s]
          IN /\ ahead < Sum(servers)
             /\ started % Sum(servers) = 0 => ahead = 0
=============================================================================
