----------------------------- MODULE Discovery ------------------------------
(***************************************************************************)
(* EtcdDiscovery and ConsulDiscovery, with the watch of libkv under them   *)
(* and the client above them.  Every change is sent to the client's        *)
(* channel by a goroutine of its own, in any order.                        *)
(***************************************************************************)
EXTENDS Store

CONSTANTS
    ChanCap,        \* the capacity of the channel of WatchService (10)
    MaxSenders,     \* bound on the sending goroutines
    MaxBreaks       \* bound on the watches that break

VARIABLES
    client,         \* where the client is: Discovery and Close
    pairs,          \* d.pairs
    watch,          \* where d.watch is
    listed,         \* what WatchTree has listed and not handed over, or nothing
    breaks,         \* the watches that have broken
    senders,        \* the bag of what the goroutines have to send
    ch,             \* the channel
    servers         \* registryClient.servers

discoveryVars == <<client, pairs, watch, listed, breaks, senders, ch, servers>>

DiscoveryInit ==
    /\ client = "new"
    /\ pairs = {}
    /\ watch = "none"
    /\ listed = nothing
    /\ breaks = 0
    /\ senders = EmptyBag
    /\ ch = <<>>
    /\ servers = {}

-----------------------------------------------------------------------------
(* The client: Discovery, its goroutine watch, and Close. *)

\* NewDiscovery lists the services, or panics, and starts d.watch.
NewDiscovery ==
    /\ client = "new"
    /\ client' = "made"
    /\ pairs' = Entries
    /\ watch' = "rewatch"
    /\ UNCHANGED <<store, changed, listed, breaks, senders, ch, servers>>

GetServices ==
    /\ client = "made"
    /\ client' = "got"
    /\ servers' = pairs
    /\ UNCHANGED <<store, changed, pairs, watch, listed, breaks, senders, ch>>

WatchService ==
    /\ client = "got"
    /\ client' = "watching"
    /\ UNCHANGED <<store, changed, pairs, watch, listed, breaks, senders, ch,
                   servers>>

Apply ==
    /\ ch # <<>>
    /\ servers' = Head(ch)
    /\ ch' = Tail(ch)
    /\ UNCHANGED <<store, changed, client, pairs, watch, listed, breaks,
                   senders>>

\* Close: RemoveWatcher and close(ch).
CloseWatcher ==
    /\ client = "watching"
    /\ client' = "closed"
    /\ UNCHANGED <<store, changed, pairs, watch, listed, breaks, senders, ch,
                   servers>>

\* The range over the closed channel ends.
WatchEnds ==
    /\ client = "closed"
    /\ ch = <<>>
    /\ client' = "over"
    /\ UNCHANGED <<store, changed, pairs, watch, listed, breaks, senders, ch,
                   servers>>

-----------------------------------------------------------------------------
(* d.watch, and WatchTree. *)

\* A fault: a new watch is told of later changes only.
WatchTreeLater ==
    /\ watch = "rewatch"
    /\ watch' = "open"
    /\ changed' = FALSE
    /\ UNCHANGED <<store, client, pairs, listed, breaks, senders, ch, servers>>

\* WatchTree is called until it works; it begins with the current entries.
WatchTree ==
    /\ watch = "rewatch"
    /\ watch' = "open"
    /\ changed' = TRUE
    /\ UNCHANGED <<store, client, pairs, listed, breaks, senders, ch, servers>>

\* The goroutine of WatchTree lists the entries and offers them.
List ==
    /\ watch = "open"
    /\ changed
    /\ listed = nothing
    /\ listed' = Entries
    /\ changed' = FALSE
    /\ UNCHANGED <<store, client, pairs, watch, breaks, senders, ch, servers>>

\* A case of the select: the list becomes d.pairs, and a goroutine is
\* started to send it to the watcher.
Receive ==
    /\ listed # nothing
    /\ BagCardinality(senders) < MaxSenders
    /\ pairs' = listed
    /\ listed' = nothing
    /\ senders' = IF client = "watching" THEN senders (+) SetToBag({listed})
                                         ELSE senders
    /\ UNCHANGED <<store, changed, client, watch, breaks, ch, servers>>

\* The channel of WatchTree is closed, and d.watch watches again.
WatchBreaks ==
    /\ watch = "open"
    /\ listed = nothing
    /\ breaks < MaxBreaks
    /\ breaks' = breaks + 1
    /\ watch' = "rewatch"
    /\ UNCHANGED <<store, changed, client, pairs, listed, senders, ch,
                   servers>>

-----------------------------------------------------------------------------
(* A sending goroutine. *)

Deliver(x) ==
    /\ BagIn(x, senders)
    /\ client = "watching"
    /\ Len(ch) < ChanCap
    /\ ch' = Append(ch, x)
    /\ senders' = senders (-) SetToBag({x})
    /\ UNCHANGED <<store, changed, client, pairs, watch, listed, breaks,
                   servers>>

\* A fault: a sender is not stopped by a closed channel.
DropFull(x) ==
    /\ BagIn(x, senders)
    /\ Len(ch) = ChanCap /\ client = "watching"
    /\ senders' = senders (-) SetToBag({x})
    /\ UNCHANGED <<store, changed, client, pairs, watch, listed, breaks, ch,
                   servers>>

\* The channel is full for a minute, or it is closed: the panic is recovered.
Drop(x) ==
    /\ BagIn(x, senders)
    /\ Len(ch) = ChanCap \/ client # "watching"
    /\ senders' = senders (-) SetToBag({x})
    /\ UNCHANGED <<store, changed, client, pairs, watch, listed, breaks, ch,
                   servers>>

DiscoveryNext ==
    \/ NewDiscovery \/ GetServices \/ WatchService
    \/ Apply \/ CloseWatcher \/ WatchEnds
    \/ WatchTree \/ List \/ Receive \/ WatchBreaks
    \/ \E x \in SUBSET Servers : Deliver(x) \/ Drop(x)
=============================================================================
