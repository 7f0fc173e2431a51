------------------------------- MODULE Naming -------------------------------
(***************************************************************************)
(* How a client comes to know its servers: their registries, the store and *)
(* the discovery of a client, together.                                    *)
(***************************************************************************)
EXTENDS Registry, Discovery

namingVars == <<store, changed, registryVars, discoveryVars>>

NamingInit == RegistryInit /\ DiscoveryInit

NamingNext ==
    \/ RegistryNext /\ UNCHANGED discoveryVars
    \/ DiscoveryNext /\ UNCHANGED registryVars

NamingSpec == NamingInit /\ [][NamingNext]_namingVars

\* Tickers tick, and each goroutine that can go on does.  Nobody has to
\* start, register, crash or close, and the store need not fail.
FairNamingSpec ==
    /\ NamingSpec
    /\ WF_namingVars(Tick /\ UNCHANGED discoveryVars)
    /\ \A s \in Servers : WF_namingVars(Refresh(s) /\ UNCHANGED discoveryVars)
    /\ WF_namingVars(GetServices /\ UNCHANGED registryVars)
    /\ WF_namingVars(WatchService /\ UNCHANGED registryVars)
    /\ WF_namingVars(Apply /\ UNCHANGED registryVars)
    /\ WF_namingVars(WatchEnds /\ UNCHANGED registryVars)
    /\ WF_namingVars((WatchTree \/ List \/ Receive) /\ UNCHANGED registryVars)
    /\ WF_namingVars((\E x \in SUBSET Servers : Deliver(x) \/ Drop(x))
                     /\ UNCHANGED registryVars)

-----------------------------------------------------------------------------
\* The entry of a server that has crashed expires, and a discovery stops
\* naming it for good, although the watch may break and the client may not read.
CrashedIsForgotten ==
    \A s \in Servers : <>(up[s] = "crashed") => <>[](s \notin pairs)

\* A server that is published and refreshed comes to be, and stays, in the
\* servers of a client that watches: failed refreshes, broken watches, full
\* channels and updates that overtake each other only delay that.
ClientLearnsOfServer ==
    \A s \in Servers :
        <>[](up[s] = "listed" /\ ticking[s] /\ client = "watching")
            => <>[](s \in servers)

\* After Close the goroutine that reads the channel ends, and so does every
\* goroutine that had something to send to it.
NothingLeftAfterClose ==
    client = "closed" ~> (client = "over" /\ senders = EmptyBag)
=============================================================================
