-------------------------- MODULE BluetoothRouting --------------------------
(***************************************************************************)
(* Which adapter belongs to a device: the cache of routes, the look-ups    *)
(* that fill it on pool threads, and ResolveBluetoothRadio                 *)
(* (BluetoothRouting.hpp).  Entries of different devices do not interact,  *)
(* so the module has one device, whose audio interface is below the        *)
(* adapter Home.  Adapters come and go.  A route is an object of its own:  *)
(* the cache may drop it while a look-up fills it and a reader waits.      *)
(***************************************************************************)
EXTENDS AsyncWait, Naturals, Sequences, FiniteSets

CONSTANTS
    Adapters,    \* Bluetooth adapters of the PC
    Home,        \* the one the device is paired with
    None,
    MaxLookups,  \* bound: routes made
    MaxPlugs,    \* bound: adapters that vanish or appear
    Resolvers    \* callers of ResolveBluetoothRadio

VARIABLES
    present,   \* adapters that Windows lists
    plugs,     \* how often that changed
    routes,    \* the BluetoothRoute objects, in the order they were made
    entry,     \* cache->entries[device]: index of a route, 0 when there is none
    resolve    \* per caller: where ResolveBluetoothRadio is, and its outcome

routingVars == <<present, plugs, routes, entry, resolve>>

NewRoute == [at |-> "posted", ancestors |-> <<>>, adapter |-> None,
             instance |-> None, failed |-> FALSE]
NoResolve == [at |-> "idle", route |-> 0, result |-> None, stale |-> {}]

RouteWait(r) == <<r, "route">>
MainWait(r)  == <<r, "main">>

RoutingInit ==
    /\ present = Adapters /\ plugs = 0
    /\ routes = <<>> /\ entry = 0
    /\ resolve = [r \in Resolvers |-> NoResolve]

Done(i)  == routes[i].at = "done"
\* FAILED(route->error), or the adapter's devnode cannot be located any more.
Stale(i) ==
    Done(i) /\ (routes[i].failed
                \/ (routes[i].instance # None /\ routes[i].instance \notin present))

-----------------------------------------------------------------------------
(* The look-up *)

\* SelectBluetoothAdapterIndex.  `instances' gives each listed adapter its
\* instance id, None when it cannot be read; ancestors are nearest first.
SelectAdapter(ancestors, instances) ==
    LET matches(k) == {a \in DOMAIN instances : instances[a] = ancestors[k]}
        hits       == {k \in DOMAIN ancestors : matches(k) # {}}
        nearest    == CHOOSE k \in hits : \A j \in hits : k <= j
        candidates == IF hits = {} THEN DOMAIN instances ELSE matches(nearest)
    IN  IF Cardinality(candidates) = 1 THEN CHOOSE a \in candidates : TRUE ELSE None

\* PopulateBluetoothRoute on its pool thread: the ancestors of the interface.
\* Without its adapter the device has no devnode.
LookupBegins(i) ==
    /\ routes[i].at = "posted"
    /\ routes' = [routes EXCEPT ![i].at = "listing",
                     ![i].ancestors = IF Home \in present THEN <<Home>> ELSE <<>>]

\* FindAllAsync and the choice among its result; the id of an adapter may be
\* unreadable.
LookupChooses(i) ==
    /\ routes[i].at = "listing"
    /\ \E named \in SUBSET present :
           LET adapter == SelectAdapter(routes[i].ancestors,
                   [a \in present |-> IF a \in named THEN a ELSE None])
           IN  /\ adapter # None
               /\ routes' = [routes EXCEPT ![i].at = "opening", ![i].adapter = adapter,
                             ![i].instance = IF adapter \in named THEN adapter ELSE None]

\* FromIdAsync and GetRadioAsync succeed, or any step failed or timed out.
LookupEnds(i) ==
    /\ \/ /\ routes[i].at = "opening" /\ routes[i].adapter \in present
          /\ routes' = [routes EXCEPT ![i].at = "done", ![i].ancestors = <<>>]
       \/ /\ routes[i].at \in {"listing", "opening"}
          /\ routes' = [routes EXCEPT ![i] =
                 [NewRoute EXCEPT !.at = "done", !.failed = TRUE]]
    /\ waits' = [w \in DOMAIN waits |->
            IF \E r \in Resolvers : w = RouteWait(r) /\ resolve[r].route = i
            THEN OperationOver(waits[w]) ELSE waits[w]]

Lookup(i) ==
    /\ \/ (LookupBegins(i) \/ LookupChooses(i)) /\ UNCHANGED waits
       \/ LookupEnds(i)
    /\ UNCHANGED <<requested, present, plugs, entry, resolve>>

-----------------------------------------------------------------------------
(* The cache *)

\* PrewarmBluetoothRoute: `entry'' is the route it returns.
PrewarmBluetoothRoute ==
    IF entry # 0 THEN UNCHANGED <<routes, entry>>
    ELSE /\ Len(routes) < MaxLookups
         /\ routes' = Append(routes, NewRoute)
         /\ entry' = Len(routes) + 1

\* UpsertDeviceRow on the UI thread.
RowShown ==
    /\ entry = 0 /\ PrewarmBluetoothRoute
    /\ UNCHANGED <<waits, requested, present, plugs, resolve>>

\* InvalidateBluetoothRoute.  A route that nobody waits for is gone with its entry:
\* what its look-up still finds is seen by no one.
InvalidateBluetoothRoute(i, readers) ==
    /\ entry' = 0
    /\ routes' = IF i = 0 \/ \E r \in readers : resolve[r].route = i THEN routes
                 ELSE [routes EXCEPT ![i] = [NewRoute EXCEPT !.at = "done"]]

\* RemoveDeviceRow on the UI thread.
RowRemoved ==
    /\ entry # 0 /\ InvalidateBluetoothRoute(entry, Resolvers)
    /\ UNCHANGED <<waits, requested, present, plugs, resolve>>

-----------------------------------------------------------------------------
(* ResolveBluetoothRadio, on a pool thread *)

\* What a resolver must not use: routes that failed, or whose adapter is gone,
\* before it began (history).
Posted == [NoResolve EXCEPT !.at = "posted",
                            !.stale = {i \in DOMAIN routes : Stale(i)}]

ResolveFetches(r) ==
    /\ resolve[r].at \in {"posted", "again"}
    /\ PrewarmBluetoothRoute
    /\ resolve' = [resolve EXCEPT ![r].route = entry',
           ![r].at = IF resolve[r].at = "posted" THEN "fetched" ELSE "read"]
    /\ UNCHANGED waits

\* Mutant: a failed route is used again as long as its adapter is there.
ResolveChecksMut(r) ==
    /\ resolve[r].at = "fetched"
    /\ resolve' = [resolve EXCEPT ![r].at =
           IF Done(resolve[r].route) /\ ~routes[resolve[r].route].failed
                /\ Stale(resolve[r].route) THEN "stale" ELSE "read"]
    /\ UNCHANGED <<routes, entry, waits>>

ResolveChecks(r) ==
    /\ resolve[r].at = "fetched"
    /\ resolve' = [resolve EXCEPT ![r].at =
                       IF Stale(resolve[r].route) THEN "stale" ELSE "read"]
    /\ UNCHANGED <<routes, entry, waits>>

\* Whatever the cache has by now is dropped.
ResolveInvalidates(r) ==
    /\ resolve[r].at = "stale"
    /\ InvalidateBluetoothRoute(entry, Resolvers \ {r})
    /\ resolve' = [resolve EXCEPT ![r].at = "again", ![r].route = 0]
    /\ UNCHANGED waits

\* AwaitBounded(ReadBluetoothRoute(route)).
ResolveReads(r) ==
    /\ resolve[r].at = "read"
    /\ resolve' = [resolve EXCEPT ![r].at = "reading"]
    /\ waits' = [waits EXCEPT ![RouteWait(r)] =
                     Started(r, IF Done(resolve[r].route) THEN "over" ELSE "started")]
    /\ UNCHANGED <<routes, entry>>

\* It returns the radio of the route, or throws; its caller's wait is told.
ResolveReturns(r) ==
    /\ resolve[r].at = "reading" /\ HasOutcome(RouteWait(r))
    /\ LET route   == routes[resolve[r].route]
           outcome == waits[RouteWait(r)].at
       IN  resolve' = [resolve EXCEPT ![r].at = "over", ![r].result =
               IF outcome # "completed" THEN outcome
               ELSE IF route.failed THEN "failed" ELSE route.adapter]
    /\ waits' = [waits EXCEPT ![RouteWait(r)] = Idle,
                              ![MainWait(r)] = OperationOver(@)]
    /\ UNCHANGED <<routes, entry>>

ResolveStep(r) ==
    /\ \/ ResolveFetches(r) \/ ResolveChecks(r) \/ ResolveInvalidates(r)
       \/ ResolveReads(r) \/ ResolveReturns(r)
    /\ UNCHANGED <<requested, present, plugs>>

\* An adapter is removed, or is back; a route to it is good again then.
AdapterChanges(a) ==
    /\ plugs < MaxPlugs /\ plugs' = plugs + 1
    /\ present' = IF a \in present THEN present \ {a} ELSE present \cup {a}
    /\ resolve' = [r \in Resolvers |-> [resolve[r] EXCEPT !.stale =
                       {i \in @ : routes[i].failed \/ routes[i].instance # a}]]
    /\ UNCHANGED <<waits, requested, routes, entry>>

-----------------------------------------------------------------------------
\* A failed look-up and an adapter that is gone are not remembered: a caller never
\* reads a route that was of no use when it began (BluetoothRouting.hpp:166).
RoutesAreFresh ==
    \A r \in Resolvers :
        resolve[r].at \in {"read", "reading"} => resolve[r].route \notin resolve[r].stale

=============================================================================
