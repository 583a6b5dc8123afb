-------------------------------- MODULE Pools --------------------------------
(***************************************************************************)
(* The key rows, the pools built from them and the places that point to a  *)
(* pool: the maps of the server, the router and the quota worker, and each *)
(* provider instance.  A pool is a value that names who built it, so two   *)
(* builds differ; the state of its keys belongs to KeyPool.                *)
(***************************************************************************)
EXTENDS Catalog

CONSTANTS Keys,
          KeyOwner,  \* [Keys -> Vendors]: provider_name of the row
          NoPool

ASSUME PoolsAssumption == KeyOwner \in [Keys -> Vendors]

VARIABLES keyRows,      \* provider_api_keys
          serverPools,  \* s.pools
          routerPools,  \* router.pools
          quotaPools,   \* the map behind quotacheck's PoolsRef
          facePool,     \* the pool of each provider instance
          hooked        \* the pools with a quota callback

pools == <<keyRows, serverPools, routerPools, quotaPools, facePool, hooked>>

KeysOf(v) == {k \in keyRows : KeyOwner[k] = v}

Pool(v, ks, who) == [vendor |-> v, keys |-> ks, by |-> who]

\* buildOnePool: a failed read leaves the vendor with an empty pool.
BuildOnePool(v, who, fails) == Pool(v, IF fails THEN {} ELSE KeysOf(v), who)

\* server.New: one pool for each vendor, under every loaded name and the name of a
\* station; injectPools gives it to the instances.
PoolsInit(rows) ==
    LET map == [n \in Names |->
                   CASE n \in loaded -> Pool(VendorOf[n], {k \in rows : KeyOwner[k] = VendorOf[n]}, "boot")
                     [] n \in Stations /\ FacesOf[n] \cap loaded # {} ->
                            Pool(n, {k \in rows : KeyOwner[k] = n}, "boot")
                     [] OTHER -> NoPool]
    IN  /\ keyRows = rows
        /\ serverPools = map /\ routerPools = map /\ quotaPools = map
        /\ facePool = [f \in Faces |-> map[f]]
        /\ hooked = {map[n] : n \in Names} \ {NoPool}

Maps == UNCHANGED <<serverPools, routerPools, quotaPools>>

CreateRows(ks) == /\ keyRows' = keyRows \cup ks
                  /\ UNCHANGED <<facePool, hooked>> /\ Maps

DeleteRows(ks) == /\ keyRows' = keyRows \ ks
                  /\ UNCHANGED <<facePool, hooked>> /\ Maps

\* The instance is asked for by name; a name that is not loaded has none.
SetPool(f, p) == /\ facePool' = [facePool EXCEPT ![f] = IF f \in loaded THEN p ELSE @]
                 /\ hooked' = hooked \cup {p}
                 /\ UNCHANGED keyRows /\ Maps

\* A relay face is a new instance each time it is loaded.
NewInstance(f) == /\ facePool' = [facePool EXCEPT ![f] = NoPool]
                  /\ UNCHANGED <<keyRows, hooked>> /\ Maps

SwapServer(map) == /\ serverPools' = map
                   /\ UNCHANGED <<keyRows, routerPools, quotaPools, facePool, hooked>>
SwapRouter(map) == /\ routerPools' = map
                   /\ UNCHANGED <<keyRows, serverPools, quotaPools, facePool, hooked>>
SwapQuota(map) == /\ quotaPools' = map
                  /\ UNCHANGED <<keyRows, serverPools, routerPools, facePool, hooked>>
=============================================================================
