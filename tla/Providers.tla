------------------------------ MODULE Providers ------------------------------
(***************************************************************************)
(* provider.Manager and provider.Registry: which faces are loaded, which   *)
(* names are registered as faces of relay stations, and the metadata that  *)
(* is kept under the face's and the vendor's name.  Every operation is one *)
(* critical section of the manager or of the registry.                     *)
(***************************************************************************)
EXTENDS Naturals, FiniteSets

CONSTANTS FacesOf,     \* vendor -> the names it is registered under
          Stations     \* the vendors that are relay stations

Vendors == DOMAIN FacesOf
Faces == UNION {FacesOf[v] : v \in Vendors}
Names == Vendors \cup Faces
VendorOf == [f \in Faces |-> CHOOSE v \in Vendors : f \in FacesOf[v]]
RelayFaces == UNION {FacesOf[v] : v \in Stations}
Configured == Faces \ RelayFaces

\* The registry maps a name to one vendor, and a name that is a vendor's belongs to it:
\* built-in vendors register their own name, a station its own or its own with a suffix.
ASSUME ProvidersAssumption ==
    /\ Stations \subseteq Vendors
    /\ \A v \in Vendors : FacesOf[v] # {}
    /\ \A u, v \in Vendors : u # v => FacesOf[u] \cap FacesOf[v] = {}
    /\ \A u, v \in Vendors : u \in FacesOf[v] => u = v

VARIABLES loaded,      \* the faces the manager holds
          registered,  \* the names the registry knows as relay faces
          endpoints,   \* the names with an endpoint
          billing      \* the names with a billing source

providers == <<loaded, registered, endpoints, billing>>

\* An unregistered name is its own vendor.
VendorFor(f) == IF f \in Configured \cup registered THEN VendorOf[f] ELSE f

IsRelay(f) == f \in registered

\* LoadFromConfig at startup: the face's own name only; relays follow.
ProvidersInit(stations) ==
    LET relays == UNION {FacesOf[s] : s \in stations} IN
    /\ loaded = Configured \cup relays
    /\ registered = relays
    /\ endpoints = Configured \cup relays \cup stations
    /\ billing = endpoints

RegisterRelay(f) == /\ registered' = registered \cup {f}
                    /\ UNCHANGED <<loaded, endpoints, billing>>

UnregisterRelay(f) == /\ registered' = registered \ {f}
                      /\ UNCHANGED <<loaded, endpoints, billing>>

AddProvider(f) == /\ loaded' = loaded \cup {f}
                  /\ endpoints' = endpoints \cup {f, VendorFor(f)}
                  /\ billing' = billing \cup {f, VendorFor(f)}
                  /\ UNCHANGED registered

\* The vendor's metadata stays while another of its faces is loaded.
RemoveProvider(f) ==
    LET last == \A g \in loaded \ {f} : VendorFor(g) # VendorFor(f)
        gone == IF f \notin loaded THEN {} ELSE IF last THEN {f, VendorFor(f)} ELSE {f}
    IN  /\ loaded' = loaded \ {f}
        /\ endpoints' = endpoints \ gone
        /\ billing' = billing \ gone
        /\ UNCHANGED registered

\* Slip: the relay stations, which the configuration does not name, are left out.
ReloadPricingConfigured == /\ billing' = Configured
                           /\ UNCHANGED <<loaded, registered, endpoints>>

ReloadPricing ==
    LET dynamic == UNION {{f, VendorFor(f)} : f \in loaded \ Configured} IN
    /\ billing' = Configured \cup dynamic
    /\ endpoints' = endpoints \cup dynamic
    /\ UNCHANGED <<loaded, registered>>

EndpointFor(f) == f \in endpoints \/ VendorFor(f) \in endpoints
=============================================================================
