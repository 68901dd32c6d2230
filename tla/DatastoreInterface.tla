------------------------- MODULE DatastoreInterface -------------------------
(* What the callers of datastore.DataStore and the two drivers share: what *)
(* is stored, and the operations that change it.                           *)
EXTENDS Integers

CONSTANTS
    VIPs,        \* VIP ids
    Backends,    \* backend ids
    Tuples,      \* (address, port, protocol) a VIP listens on
    VIPSpec,     \* what is stored of a VIP: its tuple and its encapsulation type
    IPs,         \* backend addresses
    Compatible,  \* the <<encap, ip>> of which the encap takes the ip's family
    None

ASSUME VIPSpecAssumption == \A s \in VIPSpec : s.tuple \in Tuples /\ s # None

BackendSpec == [vip : VIPs, ip : IPs]

Operations ==
    [name : {"CreateVIP", "UpdateVIP"}, vip : VIPs, spec : VIPSpec]
        \cup [name : {"DeleteVIP"}, vip : VIPs]
        \cup [name : {"AddBackend"}, backend : Backends, vip : VIPs, ip : IPs]
        \cup [name : {"UpdateBackend"}, backend : Backends, ip : IPs]
        \cup [name : {"DeleteBackend"}, backend : Backends]
        \cup [name : {"IncrementRevision"}]

\* The operations of datastore.Transaction.
TxOperations ==
    {o \in Operations : o.name \in {"CreateVIP", "UpdateVIP", "DeleteVIP", "AddBackend"}}
=============================================================================
