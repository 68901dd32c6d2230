---------------------------- MODULE ControlPlane ----------------------------
(* The controller with its REST API, datastore and configuration service,  *)
(* and one agent: what a request changes must reach the agent.             *)
EXTENDS RestApi, ConfigSync

CONSTANT InitialStores  \* what the store may hold when the controller starts

\* A backend is stored with its VIP: under a foreign key in MySQL, and in etcd by a
\* transaction that compares the VIP.
ASSUME StoresAssumption == InitialStores \subseteq {s \in Stored : Parented(s)}

VARIABLE history  \* what the store held at each revision

systemVars == <<vars, handlers, syncVars, history>>

SystemInit ==
    /\ \E s \in InitialStores : vips = s.vips /\ backends = s.backends
    /\ revision = 1
    /\ RestInit
    /\ SyncInit
    /\ history = <<Contents>>

\* Another controller works on the same datastore.
OtherController ==
    /\ Succeeds(Operation)
    /\ UNCHANGED handlers

\* A write is seen by the watch that is in place.
RestStep ==
    /\ RestNext \/ OtherController
    /\ IF revision' # revision
       THEN Notify /\ history' = Append(history, Contents')
       ELSE UNCHANGED <<syncVars, history>>

SyncStep == SyncNext /\ UNCHANGED <<vars, handlers, history>>

SystemNext == RestStep \/ SyncStep

System == SystemInit /\ [][SystemNext]_systemVars

(* The goroutines of the client and of the controller run as long as they  *)
(* can; calls fail, streams break and requests arrive finitely often.      *)
SystemSpec ==
    /\ System
    /\ WF_systemVars(MainNext /\ UNCHANGED <<vars, handlers, history>>)
    /\ WF_systemVars(BeatNext /\ UNCHANGED <<vars, handlers, history>>)
    /\ WF_systemVars(StreamNext /\ UNCHANGED <<vars, handlers, history>>)
    /\ WF_systemVars(WatchInPlace /\ UNCHANGED <<vars, handlers, history>>)

-----------------------------------------------------------------------------
(* Properties.                                                             *)

Configs == {main.config, beat.config, stream.config} \cup {sent[i] : i \in DOMAIN sent}

(* Types of the composed state. No configuration carries a revision the    *)
(* store has not reached, the agent never runs ahead of the store, and     *)
(* only an open stream has a watch (WatchConfig).                          *)
SystemTypeOK ==
    /\ TypeOK
    /\ currentRevision \in 0 .. revision
    /\ \A c \in Configs : c.revision \in 0 .. revision
    /\ phase \in {"stopped", "starting", "running", "stopping"}
    /\ main.pc \in {"off", "connect", "watch", "recv", "read", "done"} \cup Reads \cup InHandler
    /\ beat.pc \in {"off", "idle"} \cup Calling \cup InHandler
    /\ stream.pc \in {"none", "open", "read", "wait"} \cup Reads
    /\ stream.pc = "none" => ~watching
    /\ events \in 0 .. 2 * MaxRevision
    /\ Len(sent) <= MaxSent

\* A configuration that is complete and not what its revision stood for.
Torn(config) ==
    /\ config.vips # None /\ config.backends # None
    /\ Content(config) # history[config.revision]

(* With the MySQL driver a configuration is exactly what the store held at *)
(* the revision it carries, whichever writes run while it is read, sent    *)
(* and applied.                                                            *)
ExactSnapshot == driver = "mysql" => \A c \in Configs : ~Torn(c)

(* What the agent's handler is given can be programmed: every backend has  *)
(* a VIP, of its address family, although etcd's driver reads VIPs and     *)
(* backends at different moments.                                          *)
AppliedIsUsable ==
    applied.vips # None =>
        \A b \in Backends : applied.backends[b] # None =>
            LET v == applied.backends[b].vip
            IN  /\ applied.vips[v] # None
                /\ <<applied.vips[v].encap, applied.backends[b].ip>> \in Compatible

(* A running agent ends up reporting the store's revision, although updates *)
(* are skipped, streams break and two loops set the revision in any order. *)
RevisionCatchesUp == <>[](phase = "running" => currentRevision = revision)

Overlap == main.pc \in InHandler /\ beat.pc \in InHandler

UpToDate == phase = "running" => applied = Contents

(* A running agent ends up with the store's configuration, unless the two  *)
(* loops were in applyConfig at once or a configuration was torn.          *)
ConfigCatchesUp ==
    [](~Overlap /\ \A c \in Configs : ~Torn(c)) => <>[]UpToDate
=============================================================================
