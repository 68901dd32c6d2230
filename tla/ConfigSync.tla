----------------------------- MODULE ConfigSync -----------------------------
(* The distribution of the configuration: ConfigSyncService of the         *)
(* controller and the gRPC client of one agent.  Three processes work at   *)
(* once: the agent's watch loop (which runs Start before that), the        *)
(* controller's WatchConfig that serves its stream, and the agent's        *)
(* heartbeat loop, whose calls are answered by Heartbeat and GetConfig.    *)
(* Two of them hand configurations to the agent's handler.                 *)
EXTENDS Datastore, Sequences

CONSTANTS
    MaxFaults,  \* bound: failed calls, broken streams and calls of Stop
    MaxSent     \* bound: configurations on their way on the stream

ASSUME SentAssumption == MaxSent \in Nat

VARIABLES
    driver,           \* "etcd" or "mysql"
    phase,            \* of the client: "stopped", "starting", "running", "stopping"
    connected,
    currentRevision,  \* what the agent reports
    applied,          \* what the handler was last given
    main,             \* the goroutine of Start, then the watch loop
    beat,             \* the heartbeat loop, and the call it makes
    stream,           \* WatchConfig in the controller
    watching,         \* the datastore's watch of that stream is in place
    events,           \* its events not yet taken from the channel
    sent,             \* configurations on the stream
    faults

clientVars == <<phase, connected, currentRevision, applied>>
streamVars == <<stream, watching, events, sent>>
syncVars == <<driver, clientVars, main, beat, streamVars, faults>>

-----------------------------------------------------------------------------
(* DataStore.GetConfig.                                                    *)

NoConfig == [vips |-> None, backends |-> None, revision |-> 0]

\* The backends of the VIPs that were listed; others belong to none.
Grouped(listed) ==
    [b \in Backends |->
        IF backends[b] # None /\ listed[backends[b].vip] # None
        THEN backends[b] ELSE None]

Reads == {"list", "revision", "backends"}

MutantGetConfig(p) ==
    CASE p.pc = "list" -> [p EXCEPT !.pc = "revision", !.config = [NoConfig EXCEPT !.vips = vips]]
      [] p.pc = "revision" -> [p EXCEPT !.pc = "backends", !.config.revision = revision]
      [] p.pc = "backends" ->
           [p EXCEPT !.pc = "read", !.config.backends = Grouped(p.config.vips)]

\* A goroutine p that runs GetConfig takes its next step.  MySQL reads in
\* one transaction; etcd lists the VIPs, gets the revision and lists the
\* backends, one request each.
GetConfig(p) ==
    IF driver = "mysql"
    THEN [p EXCEPT !.pc = "read",
                   !.config = [vips |-> vips, backends |-> Grouped(vips), revision |-> revision]]
    ELSE CASE p.pc = "list" -> [p EXCEPT !.pc = "revision", !.config = [NoConfig EXCEPT !.vips = vips]]
           [] p.pc = "revision" -> [p EXCEPT !.pc = "backends", !.config.revision = revision]
           [] p.pc = "backends" ->
                [p EXCEPT !.pc = "read", !.config.backends = Grouped(p.config.vips)]

\* validateConfigIdentity in convertConfigToProto, and validateVIPConfigIdentity
\* in the agent.
ValidIdentity(config) ==
    /\ \A v, w \in VIPs :
           (v # w /\ config.vips[v] # None /\ config.vips[w] # None)
               => config.vips[v].tuple # config.vips[w].tuple
    /\ \A b, c \in Backends :
           (b # c /\ config.backends[b] # None) => config.backends[b] # config.backends[c]

MutantValidDataPlane(config) == TRUE

\* validateVIPConfigDataPlane in convertProtoToConfig.
ValidDataPlane(config) ==
    \A b \in Backends : config.backends[b] # None =>
        <<config.vips[config.backends[b].vip].encap, config.backends[b].ip>> \in Compatible

Delivered(config) == ValidIdentity(config) /\ ValidDataPlane(config)

-----------------------------------------------------------------------------
(* The agent's client.                                                     *)

Idle == [pc |-> "off", config |-> NoConfig]
NoCall == [pc |-> "off", config |-> NoConfig, asked |-> 0]
NoStream == [pc |-> "none", config |-> NoConfig, asked |-> 0, first |-> FALSE]

\* GetConfig's transactions commit to a store with these contents.
Contents == [vips |-> vips, backends |-> backends]
Content(config) == [vips |-> config.vips, backends |-> config.backends]

SyncInit ==
    /\ driver \in {"etcd", "mysql"}
    /\ phase = "stopped"
    /\ connected = FALSE
    /\ currentRevision = 0
    /\ applied = Content(NoConfig)
    /\ main = Idle
    /\ beat = NoCall
    /\ stream = NoStream
    /\ watching = FALSE
    /\ events = 0
    /\ sent = <<>>
    /\ faults = 0

Calling == {"heartbeat", "compare", "read"} \cup Reads
InHandler == {"handle", "set"}

\* Something outside the client interferes.
Fault ==
    /\ faults < MaxFaults
    /\ faults' = faults + 1

StartClient ==
    /\ phase = "stopped"
    /\ phase' = "starting"
    /\ main' = [Idle EXCEPT !.pc = "connect"]
    /\ beat' = NoCall
    /\ UNCHANGED <<driver, connected, currentRevision, applied, streamVars, faults>>

\* The connection is closed: the stream and the heartbeat's call end with it.
Disconnect ==
    /\ connected' = FALSE
    /\ stream' = NoStream
    /\ watching' = FALSE
    /\ events' = 0
    /\ sent' = <<>>
    /\ beat' = IF beat.pc \in Calling THEN [NoCall EXCEPT !.pc = "idle"] ELSE beat

\* An error ends the goroutine's attempt: Start cleans up and returns it, the
\* watch loop reconnects.
MainFails ==
    /\ Disconnect
    /\ main' = [Idle EXCEPT !.pc = IF phase = "starting" THEN "off" ELSE "connect"]
    /\ phase' = IF phase = "starting" THEN "stopped" ELSE phase
    /\ UNCHANGED <<driver, currentRevision, applied>>

Connect ==
    /\ main.pc = "connect"
    /\ phase # "stopping"
    /\ connected' = TRUE
    /\ main' = [Idle EXCEPT !.pc = IF phase = "starting" THEN "list" ELSE "watch"]
    /\ UNCHANGED <<driver, phase, currentRevision, applied, beat, streamVars, faults>>

\* connect gives up during Start after MaxRetries; the watch loop tries again.
ConnectFails ==
    /\ main.pc = "connect"
    /\ phase = "starting"
    /\ Fault
    /\ MainFails

\* RegisterAgent in the controller, which returns the configuration.
Register ==
    /\ main.pc \in Reads
    /\ main' = GetConfig(main)
    /\ UNCHANGED <<driver, clientVars, beat, streamVars, faults>>

Registered ==
    /\ main.pc = "read"
    /\ IF Delivered(main.config)
       THEN main' = [main EXCEPT !.pc = "handle"] /\ UNCHANGED <<driver, clientVars, beat, streamVars>>
       ELSE MainFails
    /\ UNCHANGED faults

RegisterFails ==
    /\ main.pc \in Reads
    /\ Fault
    /\ MainFails

\* watch: a new stream is asked for everything beyond the agent's revision.
Watch ==
    /\ main.pc = "watch"
    /\ phase = "running"
    /\ main' = [Idle EXCEPT !.pc = "recv"]
    /\ stream' = [NoStream EXCEPT !.pc = "open", !.asked = currentRevision, !.first = TRUE]
    /\ sent' = <<>>
    /\ UNCHANGED <<driver, clientVars, beat, watching, events, faults>>

Recv ==
    /\ main.pc = "recv"
    /\ phase = "running"
    /\ sent # <<>>
    /\ IF Delivered(Head(sent))
       THEN /\ main' = [pc |-> "handle", config |-> Head(sent)]
            /\ sent' = Tail(sent)
            /\ UNCHANGED <<driver, clientVars, beat, stream, watching, events>>
       ELSE MainFails
    /\ UNCHANGED faults

RecvFails ==
    /\ main.pc = "recv"
    /\ phase = "running"
    /\ sent = <<>>
    /\ stream.pc = "none"
    /\ MainFails
    /\ UNCHANGED faults

MutantHandled(config) == applied' \in {applied, Content(config)}

\* applyConfig, first half: the handler.
Handled(config) == applied' = Content(config)

\* applyConfig, second half, once the handler has succeeded.
SetCurrentRevision(config) == currentRevision' = config.revision

HandleMain ==
    /\ main.pc = "handle"
    /\ Handled(main.config)
    /\ main' = [main EXCEPT !.pc = "set"]
    /\ UNCHANGED <<driver, phase, connected, currentRevision, beat, streamVars, faults>>

HandleMainFails ==
    /\ main.pc = "handle"
    /\ Fault
    /\ MainFails

\* The revision is set; after a registration the two loops start.
SetMain ==
    /\ main.pc = "set"
    /\ SetCurrentRevision(main.config)
    /\ main' = [Idle EXCEPT !.pc = IF beat.pc = "off" THEN "watch" ELSE "recv"]
    /\ beat' = IF beat.pc = "off" THEN [NoCall EXCEPT !.pc = "idle"] ELSE beat
    /\ phase' = IF phase = "starting" THEN "running" ELSE phase
    /\ UNCHANGED <<driver, connected, applied, streamVars, faults>>

-----------------------------------------------------------------------------
(* The heartbeat loop, with Heartbeat and GetConfig in the controller.     *)

BeatStep(next) ==
    /\ beat' = next
    /\ UNCHANGED <<driver, clientVars, main, streamVars, faults>>

BeatIdle == [NoCall EXCEPT !.pc = "idle"]

SendHeartbeat ==
    /\ beat.pc = "idle"
    /\ phase = "running"
    /\ connected
    /\ BeatStep([NoCall EXCEPT !.pc = "heartbeat", !.asked = currentRevision])

MutantResyncRequired(asked) == asked > revision

\* Heartbeat compares revisions; the client then fetches, with the revision
\* that it has by now.
ResyncRequired(asked) == asked # revision

Heartbeat ==
    /\ beat.pc = "heartbeat"
    /\ BeatStep(IF ResyncRequired(beat.asked)
                THEN [NoCall EXCEPT !.pc = "compare", !.asked = currentRevision]
                ELSE BeatIdle)

Unchanged(asked, now) == asked > 0 /\ asked = now

CompareRevision ==
    /\ beat.pc = "compare"
    /\ BeatStep(IF Unchanged(beat.asked, revision) THEN BeatIdle ELSE [beat EXCEPT !.pc = "list"])

FetchConfig ==
    /\ beat.pc \in Reads
    /\ BeatStep(GetConfig(beat))

Fetched ==
    /\ beat.pc = "read"
    /\ BeatStep(IF Unchanged(beat.asked, beat.config.revision) \/ ~Delivered(beat.config)
                THEN BeatIdle ELSE [beat EXCEPT !.pc = "handle"])

\* The call fails or times out, or the handler refuses the configuration.
BeatFails ==
    /\ beat.pc \in Calling \cup {"handle"}
    /\ Fault
    /\ beat' = BeatIdle
    /\ UNCHANGED <<driver, clientVars, main, streamVars>>

HandleBeat ==
    /\ beat.pc = "handle"
    /\ Handled(beat.config)
    /\ beat' = [beat EXCEPT !.pc = "set"]
    /\ UNCHANGED <<driver, phase, connected, currentRevision, main, streamVars, faults>>

SetBeat ==
    /\ beat.pc = "set"
    /\ SetCurrentRevision(beat.config)
    /\ beat' = BeatIdle
    /\ UNCHANGED <<driver, phase, connected, applied, main, streamVars, faults>>

-----------------------------------------------------------------------------
(* WatchConfig in the controller.                                          *)

\* The datastore's watch is asked for first.  MySQL's starts at the change log
\* as it is now; etcd's is set up by a goroutine that Watch leaves behind.
OpenWatch ==
    /\ stream.pc = "open"
    /\ stream' = [stream EXCEPT !.pc = "list"]
    /\ watching' = (driver = "mysql")
    /\ events' = 0
    /\ UNCHANGED <<driver, clientVars, main, beat, sent, faults>>

WatchInPlace ==
    /\ stream.pc \notin {"none", "open"}
    /\ ~watching
    /\ watching' = TRUE
    /\ UNCHANGED <<driver, clientVars, main, beat, stream, events, sent, faults>>

ReadConfig ==
    /\ stream.pc \in Reads
    /\ stream' = GetConfig(stream)
    /\ UNCHANGED <<driver, clientVars, main, beat, watching, events, sent, faults>>

\* A later update is skipped when it cannot be read, the events it answers
\* being taken already.
ReadConfigFails ==
    /\ stream.pc \in Reads
    /\ ~stream.first
    /\ Fault
    /\ stream' = [NoStream EXCEPT !.pc = "wait"]
    /\ UNCHANGED <<driver, clientVars, main, beat, watching, events, sent>>

\* The first configuration is sent if the agent has another revision, every
\* later one in any case.  When the first one cannot be converted, WatchConfig
\* returns, and the watch ends with the stream.
Sends == ~stream.first \/ stream.config.revision # stream.asked

SendConfig ==
    /\ stream.pc = "read"
    /\ Len(sent) < MaxSent
    /\ stream' = IF stream.first /\ Sends /\ ~ValidIdentity(stream.config)
                 THEN NoStream ELSE [NoStream EXCEPT !.pc = "wait"]
    /\ sent' = IF Sends /\ ValidIdentity(stream.config) THEN Append(sent, stream.config) ELSE sent
    /\ IF stream'.pc = "none" THEN watching' = FALSE /\ events' = 0
       ELSE UNCHANGED <<watching, events>>
    /\ UNCHANGED <<driver, clientVars, main, beat, faults>>

\* An event is taken, with those that follow within the coalescing window.
TakeEvents ==
    /\ stream.pc = "wait"
    /\ events > 0
    /\ stream' = [stream EXCEPT !.pc = "list"]
    /\ events' \in 0 .. events - 1
    /\ UNCHANGED <<driver, clientVars, main, beat, watching, sent, faults>>

\* The transport fails, the datastore's watch reports an error or the first
\* configuration cannot be read: what was sent may be lost with the stream.
StreamEnds ==
    /\ stream.pc # "none"
    /\ Fault
    /\ stream' = NoStream
    /\ watching' = FALSE
    /\ events' = 0
    /\ sent' \in {sent, <<>>}
    /\ UNCHANGED <<driver, clientVars, main, beat>>

\* A write reaches the watch: one change of the VIPs or the backends, or one
\* of each, which etcd reports on two channels.
Notify ==
    /\ events' \in IF watching
                   THEN {events + n : n \in IF driver = "etcd" THEN 1 .. 2 ELSE {1}}
                   ELSE {0}
    /\ UNCHANGED <<driver, clientVars, main, beat, stream, watching, sent, faults>>

-----------------------------------------------------------------------------
(* Stop, which cancels the context and waits for both loops.               *)

StopClient ==
    /\ phase \in {"starting", "running"}
    /\ Fault
    /\ phase' = "stopping"
    /\ UNCHANGED <<driver, connected, currentRevision, applied, main, beat, streamVars>>

MainExits ==
    /\ phase = "stopping"
    /\ main.pc \notin InHandler \cup {"done"}
    /\ main' = [Idle EXCEPT !.pc = "done"]
    /\ Disconnect
    /\ UNCHANGED <<driver, phase, currentRevision, applied, faults>>

BeatExits ==
    /\ phase = "stopping"
    /\ beat.pc \notin InHandler \cup {"off"}
    /\ BeatStep(NoCall)

LoopsEnded == main.pc = "done" /\ beat.pc = "off"

StopReturns ==
    /\ phase = "stopping"
    /\ LoopsEnded
    /\ phase' = "stopped"
    /\ connected' = FALSE
    /\ UNCHANGED <<driver, currentRevision, applied, main, beat, streamVars, faults>>

-----------------------------------------------------------------------------
\* What the goroutines do when nothing fails.
MainNext ==
    \/ Connect \/ Register \/ Registered \/ Watch \/ Recv \/ RecvFails
    \/ HandleMain \/ SetMain \/ MainExits \/ StopReturns
BeatNext ==
    \/ SendHeartbeat \/ Heartbeat \/ CompareRevision \/ FetchConfig \/ Fetched
    \/ HandleBeat \/ SetBeat \/ BeatExits
StreamNext == OpenWatch \/ ReadConfig \/ SendConfig \/ TakeEvents
Faults ==
    \/ ConnectFails \/ RegisterFails \/ HandleMainFails \/ BeatFails
    \/ ReadConfigFails \/ StreamEnds

SyncNext == MainNext \/ BeatNext \/ StreamNext \/ WatchInPlace \/ Faults \/ StartClient \/ StopClient
=============================================================================
