----------------------------- MODULE AuxRegistry ----------------------------
(***************************************************************************)
(* The sockets of the auxiliary listeners (internal/proxy/aux_listener.go) *)
(* and the process that owns them (cmd/server/main.go): one port per       *)
(* (machine, country, mode), bound strictly when the process starts and    *)
(* reconciled leniently, socket by socket, while it runs. Other processes  *)
(* of the host take and free ports at any moment.                          *)
(*                                                                         *)
(* What the listeners are reconciled to comes from ListenerSync, which     *)
(* composes these steps with the .env file and the configuration.          *)
(***************************************************************************)
EXTENDS FiniteSets

CONSTANTS
    Ports,
    OwnPorts,         \* PROXY_PORT and API_PORT
    Machines, Fleet,  \* machine ids a file may name; those of models.Fleet
    Countries,
    DefaultMachine,   \* ROUTING_DEFAULT_MACHINE, None when unset
    None

ASSUME AuxAssumption ==
    /\ OwnPorts \subseteq Ports
    /\ Fleet \subseteq Machines
    /\ None \notin Machines /\ None \notin Countries
    /\ DefaultMachine \in Fleet \cup {None}

VARIABLES
    process,  \* "down"; "booting", binding the listeners; "up", serving
    active,   \* r.active: the spec each bound port was bound for, or None
    held,     \* the ports other processes of the host listen on
    want,     \* Start's specs, Apply's want: the resolved spec per port
    delta     \* the AuxDelta of the last Apply

auxVars == <<process, active, held, want, delta>>

-----------------------------------------------------------------------------

Mode == {"sticky", "rotate"}

\* AuxListenerConfig, one row of AUX_LISTENERS or AUX_LISTENERS_SHEET.
Entry == [port : Ports, machine : Machines \cup {None}, country : Countries,
          mode : Mode]

\* What AuxListenerSpec.key compares. A record is never None.
Key == [machine : Fleet, country : Countries, mode : Mode]

NoSpecs == [p \in Ports |-> None]

NoDelta == [added |-> {}, removed |-> {}, rebound |-> {}, failed |-> {}]

EntryPorts(entries) == {e.port : e \in entries}

\* AuxRegistry.resolve: the machine defaults, and must be one of the fleet.
MachineOf(e) == IF e.machine = None THEN DefaultMachine ELSE e.machine

Resolves(e) == MachineOf(e) \in Fleet

Resolve(e) ==
    [machine |-> MachineOf(e), country |-> e.country, mode |-> e.mode]

\* The resolved specs of a list of entries, by port.
Resolved(entries) ==
    [p \in Ports |->
        IF \E e \in entries : e.port = p /\ Resolves(e)
        THEN Resolve(CHOOSE e \in entries : e.port = p /\ Resolves(e))
        ELSE None]

\* The ports net.Listen fails on: another process has them, or the proxy and
\* API servers, which start listening after the auxiliary listeners.
InUse(p) == p \in held \/ (process = "up" /\ p \in OwnPorts)

-----------------------------------------------------------------------------
(* AuxRegistry.Start and what follows it in run().                         *)

\* Start resolves every spec and refuses a port declared twice. The first
\* error ends the process, whatever was bound before it.
Start(managed, manual) ==
    LET entries == managed \cup manual
        declaredTwice ==
            \/ \E e, f \in entries : e # f /\ e.port = f.port
            \/ managed \cap manual # {}
    IN  IF (\E e \in entries : ~Resolves(e)) \/ declaredTwice
        THEN UNCHANGED <<process, want>>
        ELSE process' = "booting" /\ want' = Resolved(entries)

Unbound == {p \in Ports : want[p] # None /\ active[p] = None}

StartBind(p) ==
    /\ process = "booting" /\ p \in Unbound
    /\ ~InUse(p)
    /\ active' = [active EXCEPT ![p] = want[p]]
    /\ UNCHANGED <<process, held, want, delta>>

\* Every socket dies with the process, in Close or without it.
Die ==
    /\ process' = "down"
    /\ active' = NoSpecs
    /\ want' = NoSpecs
    /\ delta' = NoDelta
    /\ UNCHANGED held

\* A port that cannot be bound aborts the start.
StartAborts ==
    /\ process = "booting"
    /\ \E p \in Unbound : InUse(p)
    /\ Die

\* proxyServer.Start and apiServer.Start listen last, on OwnPorts.
OwnPortTaken == \E p \in OwnPorts : active[p] # None \/ p \in held

Serve ==
    /\ process = "booting" /\ Unbound = {}
    /\ ~OwnPortTaken
    /\ process' = "up"
    /\ UNCHANGED <<active, held, want, delta>>

\* A server that cannot listen reports it on errChan, and run returns.
ServeAborts ==
    /\ process = "booting" /\ Unbound = {}
    /\ OwnPortTaken
    /\ Die

-----------------------------------------------------------------------------
(* AuxRegistry.Apply, socket by socket.                                    *)

\* Resolve first: what does not resolve is reported and not wanted. The report
\* of a port declared twice is left out: the callers' lists have none
\* (ListenerSync!PortsDistinct).
ApplyResolve(entries) ==
    /\ want' = Resolved(entries)
    /\ delta' = [NoDelta EXCEPT
                    !.failed = {e.port : e \in {f \in entries : ~Resolves(f)}}]
    /\ UNCHANGED <<process, active, held>>

\* Slip: a listener whose routing changed is left as it is.
StaleByPort == {p \in Ports : active[p] # None /\ want[p] = None}

\* Slip: all listeners are closed, to be bound again.
StaleAll == {p \in Ports : active[p] # None}

\* What the reconciliation has to close first.
Stale == {p \in Ports : active[p] # None /\ active[p] # want[p]}

\* Close what is not wanted any more, and what is wanted differently.
ApplyClose(p) ==
    /\ p \in Stale
    /\ active' = [active EXCEPT ![p] = None]
    /\ delta' = IF want[p] # None
                THEN [delta EXCEPT !.rebound = @ \cup {p}]
                ELSE [delta EXCEPT !.removed = @ \cup {p}]
    /\ UNCHANGED <<process, held, want>>

Missing == Unbound \ delta.failed

\* Slip: a port that failed to come back stays among the rebound.
FailedAndRebound(p) == [delta EXCEPT !.failed = @ \cup {p}]

\* A rebound port that fails is not rebound.
Failed(p) == [delta EXCEPT !.failed = @ \cup {p}, !.rebound = @ \ {p}]

\* Then bind what is missing.
ApplyBind(p) ==
    /\ Stale = {} /\ p \in Missing
    /\ IF InUse(p)
       THEN delta' = Failed(p) /\ UNCHANGED active
       ELSE /\ active' = [active EXCEPT ![p] = want[p]]
            /\ delta' = IF p \in delta.rebound
                        THEN delta
                        ELSE [delta EXCEPT !.added = @ \cup {p}]
    /\ UNCHANGED <<process, held, want>>

Reconciled == Stale = {} /\ Missing = {}

-----------------------------------------------------------------------------

\* Other processes of the host.
OthersTake(p) ==
    /\ active[p] = None /\ ~InUse(p)
    /\ held' = held \cup {p}
    /\ UNCHANGED <<process, active, want, delta>>

OthersFree(p) ==
    /\ p \in held
    /\ held' = held \ {p}
    /\ UNCHANGED <<process, active, want, delta>>

AuxInit ==
    /\ process = "down"
    /\ active = NoSpecs
    /\ held = {}
    /\ want = NoSpecs
    /\ delta = NoDelta
=============================================================================
