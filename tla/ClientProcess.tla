--------------------------- MODULE ClientProcess ---------------------------
(***************************************************************************)
(* The Linux client process: an attempt of "aurorac tun" or "aurorac      *)
(* proxy" sets up a session and what it serves, runs its components until  *)
(* one stops or the process is told to, and gives everything back.  A lost  *)
(* carrier starts another attempt.                                         *)
(*                                                                         *)
(* The tunnel changes the host's routes with the ip command, one change at  *)
(* a time, and undoes what it changed in reverse.  Its device is written to *)
(* by two goroutines: the one that reads the device and the one that        *)
(* handles the relay's frames, whose AfterFunc closes the device when the   *)
(* carrier's context ends while a frame block is handled.                   *)
(*                                                                         *)
(* Assumed of the host: a command that fails changed nothing, a command on  *)
(* an interface that is gone fails, the kernel drops the addresses and      *)
(* routes of a device that is closed and the routes of a link that is down, *)
(* and a device write may block until the device is closed.                 *)
(***************************************************************************)
EXTENDS Integers, Sequences, FiniteSets, SequencesExt

CONSTANTS
    Settings,       \* [mode, relays, foreign, metrics]
    MaxAttempts     \* bound: attempts of one process

VARIABLES
    setting,
    pc,             \* where the attempt is
    attempt,        \* number of the attempt
    cancelled,      \* the process was told to stop
    changes,        \* the host's routes, addresses and link state
    todo,           \* changes Configure has still to make
    cleanup,        \* linuxTUNNetworkState.cleanup
    metric,         \* of the tunnel's default routes
    held,           \* what is open: provisioned, session, device, listeners
    serve,          \* the goroutine that reads the device
    carrier,        \* the goroutine that runs the packet duplex
    listening,      \* proxy listeners still serving
    pump,           \* the context of the duplex's pumps has ended
    closer,         \* an AfterFunc is about to close the runtime
    writer,         \* who holds writeMu
    terminal,       \* the first component to stop, and why
    refused         \* history: changes whose removal failed

vars == <<setting, pc, attempt, cancelled, changes, todo, cleanup, metric, held,
          serve, carrier, listening, pump, closer, writer, terminal, refused>>
network == <<changes, todo, cleanup, metric, refused>>
components == <<serve, carrier, listening, pump, closer, writer, terminal>>

Tun == setting.mode = "tun"
Hosts == ToSet(setting.relays)
Defaults == {"default4", "default6"}
Tunnel == {"link", "address4", "address6"} \cup Defaults
Listeners == {"http", "socks"}

\* Loopback relays have no bypass, and DiscoverRelayRoutes lists each once.
Init ==
    /\ setting \in Settings
    /\ pc = "start" /\ attempt = 1 /\ cancelled = FALSE
    /\ changes = setting.foreign
    /\ todo = <<>> /\ cleanup = <<>> /\ metric = 0
    /\ held = {}
    /\ serve = "off" /\ carrier = "off" /\ listening = {}
    /\ pump = "live" /\ closer = FALSE /\ writer = "none" /\ terminal = "none"
    /\ refused = {}
-----------------------------------------------------------------------------
(* Setting up.  A step that fails gives back what the attempt holds.       *)

\* errors.Join(err, device.Close(), established.Close(), provisioned.Close()),
\* or the deferred closes of the proxy.
Abandon ==
    /\ held' = {}
    /\ pc' = "returned"
    /\ changes' = IF "device" \in held THEN changes \ Tunnel ELSE changes
    /\ UNCHANGED <<setting, attempt, cancelled, todo, cleanup, metric, refused, components>>

Setup(from, to, opens) ==
    /\ pc = from
    /\ \/ /\ held' = held \cup opens
          /\ pc' = to
          /\ UNCHANGED <<setting, attempt, cancelled, network, components>>
       \/ Abandon

DiscoverRelayRoutes == Tun /\ Setup("start", "begin", {})
SkipRoutes == ~Tun /\ Setup("start", "begin", {})
BeginProvisionedSession == Setup("begin", "exchange", {"provisioned"})
exchangeIssuerWork == Setup("exchange", "complete", {})
Complete == Setup("complete", IF Tun THEN "open" ELSE "listen", {"session"})
openLinuxClientTUN == Setup("open", "configure", {"device"})
Listen(l) == \* the second listener is opened after the first
    /\ l = "socks" => "http" \in held
    /\ l \notin held
    /\ Setup("listen", IF l = "socks" THEN "start_components" ELSE "listen", {l})

\* One less than the least of the host's default routes.  A metric of zero
\* cannot be preceded.
tunnelDefaultMetric(ms) ==
    IF ms = {} THEN 1 ELSE (CHOOSE m \in ms : \A n \in ms : m <= n) - 1

\* Mutant: the defaults go in before the bypasses.
DefaultsFirst == <<"link", "address4", "address6", "default4", "default6">> \o setting.relays

Planned == setting.relays \o <<"link", "address4", "address6", "default4", "default6">>

\* Configure checks the routing policy and the default routes before it
\* changes anything.
ConfigureChecks ==
    /\ pc = "configure"
    /\ \/ /\ 0 \notin setting.metrics
          /\ metric' = tunnelDefaultMetric(setting.metrics)
          /\ todo' = Planned /\ cleanup' = <<>>
          /\ pc' = "apply"
          /\ UNCHANGED <<setting, attempt, cancelled, changes, held, components, refused>>
       \/ Abandon

\* linuxTUNNetworkState.add: the command fails if what it adds is there.
add ==
    /\ pc = "apply" /\ todo # <<>>
    /\ \/ /\ Head(todo) \notin changes
          /\ changes' = changes \cup {Head(todo)}
          /\ cleanup' = Append(cleanup, Head(todo))
          /\ todo' = Tail(todo) /\ UNCHANGED pc
       \/ /\ pc' = "undo"                    \* fail: Close, then give up
          /\ UNCHANGED <<changes, cleanup, todo>>
    /\ UNCHANGED <<setting, attempt, cancelled, metric, held, components, refused>>

\* NewPacketAdapter and NewPacketTUNRuntime may refuse their options.
Configured ==
    /\ pc = "apply" /\ todo = <<>>
    /\ pc' \in {"start_components", "undo"}
    /\ UNCHANGED <<setting, attempt, cancelled, network, held, components>>

\* Closing a link drops its routes.
Without(c) == changes \ ({c} \cup IF c = "link" THEN Defaults ELSE {})

\* linuxTUNNetworkState.Close: last change first, past failures.
RemoveLast ==
    LET c == Last(cleanup)
    IN /\ cleanup # <<>>
       /\ cleanup' = Front(cleanup)
       /\ \/ /\ c \in changes
             /\ c \in Tunnel => "device" \in held
             /\ changes' = Without(c) /\ UNCHANGED refused
          \/ /\ refused' = refused \cup {c}
             /\ UNCHANGED changes
       /\ UNCHANGED <<todo, metric>>

Undo ==
    /\ pc = "undo" /\ RemoveLast
    /\ UNCHANGED <<setting, pc, attempt, cancelled, held, components>>

Undone == pc = "undo" /\ cleanup = <<>> /\ Abandon
-----------------------------------------------------------------------------
(* The components.                                                         *)

StartComponents ==
    /\ pc = "start_components"
    /\ IF Tun /\ cancelled
       THEN pc' = "close_session" /\ UNCHANGED components
       ELSE /\ pc' = "running"
            /\ serve' = IF Tun THEN "reading" ELSE "off"
            /\ listening' = IF Tun THEN {} ELSE Listeners
            /\ carrier' = "idle" /\ pump' = "live"
            /\ UNCHANGED <<closer, writer, terminal>>
    /\ UNCHANGED <<setting, attempt, cancelled, network, held>>

Ends(name) == terminal' = IF terminal = "none" THEN name ELSE terminal

\* PacketTUNRuntime.Close: the device goes, and with it the tunnel's changes.
CloseRuntime ==
    /\ held' = held \ {"device"}
    /\ changes' = IF "device" \in held THEN changes \ Tunnel ELSE changes

\* A packet is read and handled; what it answers is written.
ServeReads ==
    /\ serve = "reading" /\ "device" \in held
    /\ serve' = "waiting"
    /\ UNCHANGED <<setting, pc, attempt, cancelled, network, held, carrier, listening,
                   pump, closer, writer, terminal>>

\* The device is closed, or a packet ends the session (Ingress fails).
ServeEnds ==
    /\ serve \in {"reading", "waiting"}
    /\ serve' = "ended"
    /\ Ends("device")
    /\ UNCHANGED <<setting, pc, attempt, cancelled, network, held, carrier, listening,
                   pump, closer, writer>>

\* writePackets: under writeMu, unless the runtime is closed.
ServeWrites ==
    /\ serve = "waiting" /\ writer = "none" /\ "device" \in held
    /\ serve' = "writing" /\ writer' = "serve"
    /\ UNCHANGED <<setting, pc, attempt, cancelled, network, held, carrier, listening,
                   pump, closer, terminal>>

ServeWritten ==
    /\ serve = "writing" /\ "device" \in held
    /\ serve' = "reading" /\ writer' = "none"
    /\ UNCHANGED <<setting, pc, attempt, cancelled, network, held, carrier, listening,
                   pump, closer, terminal>>

ServeWriteFails ==
    /\ serve = "writing"
    /\ serve' = "ended" /\ writer' = "none"
    /\ Ends("device")
    /\ UNCHANGED <<setting, pc, attempt, cancelled, network, held, carrier, listening,
                   pump, closer>>

\* HandleFrameBlock, called by the duplex's read pump.
HandleFrameBlock ==
    /\ carrier = "idle" /\ pump = "live" /\ "session" \in held
    /\ Tun /\ "device" \in held
    /\ carrier' = "handling"
    /\ UNCHANGED <<setting, pc, attempt, cancelled, network, held, serve, listening,
                   pump, closer, writer, terminal>>

CarrierWrites ==
    /\ carrier = "handling" /\ pump = "live" /\ writer = "none" /\ "device" \in held
    /\ carrier' = "writing" /\ writer' = "carrier"
    /\ UNCHANGED <<setting, pc, attempt, cancelled, network, held, serve, listening,
                   pump, closer, terminal>>

CarrierWritten ==
    /\ carrier = "writing"
    /\ "device" \in held
    /\ carrier' = "handling" /\ writer' = "none"
    /\ UNCHANGED <<setting, pc, attempt, cancelled, network, held, serve, listening,
                   pump, closer, terminal>>

\* All packets written: AfterFunc is unregistered.
Handled ==
    /\ carrier = "handling" /\ pump = "live"
    /\ carrier' = "idle"
    /\ UNCHANGED <<setting, pc, attempt, cancelled, network, held, serve, listening,
                   pump, closer, writer, terminal>>

\* A pump fails (a carrier read or write error, a bad record), or the session
\* was closed: RunPacketDuplex ends the pumps' context.
PumpEnds ==
    /\ carrier \in {"idle", "handling", "writing"} /\ pump = "live"
    /\ pump' \in {"lost", "broken"}
    /\ closer' = (carrier # "idle")
    /\ UNCHANGED <<setting, pc, attempt, cancelled, network, held, serve, carrier,
                   listening, writer, terminal>>

\* The AfterFunc of HandleFrameBlock.
HandlerCloses ==
    /\ closer
    /\ closer' = FALSE
    /\ CloseRuntime
    /\ UNCHANGED <<setting, pc, attempt, cancelled, todo, cleanup, metric, refused, serve,
                   carrier, listening, pump, writer, terminal>>

\* The read pump returns, and the duplex with it: the context has ended, or the
\* runtime is closed.
CarrierEnds ==
    /\ \/ carrier \in {"idle", "handling"} /\ pump # "live"
       \/ carrier = "handling" /\ "device" \notin held
    /\ carrier' = "ended"
    /\ pump' = IF pump = "live" THEN "broken" ELSE pump
    /\ Ends(pump')
    /\ UNCHANGED <<setting, pc, attempt, cancelled, network, held, serve, listening,
                   closer, writer>>

\* A device write fails; one that is blocked does once the device is closed.
CarrierWriteFails ==
    /\ carrier = "writing"
    /\ writer' = "none"
    /\ carrier' = "ended"
    /\ pump' = IF pump = "live" THEN "broken" ELSE pump
    /\ Ends(pump')
    /\ UNCHANGED <<setting, pc, attempt, cancelled, network, held, serve, listening, closer>>

\* A listener of the proxy fails, or was closed.
ListenerEnds(l) ==
    /\ l \in listening
    /\ listening' = listening \ {l}
    /\ Ends("listener")
    /\ UNCHANGED <<setting, pc, attempt, cancelled, network, held, serve, carrier, pump,
                   closer, writer>>
-----------------------------------------------------------------------------
(* Running and stopping.                                                   *)

Cancel ==
    /\ ~cancelled /\ pc # "exit"
    /\ cancelled' = TRUE
    /\ UNCHANGED <<setting, pc, attempt, network, held, components>>

\* The first result, or the signal, ends the attempt.
StopRunning ==
    /\ pc = "running"
    /\ terminal # "none" \/ cancelled
    /\ IF Tun
       THEN pc' = "close_session" /\ UNCHANGED held
       ELSE pc' = "collect" /\ held' = {"provisioned"}
    /\ UNCHANGED <<setting, attempt, cancelled, network, components>>

\* closeTUNComponents: the session, then the routes, then the device.
CloseSession ==
    /\ pc = "close_session"
    /\ held' = held \ {"session"}
    /\ pc' = "unroute"
    /\ UNCHANGED <<setting, attempt, cancelled, network, components>>

Unroute ==
    /\ pc = "unroute" /\ RemoveLast
    /\ UNCHANGED <<setting, pc, attempt, cancelled, held, components>>

CloseDevice ==
    /\ pc = "unroute" /\ cleanup = <<>>
    /\ CloseRuntime
    /\ pc' = "collect"
    /\ UNCHANGED <<setting, attempt, cancelled, todo, cleanup, metric, refused, components>>

\* Mutant: the components' results are not awaited.
CollectNothing ==
    /\ pc = "collect"
    /\ pc' = "returned" /\ held' = held \ {"provisioned"}
    /\ UNCHANGED <<setting, attempt, cancelled, network, components>>
\* for collected < 2 { <-results }, then provisioned.Close().
Collect ==
    /\ pc = "collect"
    /\ serve \in {"off", "ended"} /\ carrier \in {"off", "ended"} /\ listening = {}
    /\ pc' = "returned" /\ held' = held \ {"provisioned"}
    /\ UNCHANGED <<setting, attempt, cancelled, network, components>>

\* isRecoverableCarrierFailure: only a carrier that was lost is tried again.
Retry ==
    /\ pc = "returned"
    /\ ~cancelled /\ terminal = "lost" /\ attempt < MaxAttempts
    /\ pc' = "start" /\ attempt' = attempt + 1
    /\ serve' = "off" /\ carrier' = "off" /\ pump' = "live" /\ terminal' = "none"
    /\ closer' = FALSE            \* the runtime it would close is closed
    /\ UNCHANGED <<setting, cancelled, network, held, listening, writer>>

Exit ==
    /\ pc = "returned"
    /\ cancelled \/ terminal # "lost" \/ attempt = MaxAttempts
    /\ pc' = "exit"
    /\ UNCHANGED <<setting, attempt, cancelled, network, held, components>>

Steps ==
    \/ DiscoverRelayRoutes \/ SkipRoutes \/ BeginProvisionedSession \/ exchangeIssuerWork
    \/ Complete \/ openLinuxClientTUN \/ \E l \in Listeners : Listen(l)
    \/ ConfigureChecks \/ add \/ Configured \/ Undo \/ Undone
    \/ StartComponents \/ StopRunning \/ CloseSession \/ Unroute \/ CloseDevice
    \/ Collect \/ Retry \/ Exit

Components ==
    \/ ServeReads \/ ServeEnds \/ ServeWrites \/ ServeWritten \/ ServeWriteFails
    \/ HandleFrameBlock \/ CarrierWrites \/ CarrierWritten \/ Handled \/ PumpEnds
    \/ HandlerCloses \/ CarrierEnds \/ CarrierWriteFails
    \/ \E l \in Listeners : ListenerEnds(l)

Next == Steps \/ Components \/ Cancel
Spec == Init /\ [][Next]_vars
-----------------------------------------------------------------------------
(* Properties.                                                             *)

\* While a tunnel default route is in place every relay address is routed around
\* the tunnel, the device is open, and the default precedes the host's own; a
\* change whose removal failed is not the client's any more (Configure, Close).
Routed ==
    \A d \in Defaults \cap (changes \ refused) :
        /\ Hosts \subseteq changes
        /\ "device" \in held
        /\ \A m \in setting.metrics : metric < m

\* An attempt that has returned left nothing open or running, and of its routes
\* at most those whose removal failed (runTUNWithProvisioning, runTUNComponents,
\* runProxyComponents).
Released ==
    pc \in {"returned", "exit"} =>
        /\ held = {}
        /\ serve \in {"off", "ended"} /\ carrier \in {"off", "ended"} /\ listening = {}
        /\ changes \subseteq setting.foreign \cup (refused \cap Hosts)

\* "The device stays alive while owned routes are removed, so cleanup never
\* depends on a tunnel interface that has already disappeared"
\* (cmd/aurorac/main.go:770-773).
DeviceOutlivesRoutes ==
    pc = "unroute" /\ cleanup # <<>> => "device" \in held
=============================================================================
