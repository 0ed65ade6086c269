----------------------------- MODULE Lifecycle -----------------------------
(***************************************************************************)
(* The life of the proxy process (main.go): main prepares what the handlers    *)
(* share, starts the server in a goroutine, waits for a signal and shuts the    *)
(* server down with a timeout, while requests are accepted, answered or turned  *)
(* into WebSocket tunnels.  A handler may take for ever: its calls to the        *)
(* container and the server's writes have no timeout.                           *)
(***************************************************************************)
EXTENDS Naturals

CONSTANTS
    Requests,  \* requests that may be in progress at the same time
    Grace      \* ticks a shutdown waits for them, 30 s

ASSUME LifeConstants == Grace \in Nat

VARIABLES
    main,        \* the step main is at
    server,      \* the goroutine of the server
    authorizer,  \* whether identity.Configure was called
    collector,   \* whether the collector's goroutine was started
    signalled,   \* whether a signal to stop has arrived
    left,        \* ticks left of the shutdown
    expired,     \* whether the shutdown timed out
    request      \* request -> how far it and its connection got

vars == <<main, server, authorizer, collector, signalled, left, expired, request>>
process == <<main, server, authorizer, collector, signalled, left, expired>>

Steps == {"client", "configure", "service", "notify", "listen", "wait",
          "shutdown", "stopped", "exited"}

\* The server is shutting down once Shutdown was called, whether it listens by then or not.
ShuttingDown == main \in {"shutdown", "stopped", "exited"}

Open == {r \in Requests : request[r] = "open"}
Tunnels == {r \in Requests : request[r] = "tunnel"}

----------------------------------------------------------------------------
(* main.                                                                    *)
(*                                                                          *)
(* ForgetsToConfigure, ClosesAtOnce, KeepsListening, WaitsForEver and TicksOn    *)
(* are mutants: each stands in for the next definition that is none to see that  *)
(* a property notices.                                                         *)

\* The process ends, whatever is in progress.
Exit ==
    /\ main' = "exited"
    /\ server' = "closed"
    /\ request' = [r \in Requests |-> IF r \in Open THEN "cut"
                                      ELSE IF r \in Tunnels THEN "dropped" ELSE request[r]]

\* kubernetes.New: a client, none outside of a cluster, or an error that ends the process.
NewClient ==
    /\ main = "client"
    /\ \/ main' = "configure" /\ UNCHANGED <<server, request>>
       \/ Exit
    /\ UNCHANGED <<authorizer, collector, signalled, left, expired>>

ForgetsToConfigure ==
    /\ main = "configure"
    /\ main' = "service"
    /\ UNCHANGED <<server, authorizer, collector, signalled, left, expired, request>>
Configure ==
    /\ main = "configure"
    /\ main' = "service"
    /\ authorizer' = TRUE
    /\ UNCHANGED <<server, collector, signalled, left, expired, request>>

\* The routes are made and the collector is started.
service ==
    /\ main = "service"
    /\ main' = "notify"
    /\ collector' = TRUE
    /\ UNCHANGED <<server, authorizer, signalled, left, expired, request>>

NotifyContext ==
    /\ main = "notify"
    /\ main' = "listen"
    /\ UNCHANGED <<server, authorizer, collector, signalled, left, expired, request>>

StartServer ==
    /\ main = "listen"
    /\ main' = "wait"
    /\ server' = "starting"
    /\ UNCHANGED <<authorizer, collector, signalled, left, expired, request>>

\* The signal has arrived: Shutdown closes the listener ...
ClosesAtOnce ==
    /\ main = "wait" /\ signalled
    /\ main' = "stopped"
    /\ server' = IF server = "listening" THEN "closed" ELSE server
    /\ left' = Grace
    /\ UNCHANGED <<authorizer, collector, signalled, expired, request>>
KeepsListening ==
    /\ main = "wait" /\ signalled
    /\ main' = "shutdown"
    /\ left' = Grace
    /\ UNCHANGED <<server, authorizer, collector, signalled, expired, request>>
Shutdown ==
    /\ main = "wait" /\ signalled
    /\ main' = "shutdown"
    /\ server' = IF server = "listening" THEN "closed" ELSE server
    /\ left' = Grace
    /\ UNCHANGED <<authorizer, collector, signalled, expired, request>>

\* ... and waits until no request is open, tunnels not counted, ...
Drained ==
    /\ main = "shutdown" /\ Open = {}
    /\ main' = "stopped"
    /\ UNCHANGED <<server, authorizer, collector, signalled, left, expired, request>>

WaitsForEver ==
    /\ main = "shutdown" /\ Open = {} /\ left = 0
    /\ main' = "stopped"
    /\ expired' = TRUE
    /\ UNCHANGED <<server, authorizer, collector, signalled, left, request>>
\* ... or the time is up.
TimedOut ==
    /\ main = "shutdown" /\ left = 0
    /\ main' = "stopped"
    /\ expired' = TRUE
    /\ UNCHANGED <<server, authorizer, collector, signalled, left, request>>

\* main returns, and says that it stopped cleanly either way.
Return ==
    /\ main = "stopped"
    /\ Exit
    /\ UNCHANGED <<authorizer, collector, signalled, left, expired>>

----------------------------------------------------------------------------
(* The server and its requests.                                             *)

\* The server listens, unless it cannot or Shutdown came before it; main waits all the same.
ListenAndServe ==
    /\ server = "starting"
    /\ server' \in IF ShuttingDown THEN {"closed"} ELSE {"listening", "failed"}
    /\ UNCHANGED <<main, authorizer, collector, signalled, left, expired, request>>

\* A connection is taken; its request is open until the handler is done with it.
Accept(r) ==
    /\ server = "listening" /\ request[r] = "none"
    /\ request' = [request EXCEPT ![r] = "open"]
    /\ UNCHANGED process

\* The handler returns, or its request becomes a tunnel, ...
Answer(r) ==
    /\ r \in Open
    /\ request' \in {[request EXCEPT ![r] = to] : to \in {"none", "tunnel"}}
    /\ UNCHANGED process

\* ... which an end closes.
Close(r) ==
    /\ r \in Tunnels
    /\ request' = [request EXCEPT ![r] = "none"]
    /\ UNCHANGED process

----------------------------------------------------------------------------
\* Before NotifyContext a signal kills the process; a second one changes nothing.
Signal ==
    /\ ~signalled /\ main # "exited"
    /\ signalled' = TRUE
    /\ IF main \in {"client", "configure", "service", "notify"} THEN Exit
       ELSE UNCHANGED <<main, server, request>>
    /\ UNCHANGED <<authorizer, collector, left, expired>>

TicksOn ==
    /\ main = "shutdown"
    /\ left' = left - 1
    /\ UNCHANGED <<main, server, authorizer, collector, signalled, expired, request>>
Tick ==
    /\ main = "shutdown" /\ left > 0
    /\ left' = left - 1
    /\ UNCHANGED <<main, server, authorizer, collector, signalled, expired, request>>

\* Nothing happens to a process that ended.
Ended ==
    /\ main = "exited"
    /\ UNCHANGED vars

Init ==
    /\ main = "client" /\ server = "off"
    /\ authorizer = FALSE /\ collector = FALSE
    /\ signalled = FALSE /\ left = 0 /\ expired = FALSE
    /\ request = [r \in Requests |-> "none"]

Main == \/ NewClient \/ Configure \/ service \/ NotifyContext \/ StartServer
        \/ Shutdown \/ Drained \/ TimedOut \/ Return

Next ==
    \/ Main \/ ListenAndServe \/ Signal \/ Tick \/ Ended
    \/ \E r \in Requests : Accept(r) \/ Answer(r) \/ Close(r)

Spec == Init /\ [][Next]_vars

\* main does not stop for anything but the signal and the shutdown, and time passes.
\* Nothing is assumed of the requests.
FairSpec == Spec /\ WF_vars(Main) /\ WF_vars(ListenAndServe) /\ WF_vars(Tick)

----------------------------------------------------------------------------
TypeOK ==
    /\ main \in Steps
    /\ server \in {"off", "starting", "listening", "failed", "closed"}
    /\ authorizer \in BOOLEAN /\ collector \in BOOLEAN
    /\ signalled \in BOOLEAN /\ expired \in BOOLEAN
    /\ left \in 0..Grace
    /\ request \in [Requests -> {"none", "open", "tunnel", "cut", "dropped"}]

\* No request meets a process that is not ready for it: the authorizer is configured and
\* the collector runs before the first one (identity.go:32-36, main.go:28-30).
ServesPrepared == Open \cup Tunnels # {} => authorizer /\ collector

\* A request is cut off only by a shutdown that waited for it until the time was up
\* (main.go:143-152).
OnlyStragglersCut ==
    \A r \in Requests : request[r] = "cut" => expired /\ left = 0

\* Once the process is shutting down it takes no connection, even if the signal came
\* before the server had begun to listen (main.go:131-148).
NoLateConnection == [][ShuttingDown => \A r \in Requests : request'[r] = "open" => r \in Open]_vars

\* A signal ends the process, although a handler may wait for ever on a container that
\* does not answer and a server that failed to listen leaves main waiting (main.go:132-148,
\* proxy.go:89).
Stops == signalled ~> main = "exited"
=============================================================================
