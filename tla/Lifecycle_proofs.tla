-------------------------- MODULE Lifecycle_proofs --------------------------
(***************************************************************************)
(* Proofs about Lifecycle, for any number of requests and any length of the    *)
(* shutdown.  The invariant ties what main has prepared to whether there are    *)
(* requests, and what is open when main returns to the time being up.           *)
(***************************************************************************)
EXTENDS Lifecycle, TLAPS

\* The steps before the server is started.
Early == {"client", "configure", "service", "notify", "listen"}

\* There are requests only after main has prepared what they share, ...
Prepared ==
    /\ main = "service" => authorizer
    /\ main \in {"notify", "listen", "wait", "shutdown", "stopped"} => authorizer /\ collector
    /\ Open \cup Tunnels # {} => main \in {"wait", "shutdown", "stopped"}

\* ... the server listens only while main waits, ...
Listens ==
    /\ main \in Early => server = "off"
    /\ ShuttingDown => server # "listening"

\* ... and main returns only when nothing is open or the time is up.
Waited ==
    /\ expired => left = 0 /\ main \in {"stopped", "exited"}
    /\ main = "stopped" => expired \/ Open = {}

Inv == TypeOK /\ Prepared /\ Listens /\ Waited /\ OnlyStragglersCut

----------------------------------------------------------------------------
\* Exit cuts off what is open and nothing else.
LEMMA ExitCuts ==
    ASSUME TypeOK, Exit
    PROVE  /\ request' \in [Requests -> {"none", "open", "tunnel", "cut", "dropped"}]
           /\ Open' = {} /\ Tunnels' = {}
           /\ \A r \in Requests : request'[r] = "cut" => request[r] = "cut" \/ r \in Open
BY DEF TypeOK, Exit, Open, Tunnels

\* The end of the process keeps the invariant if nothing is open or the time is up.
LEMMA ExitInv ==
    ASSUME LifeConstants, Inv, Exit, UNCHANGED <<authorizer, collector, left, expired>>,
           signalled' \in BOOLEAN, Open = {} \/ expired
    PROVE  Inv'
<1>1. TypeOK'
  BY ExitCuts DEF Inv, TypeOK, Exit, Steps
<1>2. Prepared' /\ Listens' /\ Waited'
  BY ExitCuts DEF Inv, Exit, Prepared, Listens, Waited, Early, ShuttingDown, TypeOK
<1>3. OnlyStragglersCut'
  BY ExitCuts DEF Inv, OnlyStragglersCut, Waited, TypeOK
<1>. QED BY <1>1, <1>2, <1>3 DEF Inv

LEMMA InitInv == LifeConstants /\ Init => Inv
<1>. SUFFICES ASSUME LifeConstants, Init PROVE Inv
  OBVIOUS
<1>1. TypeOK
  <2>1. left \in 0..Grace /\ main \in Steps
    BY DEF LifeConstants, Init, Steps
  <2>2. request \in [Requests -> {"none", "open", "tunnel", "cut", "dropped"}]
    BY DEF Init
  <2>3. /\ authorizer \in BOOLEAN /\ collector \in BOOLEAN
        /\ signalled \in BOOLEAN /\ expired \in BOOLEAN
    BY Zenon DEF Init
  <2>. QED BY <2>1, <2>2, <2>3 DEF Init, TypeOK
<1>2. Open = {} /\ Tunnels = {} /\ OnlyStragglersCut
  BY DEF Init, Open, Tunnels, OnlyStragglersCut
<1>3. Prepared /\ Listens /\ Waited
  BY <1>2 DEF Init, Prepared, Listens, Waited, Early, ShuttingDown
<1>. QED BY <1>1, <1>2, <1>3 DEF Inv

LEMMA NextInv ==
    ASSUME LifeConstants, Inv, [Next]_vars
    PROVE  Inv'
<1>1. CASE NewClient
  <2>1. CASE Exit
    <3>1. Open = {}
      BY <1>1 DEF Inv, Prepared, NewClient
    <3>. QED BY <1>1, <2>1, <3>1, ExitInv DEF NewClient, Inv, TypeOK
  <2>2. CASE main' = "configure" /\ UNCHANGED <<server, request>>
    BY <1>1, <2>2 DEF NewClient, Inv, TypeOK, Steps, Prepared, Listens, Waited, Early,
       ShuttingDown, Open, Tunnels, OnlyStragglersCut
  <2>. QED BY <1>1, <2>1, <2>2 DEF NewClient
<1>2. CASE Configure \/ service \/ NotifyContext \/ StartServer
  <2>1. TypeOK'
    BY <1>2 DEF Configure, service, NotifyContext, StartServer, Inv, TypeOK, Steps, LifeConstants
  <2>2. UNCHANGED <<request, Open, Tunnels>>
    BY <1>2 DEF Configure, service, NotifyContext, StartServer, Open, Tunnels
  <2>3. Prepared'
    BY <1>2, <2>2 DEF Configure, service, NotifyContext, StartServer, Inv, Prepared
  <2>4. Listens' /\ Waited'
    BY <1>2, <2>2 DEF Configure, service, NotifyContext, StartServer, Inv, Listens, Waited, Early, ShuttingDown
  <2>5. OnlyStragglersCut'
    BY <1>2, <2>2 DEF Configure, service, NotifyContext, StartServer, Inv, Waited, OnlyStragglersCut
  <2>. QED BY <2>1, <2>2, <2>3, <2>4, <2>5 DEF Inv
<1>3. CASE Shutdown
  <2>1. TypeOK'
    BY <1>3 DEF Shutdown, Inv, TypeOK, Steps, LifeConstants
  <2>2. UNCHANGED <<request, Open, Tunnels>>
    BY <1>3 DEF Shutdown, Open, Tunnels
  <2>3. Prepared'
    BY <1>3, <2>2 DEF Shutdown, Inv, Prepared
  <2>4. Listens' /\ Waited'
    BY <1>3, <2>2 DEF Shutdown, Inv, Listens, Waited, Early, ShuttingDown
  <2>5. OnlyStragglersCut'
    BY <1>3, <2>2 DEF Shutdown, Inv, Waited, OnlyStragglersCut
  <2>. QED BY <2>1, <2>2, <2>3, <2>4, <2>5 DEF Inv
<1>4. CASE Drained \/ TimedOut
  <2>1. TypeOK'
    BY <1>4 DEF Drained, TimedOut, Inv, TypeOK, Steps, LifeConstants
  <2>2. UNCHANGED <<request, Open, Tunnels>>
    BY <1>4 DEF Drained, TimedOut, Open, Tunnels
  <2>3. Prepared'
    BY <1>4, <2>2 DEF Drained, TimedOut, Inv, Prepared
  <2>4. Listens' /\ Waited'
    BY <1>4, <2>2 DEF Drained, TimedOut, Inv, Listens, Waited, Early, ShuttingDown
  <2>5. OnlyStragglersCut'
    BY <1>4, <2>2 DEF Drained, TimedOut, Inv, Waited, OnlyStragglersCut
  <2>. QED BY <2>1, <2>2, <2>3, <2>4, <2>5 DEF Inv
<1>5. CASE Return
  <2>1. Open = {} \/ expired
    BY <1>5 DEF Return, Inv, Waited
  <2>. QED BY <1>5, <2>1, ExitInv DEF Return, Inv, TypeOK
<1>6. CASE ListenAndServe
  BY <1>6 DEF ListenAndServe, Inv, TypeOK, Steps, Prepared, Listens, Waited, Early,
     ShuttingDown, Open, Tunnels, OnlyStragglersCut
<1>7. ASSUME NEW r \in Requests, Accept(r) PROVE Inv'
  <2>1. main = "wait"
    BY <1>7 DEF Accept, Inv, Listens, Early, ShuttingDown, TypeOK, Steps
  <2>. QED BY <1>7, <2>1 DEF Accept, process, Inv, TypeOK, Steps, Prepared, Listens, Waited,
       Early, ShuttingDown, OnlyStragglersCut
<1>8. ASSUME NEW r \in Requests, Answer(r) \/ Close(r) PROVE Inv'
  <2>1. request' \in [Requests -> {"none", "open", "tunnel", "cut", "dropped"}]
    BY <1>8 DEF Answer, Close, Inv, TypeOK
  <2>2. Open' \subseteq Open /\ (Tunnels' # {} => Open \cup Tunnels # {})
    BY <1>8 DEF Answer, Close, Inv, TypeOK, Open, Tunnels
  <2>3. \A q \in Requests : request'[q] = "cut" => request[q] = "cut"
    BY <1>8 DEF Answer, Close, Inv, TypeOK
  <2>. QED BY <1>8, <2>1, <2>2, <2>3 DEF Answer, Close, process, Inv, TypeOK, Prepared, Listens,
       Waited, ShuttingDown, OnlyStragglersCut
<1>9. CASE Signal
  <2>1. CASE main \in {"client", "configure", "service", "notify"}
    <3>1. Open = {}
      BY <2>1 DEF Inv, Prepared
    <3>. QED BY <1>9, <2>1, <3>1, ExitInv DEF Signal
  <2>2. CASE main \notin {"client", "configure", "service", "notify"}
    BY <1>9, <2>2 DEF Signal, Inv, TypeOK, Prepared, Listens, Waited, ShuttingDown, Open,
       Tunnels, OnlyStragglersCut
  <2>. QED BY <2>1, <2>2
<1>10. CASE Tick
  BY <1>10 DEF LifeConstants, Tick, Inv, TypeOK, Steps, Prepared, Listens, Waited, Early,
     ShuttingDown, Open, Tunnels, OnlyStragglersCut
<1>11. CASE UNCHANGED vars
  BY <1>11 DEF vars, Inv, TypeOK, Prepared, Listens, Waited, ShuttingDown, Open, Tunnels,
     OnlyStragglersCut
<1>. QED BY <1>1, <1>2, <1>3, <1>4, <1>5, <1>6, <1>7, <1>8, <1>9, <1>10, <1>11
     DEF Next, Main, Ended

THEOREM InvAlways == Spec => []Inv
<1>1. Init => Inv
  BY LifeConstants, InitInv
<1>2. Inv /\ [Next]_vars => Inv'
  BY LifeConstants, NextInv
<1>. QED BY <1>1, <1>2, PTL DEF Spec

----------------------------------------------------------------------------
\* The process and its requests are in states main.go has, and the clock of the shutdown
\* stays within its 30 s (main.go:96-155).
THEOREM TypeCorrect == Spec => []TypeOK
<1>1. Inv => TypeOK
  BY DEF Inv
<1>. QED BY <1>1, InvAlways, PTL

\* No request meets a process that is not ready for it (identity.go:32-36, main.go:28-30).
THEOREM ServesPreparedHolds == Spec => []ServesPrepared
<1>1. Inv => ServesPrepared
  BY DEF Inv, Prepared, ServesPrepared
<1>. QED BY <1>1, InvAlways, PTL

\* A request is cut off only by a shutdown that waited until the time was up
\* (main.go:143-152).
THEOREM OnlyStragglersCutHolds == Spec => []OnlyStragglersCut
<1>1. Inv => OnlyStragglersCut
  BY DEF Inv
<1>. QED BY <1>1, InvAlways, PTL

\* A process that is shutting down takes no connection (main.go:131-148).
THEOREM NoLateConnectionHolds == Spec => NoLateConnection
<1>. DEFINE Late == ShuttingDown => \A r \in Requests : request'[r] = "open" => r \in Open
<1>1. ASSUME Inv, [Next]_vars PROVE [Late]_vars
  <2>. SUFFICES ASSUME ShuttingDown, NEW q \in Requests, request'[q] = "open"
                PROVE  request[q] = "open"
    BY DEF Open
  <2>1. server # "listening" /\ request \in [Requests -> {"none", "open", "tunnel", "cut", "dropped"}]
    BY <1>1 DEF Inv, Listens, TypeOK
  <2>2. ~Exit
    BY DEF Exit, Open, Tunnels
  <2>3. \A r \in Requests : ~Accept(r)
    BY <2>1 DEF Accept
  <2>4. \A r \in Requests : Answer(r) \/ Close(r) => request[q] = "open"
    BY <2>1 DEF Answer, Close
  <2>. QED BY <1>1, <2>2, <2>3, <2>4 DEF Next, Main, NewClient, Configure, service, NotifyContext,
       StartServer, Shutdown, Drained, TimedOut, Return, ListenAndServe, Signal, Tick, Ended, vars
<1>2. Inv /\ [Next]_vars => [Late]_vars
  BY <1>1
<1>. QED BY <1>2, InvAlways, PTL DEF Spec, NoLateConnection
=============================================================================
