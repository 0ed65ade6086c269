--------------------------- MODULE UpstreamCache ---------------------------
(***************************************************************************)
(* The cache of workspace upstreams (workspace/workspace.go) for one user:    *)
(* LookupUpstream as called by the workspace proxy and by the JEG routes, the  *)
(* invalidation after a 502, and the Kubernetes Service it discovers, which    *)
(* moves when the workspace restarts.                                         *)
(*                                                                          *)
(* Time is discrete.  A tick may pass while Kubernetes answers, while a JEG    *)
(* route waits for the client's body or for JEG, and while a request is        *)
(* proxied, but not while a goroutine merely has to run on: steps of the       *)
(* program take no time next to the cache's TTL.                              *)
(***************************************************************************)
EXTENDS Integers

CONSTANTS
    Requests,    \* request goroutines of the user
    Upstreams,   \* the addresses the workspace's Service may have
    TTL,         \* upstreamCacheTTL, in ticks
    ResolveMax,  \* the timeout of the Kubernetes client, in ticks
    MaxMoves,    \* bound on how often the Service moves
    MaxHold,     \* bound on the ticks a JEG route holds an upstream that are counted
    None

ASSUME CacheConstants ==
    /\ TTL \in Nat \ {0}
    /\ ResolveMax \in Nat
    /\ MaxMoves \in Nat
    /\ MaxHold \in Nat \ {0}
    /\ None \notin Upstreams

VARIABLES
    upstreamCache,  \* the user's upstreamEntry, or None
    service,        \* where the Service is, None if there is no workspace
    moves,          \* how often it moved
    left,           \* ghost: ticks since the Service was last at an address
    request         \* request -> the locals of its goroutine, or None

vars == <<upstreamCache, service, moves, left, request>>

\* An address that is handed out has not been gone for this long, ...
Bound == TTL + ResolveMax

\* ... and none is tracked as gone for longer than this.
Cap == Bound + MaxHold

\* An upstreamEntry: the ticks until expires, 0 once it has passed.
UpstreamEntry == [upstream : Upstreams, ttl : 0..TTL]

\* The ghost held counts the ticks since the upstream was handed out.
Request == [pc : {"load", "expired", "resolve", "store", "hold", "use", "proxying",
                  "invalidate", "ended"},
            route : {"workspace", "jeg"}, upstream : Upstreams \cup {None},
            wait : 0..ResolveMax, held : 0..MaxHold]

At(r, label) == request[r] # None /\ request[r].pc = label

Become(r, q) == request' = [request EXCEPT ![r] = q]

Goto(q, label) == [q EXCEPT !.pc = label]

\* LookupUpstream returns.  The workspace route connects at once, a JEG route later.
HandOut(q, upstream) ==
    [Goto(q, IF q.route = "workspace" THEN "use" ELSE "hold") EXCEPT !.upstream = upstream]

\* A goroutine that is done takes its next request after the next tick: a bound on
\* the requests per tick, without which the program could take infinitely many steps
\* in no time.
Ended == [pc |-> "ended", route |-> "jeg", upstream |-> None, wait |-> 0, held |-> 0]

----------------------------------------------------------------------------
Start(r, route) ==
    /\ request[r] = None
    /\ Become(r, [pc |-> "load", route |-> route, upstream |-> None, wait |-> 0, held |-> 0])
    /\ UNCHANGED <<upstreamCache, service, moves, left>>

\* Mutants of the next action: the expiry is not looked at, and a hit extends it.
LoadWithoutExpiry(r) ==
    /\ At(r, "load")
    /\ Become(r, IF upstreamCache = None THEN Goto(request[r], "resolve")
                 ELSE HandOut(request[r], upstreamCache.upstream))
    /\ UNCHANGED <<upstreamCache, service, moves, left>>

LoadSliding(r) ==
    /\ At(r, "load")
    /\ \/ /\ upstreamCache # None
          /\ IF upstreamCache.ttl > 0
             THEN /\ Become(r, HandOut(request[r], upstreamCache.upstream))
                  /\ upstreamCache' = [upstreamCache EXCEPT !.ttl = TTL]
             ELSE Become(r, Goto(request[r], "expired")) /\ UNCHANGED upstreamCache
       \/ /\ upstreamCache = None
          /\ Become(r, Goto(request[r], "resolve"))
          /\ UNCHANGED upstreamCache
    /\ UNCHANGED <<service, moves, left>>

\* An entry is used until it expires.
Load(r) ==
    /\ At(r, "load")
    /\ Become(r, IF upstreamCache = None THEN Goto(request[r], "resolve")
                 ELSE IF upstreamCache.ttl > 0
                 THEN HandOut(request[r], upstreamCache.upstream)
                 ELSE Goto(request[r], "expired"))
    /\ UNCHANGED <<upstreamCache, service, moves, left>>

\* The delete is by key: it takes whatever entry is there by now.
DropExpired(r) ==
    /\ At(r, "expired")
    /\ upstreamCache' = None
    /\ Become(r, Goto(request[r], "resolve"))
    /\ UNCHANGED <<service, moves, left>>

\* Mutant of the next action: that there is no Service is cached as well.
CachesMisses(r) ==
    /\ At(r, "resolve")
    /\ \/ Become(r, [Goto(request[r], "store") EXCEPT !.upstream = service])
       \/ Become(r, Ended)
    /\ UNCHANGED <<upstreamCache, service, moves, left>>

\* Kubernetes answers with the Service as it is, or there is none, or the call fails.
\* Nothing is cached then, and the request ends with no upstream.
resolveUpstream(r) ==
    /\ At(r, "resolve")
    /\ \/ /\ service # None
          /\ Become(r, [Goto(request[r], "store") EXCEPT !.upstream = service])
       \/ Become(r, Ended)
    /\ UNCHANGED <<upstreamCache, service, moves, left>>

\* The answer arrives within the client's timeout, is stored and handed out.
Store(r) ==
    /\ At(r, "store")
    /\ upstreamCache' = [upstream |-> request[r].upstream, ttl |-> TTL]
    /\ Become(r, HandOut(request[r], request[r].upstream))
    /\ UNCHANGED <<service, moves, left>>

\* A JEG route contacts the container after it has read the client's body, which no
\* deadline ends, and may have called JEG, or not at all.  Of several contacts this
\* is the last: they leave the cache alone, and those before only delay it.
Contact(r) ==
    /\ At(r, "hold")
    /\ Become(r, Goto(request[r], "use")) \/ Become(r, Ended)
    /\ UNCHANGED <<upstreamCache, service, moves, left>>

Use(r) ==
    /\ At(r, "use")
    /\ Become(r, Goto(request[r], "proxying"))
    /\ UNCHANGED <<upstreamCache, service, moves, left>>

\* Proxying ends, with a 502 if the address is not the workspace's or the workspace
\* does not answer.  The JEG routes do not invalidate.
Proxied(r) ==
    /\ At(r, "proxying")
    /\ \/ request[r].upstream = service /\ Become(r, Ended)
       \/ request[r].route = "workspace" /\ Become(r, Goto(request[r], "invalidate"))
       \/ request[r].route = "jeg" /\ Become(r, Ended)
    /\ UNCHANGED <<upstreamCache, service, moves, left>>

Invalidate(r) ==
    /\ At(r, "invalidate")
    /\ upstreamCache' = None
    /\ Become(r, Ended)
    /\ UNCHANGED <<service, moves, left>>

\* The workspace restarts elsewhere, or stops.
Move(to) ==
    /\ moves < MaxMoves /\ to # service
    /\ service' = to
    /\ moves' = moves + 1
    /\ left' = [a \in Upstreams |-> IF a = to THEN 0 ELSE left[a]]
    /\ UNCHANGED <<upstreamCache, request>>

\* A tick passes unless some goroutine only has to run on, or would be in its call
\* to Kubernetes for longer than the client's timeout.
Tick ==
    /\ \A r \in Requests : request[r] # None =>
         /\ request[r].pc \in {"resolve", "store", "hold", "proxying", "ended"}
         /\ request[r].pc = "store" => request[r].wait < ResolveMax
    /\ upstreamCache' = IF upstreamCache # None /\ upstreamCache.ttl > 0
                        THEN [upstreamCache EXCEPT !.ttl = @ - 1] ELSE upstreamCache
    /\ left' = [a \in Upstreams |-> IF a = service \/ left[a] = Cap THEN left[a] ELSE left[a] + 1]
    /\ request' = [r \in Requests |->
                    IF At(r, "store") THEN [request[r] EXCEPT !.wait = @ + 1]
                    ELSE IF At(r, "hold") /\ request[r].held < MaxHold
                    THEN [request[r] EXCEPT !.held = @ + 1]
                    ELSE IF At(r, "ended") THEN None ELSE request[r]]
    /\ UNCHANGED <<service, moves>>

Init ==
    /\ upstreamCache = None
    /\ service \in Upstreams \cup {None}
    /\ moves = 0
    /\ left = [a \in Upstreams |-> IF a = service THEN 0 ELSE Cap]
    /\ request = [r \in Requests |-> None]

Handle(r) ==
    \/ Load(r) \/ DropExpired(r) \/ resolveUpstream(r) \/ Store(r)
    \/ Contact(r) \/ Use(r) \/ Proxied(r) \/ Invalidate(r)

\* The steps a goroutine is sure to take; how long proxying and the wait for a body
\* last is up to the client.
RunOn(r) == Load(r) \/ DropExpired(r) \/ resolveUpstream(r) \/ Store(r) \/ Use(r) \/ Invalidate(r)

Next ==
    \/ \E r \in Requests : Handle(r) \/ \E route \in {"workspace", "jeg"} : Start(r, route)
    \/ \E to \in Upstreams \cup {None} : Move(to)
    \/ Tick

Spec == Init /\ [][Next]_vars

\* Goroutines run on, the call to Kubernetes ends, and time passes.
FairSpec == Spec /\ WF_vars(Tick) /\ \A r \in Requests : WF_vars(RunOn(r))

----------------------------------------------------------------------------
TypeOK ==
    /\ upstreamCache \in UpstreamEntry \cup {None}
    /\ service \in Upstreams \cup {None}
    /\ moves \in 0..MaxMoves
    /\ left \in [Upstreams -> 0..Cap]
    /\ request \in [Requests -> Request \cup {None}]

\* LookupUpstream never hands out an address the workspace left TTL + ResolveMax ago or
\* never had, although lookups race, an answer may be stored after the invalidation
\* meant for it, and the JEG routes never invalidate (workspace.go:45-47: "short
\* enough to pick up pod-restart port changes").  The workspace route connects to it at
\* once; a JEG route looks up before it reads the client's body and calls JEG
\* (proxy.go:54, 68, 169), and the address has been gone for as much longer as that
\* took, counted up to MaxHold.
StalenessBound ==
    \A r \in Requests : At(r, "use") =>
        LET q == request[r]
        IN  /\ q.upstream # None
            /\ q.route = "workspace" => left[q.upstream] < Bound
            /\ q.held < MaxHold => left[q.upstream] < Bound + q.held

\* Once the workspace stays where it is, no stale address is served from the cache any
\* more, even if the requests that could have invalidated it never come.
CacheSettles ==
    <>[](upstreamCache # None /\ upstreamCache.ttl > 0 => upstreamCache.upstream = service)
=============================================================================
