------------------------ MODULE UpstreamCache_proofs ------------------------
(* Proofs about UpstreamCache, for any number of requests and addresses and    *)
(* any TTL and timeout: its types, and how stale an upstream in use can be.     *)
EXTENDS UpstreamCache, TLAPS

\* The Service answers at its address now; an entry has used up its TTL, an answer under
\* way its wait, and a JEG route what it has held the upstream for, for as long as the
\* Service may have been gone.
ServiceIsThere == service # None => left[service] = 0

EntryFresh ==
    upstreamCache # None /\ upstreamCache.ttl > 0 =>
        left[upstreamCache.upstream] + upstreamCache.ttl <= Bound

AnswersFresh ==
    \A r \in Requests : At(r, "store") =>
        request[r].upstream # None /\ left[request[r].upstream] <= request[r].wait

Holds == {"hold", "use"}

\* The workspace route does not hold what it is handed.
HeldFresh(q) ==
    /\ q.route = "workspace" => q.held = 0
    /\ q.pc = "hold" => q.route = "jeg"
    /\ q.pc \in Holds => /\ q.upstream # None
                         /\ q.held < MaxHold => left[q.upstream] < Bound + q.held

UpstreamsFresh == \A r \in Requests : request[r] # None => HeldFresh(request[r])

Fresh == ServiceIsThere /\ EntryFresh /\ AnswersFresh /\ UpstreamsFresh

----------------------------------------------------------------------------
LEMMA TypeInit == Init => TypeOK
BY CacheConstants DEF Init, TypeOK, Cap, Bound

\* The steps of one goroutine: its own locals are well typed, and so is the cache.
LEMMA OneRequestType ==
    ASSUME TypeOK, NEW r \in Requests, NEW q \in Request \cup {None}, Become(r, q),
           upstreamCache' \in UpstreamEntry \cup {None},
           UNCHANGED <<service, moves, left>>
    PROVE  TypeOK'
BY DEF TypeOK, Become

LEMMA GotoType ==
    ASSUME NEW q \in Request,
           NEW label \in {"load", "expired", "resolve", "store", "hold", "use", "proxying",
                          "invalidate", "ended"}
    PROVE  /\ Goto(q, label) \in Request
           /\ Goto(q, label).pc = label
           /\ Goto(q, label).upstream = q.upstream
           /\ Goto(q, label).wait = q.wait
           /\ Goto(q, label).held = q.held
           /\ Goto(q, label).route = q.route
BY DEF Goto, Request

LEMMA HandOutType ==
    ASSUME NEW q \in Request, NEW a \in Upstreams
    PROVE  /\ HandOut(q, a) \in Request
           /\ HandOut(q, a).pc = IF q.route = "workspace" THEN "use" ELSE "hold"
           /\ HandOut(q, a).upstream = a
           /\ HandOut(q, a).held = q.held
           /\ HandOut(q, a).route = q.route
BY DEF HandOut, Goto, Request

LEMMA StartType ==
    ASSUME NEW route \in {"workspace", "jeg"}
    PROVE  /\ [pc |-> "load", route |-> route, upstream |-> None, wait |-> 0, held |-> 0] \in Request
           /\ Ended \in Request
BY CacheConstants DEF Request, Ended

LEMMA HandleType ==
    ASSUME TypeOK, AnswersFresh, NEW r \in Requests, Handle(r)
    PROVE  TypeOK'
<1>. DEFINE q == request[r]
<1>. q \in Request
  BY DEF Handle, Load, DropExpired, resolveUpstream, Store, Contact, Use, Proxied,
         Invalidate, At, TypeOK
<1>. HIDE DEF q
<1>0. /\ upstreamCache \in UpstreamEntry \cup {None}
      /\ service \in Upstreams \cup {None}
  BY DEF TypeOK
<1>1. CASE Load(r)
  <2>1. CASE upstreamCache = None
    BY <1>1, <2>1, <1>0, GotoType, OneRequestType DEF Load, q
  <2>2. CASE upstreamCache # None
    BY <1>1, <2>2, <1>0, GotoType, HandOutType, OneRequestType DEF Load, q, UpstreamEntry
  <2>. QED BY <2>1, <2>2
<1>2. CASE DropExpired(r)
  BY <1>2, GotoType, OneRequestType DEF DropExpired, q
<1>3. CASE resolveUpstream(r)
  <2>1. ASSUME service # None,
               Become(r, [Goto(request[r], "store") EXCEPT !.upstream = service])
        PROVE  TypeOK'
    <3>1. [Goto(q, "store") EXCEPT !.upstream = service] \in Request
      BY <1>0, <2>1, GotoType DEF Request
    <3>. QED
      BY <1>0, <1>3, <2>1, <3>1, OneRequestType DEF resolveUpstream, q
  <2>2. ASSUME Become(r, Ended) PROVE TypeOK'
    BY <1>0, <1>3, <2>2, StartType, OneRequestType DEF resolveUpstream
  <2>. QED BY <1>3, <2>1, <2>2 DEF resolveUpstream
<1>4. CASE Store(r)
  <2>0. q.upstream # None
    BY <1>4 DEF Store, AnswersFresh, q
  <2>1. [upstream |-> q.upstream, ttl |-> TTL] \in UpstreamEntry
    BY <2>0, CacheConstants DEF UpstreamEntry, Request
  <2>2. HandOut(q, q.upstream) \in Request
    BY <2>0, HandOutType DEF Request
  <2>. QED
    BY <1>0, <1>4, <2>1, <2>2, OneRequestType DEF Store, q
<1>5. CASE Use(r)
  BY <1>0, <1>5, GotoType, OneRequestType DEF Use, q
<1>6. CASE Proxied(r)
  BY <1>0, <1>6, GotoType, StartType, OneRequestType DEF Proxied, q
<1>7. CASE Invalidate(r)
  BY <1>7, StartType, OneRequestType DEF Invalidate
<1>8. CASE Contact(r)
  BY <1>0, <1>8, GotoType, StartType, OneRequestType DEF Contact, q
<1>. QED
  BY <1>1, <1>2, <1>3, <1>4, <1>5, <1>6, <1>7, <1>8 DEF Handle

LEMMA TypeStep == TypeOK /\ AnswersFresh /\ [Next]_vars => TypeOK'
<1>. SUFFICES ASSUME TypeOK, AnswersFresh, [Next]_vars PROVE TypeOK'
  OBVIOUS
<1>1. ASSUME NEW r \in Requests, Handle(r) PROVE TypeOK'
  BY <1>1, HandleType
<1>2. ASSUME NEW r \in Requests, NEW route \in {"workspace", "jeg"}, Start(r, route)
      PROVE  TypeOK'
  BY <1>2, StartType, OneRequestType DEF Start, TypeOK
<1>3. ASSUME NEW to \in Upstreams \cup {None}, Move(to) PROVE TypeOK'
  <2>1. 0 \in 0..Cap /\ moves + 1 \in 0..MaxMoves
    BY <1>3, CacheConstants DEF Move, TypeOK, Cap, Bound
  <2>2. left' \in [Upstreams -> 0..Cap]
    BY <1>3, <2>1 DEF Move, TypeOK
  <2>. QED
    BY <1>3, <2>1, <2>2 DEF Move, TypeOK
<1>4. CASE Tick
  <2>1. upstreamCache' \in UpstreamEntry \cup {None}
    BY <1>4, CacheConstants DEF Tick, TypeOK, UpstreamEntry
  <2>2. left' \in [Upstreams -> 0..Cap]
    <3>. SUFFICES ASSUME NEW a \in Upstreams
                  PROVE  (IF a = service \/ left[a] = Cap THEN left[a] ELSE left[a] + 1) \in 0..Cap
      BY <1>4 DEF Tick
    <3>1. left[a] \in 0..Cap /\ Cap \in Nat
      BY CacheConstants DEF TypeOK, Cap, Bound
    <3>. QED BY <3>1
  <2>3. request' \in [Requests -> Request \cup {None}]
    <3>. SUFFICES ASSUME NEW r \in Requests PROVE request'[r] \in Request \cup {None}
      BY <1>4 DEF Tick
    <3>1. CASE At(r, "store")
      <4>1. /\ request[r] \in Request /\ request[r].wait < ResolveMax
            /\ request'[r] = [request[r] EXCEPT !.wait = @ + 1]
        BY <1>4, <3>1 DEF Tick, At, TypeOK
      <4>2. request[r].wait + 1 \in 0..ResolveMax
        BY <4>1, CacheConstants DEF Request
      <4>. QED BY <4>1, <4>2 DEF Request
    <3>2. CASE At(r, "hold") /\ request[r].held < MaxHold
      <4>1. /\ request[r] \in Request
            /\ request'[r] = [request[r] EXCEPT !.held = @ + 1]
        BY <1>4, <3>2 DEF Tick, At, TypeOK
      <4>2. request[r].held + 1 \in 0..MaxHold
        BY <3>2, <4>1, CacheConstants DEF Request
      <4>. QED BY <4>1, <4>2 DEF Request
    <3>3. CASE ~At(r, "store") /\ ~(At(r, "hold") /\ request[r].held < MaxHold)
      BY <1>4, <3>3 DEF Tick, TypeOK
    <3>. QED BY <3>1, <3>2, <3>3
  <2>. QED
    BY <1>4, <2>1, <2>2, <2>3 DEF Tick, TypeOK
<1>5. CASE UNCHANGED vars
  BY <1>5 DEF vars, TypeOK
<1>. QED
  BY <1>1, <1>2, <1>3, <1>4, <1>5 DEF Next

----------------------------------------------------------------------------
LEMMA FreshInit == Init => Fresh
BY DEF Init, Fresh, ServiceIsThere, EntryFresh, AnswersFresh, UpstreamsFresh, At

\* A step of one goroutine that leaves the cache fresh and its own answer fresh.
LEMMA OneRequestFresh ==
    ASSUME TypeOK, Fresh, NEW r \in Requests, NEW q \in Request \cup {None}, Become(r, q),
           EntryFresh',
           q # None /\ q.pc = "store" => q.upstream # None /\ left[q.upstream] <= q.wait,
           q # None => HeldFresh(q),
           UNCHANGED <<service, moves, left>>
    PROVE  Fresh'
<1>1. \A i \in Requests : request'[i] = IF i = r THEN q ELSE request[i]
  BY DEF Become, TypeOK
<1>2. ServiceIsThere'
  BY DEF Fresh, ServiceIsThere
<1>3. AnswersFresh'
  BY <1>1 DEF Fresh, AnswersFresh, At
<1>4. UpstreamsFresh'
  BY <1>1 DEF Fresh, UpstreamsFresh, HeldFresh
<1>. QED BY <1>2, <1>3, <1>4 DEF Fresh

\* Locals that leave a request fresh and that are not an answer under way.
HandedFresh(q) == q \in Request /\ q.pc # "store" /\ HeldFresh(q)

LEMMA FreshAddress ==
    ASSUME NEW q \in Request, NEW a \in Upstreams, a # None,
           left[a] \in Nat, left[a] < Bound, Bound \in Nat, HeldFresh(q)
    PROVE  HandedFresh(HandOut(q, a))
<1>1. q.held \in Nat /\ q.route \in {"workspace", "jeg"}
  BY CacheConstants DEF Request
<1>2. left[a] < Bound + q.held
  BY <1>1
<1>. QED BY <1>1, <1>2, HandOutType DEF HeldFresh, HandedFresh

\* A step that neither hands out nor keeps an upstream.
LEMMA OnwardFresh ==
    ASSUME NEW q \in Request, HeldFresh(q),
           NEW label \in {"expired", "resolve", "proxying", "invalidate"}
    PROVE  HandedFresh(Goto(q, label))
BY GotoType DEF HeldFresh, HandedFresh, Holds

LEMMA EndedFresh == HandedFresh(Ended)
BY StartType DEF Ended, HeldFresh, HandedFresh, Holds

LEMMA HandleFresh ==
    ASSUME TypeOK, Fresh, NEW r \in Requests, Handle(r)
    PROVE  Fresh'
<1>. DEFINE q == request[r]
<1>. q \in Request
  BY DEF Handle, Load, DropExpired, resolveUpstream, Store, Contact, Use, Proxied,
         Invalidate, At, TypeOK
<1>. HIDE DEF q
<1>0. /\ service \in Upstreams \cup {None}
      /\ upstreamCache \in UpstreamEntry \cup {None}
      /\ \A a \in Upstreams : left[a] \in Nat
      /\ EntryFresh /\ Bound \in Nat
      /\ HeldFresh(q) /\ q.held \in Nat
  <2>1. request[r] # None
    BY DEF Handle, Load, DropExpired, resolveUpstream, Store, Contact, Use, Proxied,
           Invalidate, At
  <2>. QED
    BY <2>1, CacheConstants DEF TypeOK, Cap, Bound, Fresh, UpstreamsFresh, q, Request
<1>1. CASE Load(r)
  <2>1. UNCHANGED <<upstreamCache, service, moves, left>> /\ EntryFresh'
    BY <1>0, <1>1 DEF Load, EntryFresh
  <2>2. ASSUME upstreamCache # None, upstreamCache.ttl > 0 PROVE Fresh'
    <3>1. /\ upstreamCache.upstream \in Upstreams /\ upstreamCache.upstream # None
          /\ upstreamCache.ttl \in Nat
      BY <1>0, <2>2, CacheConstants DEF UpstreamEntry
    <3>2. left[upstreamCache.upstream] < Bound
      BY <1>0, <2>2, <3>1 DEF EntryFresh
    <3>3. Become(r, HandOut(q, upstreamCache.upstream))
      BY <1>1, <2>2 DEF Load, q
    <3>4. HandedFresh(HandOut(q, upstreamCache.upstream))
      BY <1>0, <3>1, <3>2, FreshAddress
    <3>. QED
      BY <2>1, <3>3, <3>4, OneRequestFresh DEF HandedFresh
  <2>3. ASSUME upstreamCache = None \/ ~(upstreamCache.ttl > 0) PROVE Fresh'
    <3>1. Become(r, Goto(q, "resolve")) \/ Become(r, Goto(q, "expired"))
      BY <1>1, <2>3 DEF Load, q
    <3>. QED BY <1>0, <2>1, <3>1, OnwardFresh, OneRequestFresh DEF HandedFresh
  <2>. QED BY <2>2, <2>3
<1>2. CASE DropExpired(r)
  <2>1. EntryFresh' /\ UNCHANGED <<service, moves, left>> /\ Become(r, Goto(q, "resolve"))
    BY <1>2 DEF DropExpired, EntryFresh, q
  <2>. QED BY <1>0, <2>1, OnwardFresh, OneRequestFresh DEF HandedFresh
<1>3. CASE resolveUpstream(r)
  <2>1. UNCHANGED <<upstreamCache, service, moves, left>> /\ EntryFresh'
    BY <1>0, <1>3 DEF resolveUpstream, EntryFresh
  <2>2. ASSUME service # None,
               Become(r, [Goto(request[r], "store") EXCEPT !.upstream = service])
        PROVE  Fresh'
    <3>. DEFINE n == [Goto(q, "store") EXCEPT !.upstream = service]
    <3>1. /\ Goto(q, "store") \in Request /\ Goto(q, "store").pc = "store"
          /\ Goto(q, "store").held = q.held /\ Goto(q, "store").route = q.route
      BY GotoType
    <3>2. /\ n \in Request /\ n.pc = "store" /\ n.upstream = service /\ n.wait \in Nat
          /\ n.held = q.held /\ n.route = q.route
      BY <1>0, <2>2, <3>1, CacheConstants DEF Request
    <3>3. Become(r, n) /\ left[service] = 0
      BY <2>2 DEF q, Fresh, ServiceIsThere
    <3>. HIDE DEF n
    <3>4. left[n.upstream] <= n.wait
      BY <3>2, <3>3
    <3>5. HeldFresh(n)
      BY <1>0, <3>2 DEF HeldFresh, Holds
    <3>. QED
      BY <2>1, <2>2, <3>2, <3>3, <3>4, <3>5, OneRequestFresh
  <2>3. ASSUME Become(r, Ended) PROVE Fresh'
    BY <2>1, <2>3, EndedFresh, OneRequestFresh DEF HandedFresh
  <2>. QED BY <1>3, <2>2, <2>3 DEF resolveUpstream
<1>4. CASE Store(r)
  <2>1. /\ q.upstream # None /\ q.upstream \in Upstreams
        /\ left[q.upstream] \in Nat /\ left[q.upstream] <= q.wait
        /\ q.wait \in Nat /\ q.wait <= ResolveMax
    BY <1>0, <1>4, CacheConstants DEF Store, Fresh, AnswersFresh, q, Request
  <2>2. left[q.upstream] + TTL <= Bound /\ left[q.upstream] < Bound
    BY <2>1, CacheConstants DEF Bound
  <2>3. /\ upstreamCache' = [upstream |-> q.upstream, ttl |-> TTL]
        /\ Become(r, HandOut(q, q.upstream))
        /\ UNCHANGED <<service, moves, left>>
    BY <1>4 DEF Store, q
  <2>4. EntryFresh'
    BY <2>2, <2>3 DEF EntryFresh, Bound
  <2>5. HandedFresh(HandOut(q, q.upstream))
    BY <1>0, <2>1, <2>2, FreshAddress
  <2>. QED
    BY <2>3, <2>4, <2>5, OneRequestFresh DEF HandedFresh
<1>5. CASE Use(r)
  <2>1. Become(r, Goto(q, "proxying")) /\ EntryFresh' /\ UNCHANGED <<service, moves, left>>
    BY <1>0, <1>5 DEF Use, q, EntryFresh
  <2>. QED BY <1>0, <2>1, OnwardFresh, OneRequestFresh DEF HandedFresh
<1>6. CASE Proxied(r)
  <2>1. /\ Become(r, Ended) \/ Become(r, Goto(q, "invalidate"))
        /\ EntryFresh' /\ UNCHANGED <<service, moves, left>>
    BY <1>0, <1>6 DEF Proxied, q, EntryFresh
  <2>2. CASE Become(r, Ended)
    BY <2>1, <2>2, EndedFresh, OneRequestFresh DEF HandedFresh
  <2>3. CASE Become(r, Goto(q, "invalidate"))
    BY <1>0, <2>1, <2>3, OnwardFresh, OneRequestFresh DEF HandedFresh
  <2>. QED BY <2>1, <2>2, <2>3
<1>7. CASE Invalidate(r)
  <2>1. Become(r, Ended) /\ EntryFresh' /\ UNCHANGED <<service, moves, left>>
    BY <1>7 DEF Invalidate, EntryFresh
  <2>. QED BY <2>1, EndedFresh, OneRequestFresh DEF HandedFresh
<1>8. CASE Contact(r)
  <2>1. /\ Become(r, Ended) \/ Become(r, Goto(q, "use"))
        /\ EntryFresh' /\ UNCHANGED <<service, moves, left>> /\ q.pc = "hold"
    BY <1>0, <1>8 DEF Contact, q, EntryFresh, At
  <2>2. CASE Become(r, Ended)
    BY <2>1, <2>2, EndedFresh, OneRequestFresh DEF HandedFresh
  <2>3. CASE Become(r, Goto(q, "use"))
    <3>1. /\ Goto(q, "use") \in Request /\ Goto(q, "use").pc = "use"
          /\ HeldFresh(Goto(q, "use"))
      BY <1>0, <2>1, GotoType DEF HeldFresh, Holds
    <3>. QED BY <2>1, <2>3, <3>1, OneRequestFresh
  <2>. QED BY <2>1, <2>2, <2>3
<1>. QED
  BY <1>1, <1>2, <1>3, <1>4, <1>5, <1>6, <1>7, <1>8 DEF Handle

\* The Service leaves an address it was at until now.
LEMMA MoveFresh ==
    ASSUME TypeOK, Fresh, NEW to \in Upstreams \cup {None}, Move(to)
    PROVE  Fresh'
<1>1. \A a \in Upstreams : left'[a] \in Nat /\ left[a] \in Nat /\ left'[a] <= left[a]
  BY CacheConstants DEF Move, TypeOK, Cap, Bound
<1>2. ServiceIsThere'
  BY DEF Move, ServiceIsThere
<1>3. EntryFresh'
  <2>. SUFFICES ASSUME upstreamCache # None, upstreamCache.ttl > 0
                PROVE  left'[upstreamCache.upstream] + upstreamCache.ttl <= Bound
    BY DEF Move, EntryFresh, Bound
  <2>1. upstreamCache.upstream \in Upstreams /\ upstreamCache.ttl \in Nat
    BY CacheConstants DEF TypeOK, UpstreamEntry
  <2>2. left[upstreamCache.upstream] + upstreamCache.ttl <= Bound
    BY DEF Fresh, EntryFresh
  <2>. QED BY <1>1, <2>1, <2>2, CacheConstants DEF Bound
<1>4. \A r \in Requests : request[r] # None =>
        /\ request[r].upstream \in Upstreams \cup {None} /\ request[r].wait \in Nat
        /\ request[r].held \in Nat
  BY CacheConstants DEF TypeOK, Request
<1>5. AnswersFresh'
  BY <1>1, <1>4 DEF Move, Fresh, AnswersFresh, At
<1>6. UpstreamsFresh'
  <2>. SUFFICES ASSUME NEW r \in Requests, request[r] # None PROVE HeldFresh(request[r])'
    BY DEF Move, UpstreamsFresh
  <2>1. HeldFresh(request[r]) /\ request'[r] = request[r] /\ Bound \in Nat
    BY CacheConstants DEF Fresh, UpstreamsFresh, Move, Bound
  <2>. QED BY <1>1, <1>4, <2>1 DEF HeldFresh, Holds
<1>. QED BY <1>2, <1>3, <1>5, <1>6 DEF Fresh

\* A tick takes one from the TTL and adds one to the wait and to the absence.
LEMMA TickFresh ==
    ASSUME TypeOK, Fresh, Tick
    PROVE  Fresh'
<1>1. \A a \in Upstreams : /\ left[a] \in Nat /\ left'[a] \in Nat
                           /\ left'[a] <= left[a] + 1
                           /\ a = service => left'[a] = left[a]
  BY CacheConstants DEF Tick, TypeOK, Cap, Bound
<1>2. ServiceIsThere'
  BY <1>1 DEF Tick, Fresh, ServiceIsThere, TypeOK
<1>3. EntryFresh'
  <2>. SUFFICES ASSUME upstreamCache' # None, upstreamCache'.ttl > 0
                PROVE  left'[upstreamCache'.upstream] + upstreamCache'.ttl <= Bound
    BY DEF EntryFresh, Cap
  <2>1. upstreamCache \in UpstreamEntry /\ upstreamCache # None /\ upstreamCache.ttl > 0
    BY CacheConstants DEF Tick, TypeOK, UpstreamEntry
  <2>2. /\ upstreamCache'.upstream = upstreamCache.upstream
        /\ upstreamCache'.ttl = upstreamCache.ttl - 1
    BY <2>1 DEF Tick, UpstreamEntry
  <2>3. upstreamCache.upstream \in Upstreams /\ upstreamCache.ttl \in Nat
    BY <2>1, CacheConstants DEF UpstreamEntry
  <2>4. left[upstreamCache.upstream] + upstreamCache.ttl <= Bound
    BY <2>1 DEF Fresh, EntryFresh
  <2>. QED BY <1>1, <2>2, <2>3, <2>4, CacheConstants DEF Bound
<1>4. AnswersFresh'
  <2>. SUFFICES ASSUME NEW r \in Requests, request'[r] # None, request'[r].pc = "store"
                PROVE  request'[r].upstream # None /\ left'[request'[r].upstream] <= request'[r].wait
    BY DEF AnswersFresh, At
  <2>1. At(r, "store") /\ request[r] \in Request
    BY DEF Tick, At, TypeOK
  <2>2. /\ request'[r].upstream = request[r].upstream
        /\ request'[r].wait = request[r].wait + 1
    BY <2>1 DEF Tick, Request
  <2>3. request[r].upstream \in Upstreams /\ request[r].wait \in Nat
    BY <2>1, CacheConstants DEF Fresh, AnswersFresh, Request
  <2>4. left[request[r].upstream] <= request[r].wait
    BY <2>1 DEF Fresh, AnswersFresh
  <2>. QED BY <1>1, <2>2, <2>3, <2>4, CacheConstants
<1>5. UpstreamsFresh'
  <2>. SUFFICES ASSUME NEW r \in Requests, request'[r] # None PROVE HeldFresh(request[r])'
    BY DEF UpstreamsFresh
  <2>1. /\ request[r] # None /\ request[r] \in Request /\ HeldFresh(request[r])
        /\ Bound \in Nat /\ request[r].held \in Nat /\ request[r].pc # "use"
    BY CacheConstants DEF Tick, Fresh, UpstreamsFresh, TypeOK, Bound, Request, At
  <2>2. CASE At(r, "hold") /\ request[r].held < MaxHold
    <3>1. request'[r] = [request[r] EXCEPT !.held = @ + 1]
      BY <2>2 DEF Tick, At
    <3>2. /\ request'[r].upstream = request[r].upstream /\ request'[r].pc = "hold"
          /\ request'[r].held = request[r].held + 1 /\ request'[r].route = "jeg"
      BY <2>1, <2>2, <3>1 DEF At, Request, HeldFresh
    <3>3. /\ request[r].upstream \in Upstreams /\ request[r].upstream # None
          /\ left[request[r].upstream] < Bound + request[r].held
      BY <2>1, <2>2 DEF At, Request, HeldFresh, Holds
    <3>4. left'[request[r].upstream] < Bound + (request[r].held + 1)
      BY <1>1, <2>1, <3>3
    <3>. QED BY <3>2, <3>3, <3>4 DEF HeldFresh
  <2>3. CASE At(r, "hold") /\ ~(request[r].held < MaxHold)
    <3>1. request'[r] = request[r]
      BY <2>3 DEF Tick, At
    <3>. QED BY <2>1, <2>3, <3>1 DEF HeldFresh
  <2>4. CASE At(r, "store")
    <3>1. request'[r] = [request[r] EXCEPT !.wait = @ + 1]
      BY <2>4 DEF Tick, At
    <3>2. /\ request'[r].pc = "store" /\ request'[r].held = request[r].held
          /\ request'[r].route = request[r].route
      BY <2>1, <2>4, <3>1 DEF At, Request
    <3>. QED BY <2>1, <3>2 DEF HeldFresh, Holds
  <2>5. CASE At(r, "ended")
    <3>1. request'[r] = None
      BY <2>5 DEF Tick, At
    <3>. QED BY <3>1
  <2>6. CASE ~At(r, "hold") /\ ~At(r, "store") /\ ~At(r, "ended")
    <3>1. request'[r] = request[r]
      BY <2>6 DEF Tick
    <3>. QED BY <2>1, <2>6, <3>1 DEF HeldFresh, Holds, At
  <2>. QED BY <2>2, <2>3, <2>4, <2>5, <2>6
<1>. QED BY <1>2, <1>3, <1>4, <1>5 DEF Fresh

LEMMA FreshStep == TypeOK /\ Fresh /\ [Next]_vars => Fresh'
<1>. SUFFICES ASSUME TypeOK, Fresh, [Next]_vars PROVE Fresh'
  OBVIOUS
<1>1. ASSUME NEW r \in Requests, NEW route \in {"workspace", "jeg"}, Start(r, route)
      PROVE  Fresh'
  <2>. DEFINE q == [pc |-> "load", route |-> route, upstream |-> None, wait |-> 0, held |-> 0]
  <2>1. /\ q \in Request /\ q.pc = "load" /\ Become(r, q) /\ HeldFresh(q)
        /\ EntryFresh' /\ UNCHANGED <<service, moves, left>>
    BY <1>1, StartType DEF Start, Fresh, EntryFresh, HeldFresh, Holds
  <2>. HIDE DEF q
  <2>. QED BY <2>1, OneRequestFresh
<1>2. CASE UNCHANGED vars
  BY <1>2 DEF vars, Fresh, ServiceIsThere, EntryFresh, AnswersFresh, UpstreamsFresh, HeldFresh,
              At
<1>. QED
  BY <1>1, <1>2, HandleFresh, MoveFresh, TickFresh DEF Next

----------------------------------------------------------------------------
LEMMA Inductive == (TypeOK /\ Fresh) /\ [Next]_vars => (TypeOK /\ Fresh)'
BY TypeStep, FreshStep DEF Fresh

\* The cache and the goroutines' locals hold what their declarations say; that nothing
\* but an upstream is stored rests on answers without a Service not being stored.
THEOREM TypeCorrect == Spec => []TypeOK
BY TypeInit, FreshInit, Inductive, PTL DEF Spec

\* LookupUpstream never hands out an address the workspace left TTL plus the timeout of
\* the Kubernetes client ago, or never had: what remains of an entry's TTL and how long
\* its address has been gone add up to no more (workspace.go:53-74, 178).  When it is
\* used, it has been gone for no more than that and the time the request has held it,
\* which on the workspace route is none.
THEOREM StalenessBounded == Spec => []StalenessBound
<1>1. Fresh => StalenessBound
  <2>. SUFFICES ASSUME UpstreamsFresh, NEW r \in Requests, At(r, "use")
                PROVE  LET q == request[r]
                       IN  /\ q.upstream # None
                           /\ q.route = "workspace" => left[q.upstream] < Bound
                           /\ q.held < MaxHold => left[q.upstream] < Bound + q.held
    BY DEF StalenessBound, Fresh
  <2>1. HeldFresh(request[r]) /\ request[r].pc \in Holds
    BY DEF UpstreamsFresh, At, Holds
  <2>2. 0 < MaxHold /\ Bound + 0 = Bound
    BY CacheConstants DEF Bound
  <2>. QED BY <2>1, <2>2 DEF HeldFresh
<1>. QED
  BY <1>1, TypeInit, FreshInit, Inductive, PTL DEF Spec
=============================================================================
