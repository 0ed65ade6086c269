--------------------------- MODULE StateGC_proofs ---------------------------
(* Proofs about StateGC, for any number of handlers, sessions, kernels and     *)
(* ticks: the types, the deadline by which the collector has evicted an entry,  *)
(* that it takes old entries only, and, for handlers that agree about a kernel, *)
(* that it finds every kernel id.                                             *)
EXTENDS StateGC, TLAPS

SessionPhase == {"sessions", "deleteSession"}
KernelPhase == {"kernels", "deleteAge", "deleteKnown"}

\* What the collector has left to visit, and that a collection takes no time.
Visiting ==
    /\ gc \in SessionPhase => todo \in SUBSET Sessions
    /\ gc \in KernelPhase => todo \in SUBSET Kernels
    /\ gc \in {"deleteSession", "deleteAge", "deleteKnown"} => cur \in todo
    /\ gc # "idle" => clock = 0

\* How far past MaxAge an entry may be: the time since the last collection or, during
\* one, a whole Interval until it is visited and nothing from then on.
SessionSlack(s) ==
    IF gc = "idle" THEN clock
    ELSE IF gc \in SessionPhase /\ s \in todo THEN Interval ELSE 0

KernelSlack(k) ==
    IF gc = "idle" THEN clock
    ELSE IF gc \in KernelPhase /\ (k \notin todo \/ (gc = "deleteKnown" /\ cur = k))
         THEN 0 ELSE Interval

SessionsSwept ==
    \A s \in Sessions : overrideAge[s] # None => overrideAge[s] <= MaxAge + SessionSlack(s)

KernelsSwept ==
    \A k \in Kernels : knownAge[k] # None => knownAge[k] <= MaxAge + KernelSlack(k)

Swept == Visiting /\ SessionsSwept /\ KernelsSwept

----------------------------------------------------------------------------
LEMMA TypeInit == Init => TypeOK
BY GCConstants DEF Init, TypeOK, Ages, Cap

\* Counting an age further keeps it an age.
LEMMA OlderIsAge ==
    ASSUME NEW age \in Ages \cup {None}
    PROVE  /\ Older(age) \in Ages \cup {None}
           /\ age # None => age \in Nat /\ Older(age) # None /\ Older(age) <= age + 1
           /\ age = None => Older(age) = None
BY GCConstants DEF Older, Ages, Cap

LEMMA TypeStep == TypeOK /\ [Next]_vars => TypeOK'
<1>. SUFFICES ASSUME TypeOK, [Next]_vars PROVE TypeOK'
  OBVIOUS
<1>. USE GCConstants
<1>0. 0 \in Ages
  BY DEF Ages, Cap
<1>1. ASSUME NEW s \in Sessions, setSessionKernelOverride(s) PROVE TypeOK'
  BY <1>0, <1>1 DEF setSessionKernelOverride, collector, TypeOK
<1>2. ASSUME NEW s \in Sessions, clearSessionKernelOverride(s) PROVE TypeOK'
  BY <1>2 DEF clearSessionKernelOverride, collector, TypeOK
<1>3. ASSUME NEW s \in Sessions, getSessionKernelOverride(s) PROVE TypeOK'
  BY <1>0, <1>3 DEF getSessionKernelOverride, maps, collector, TypeOK
<1>4. ASSUME NEW h \in Handlers, NEW k \in Kernels, rememberJEGKernelID(h, k) PROVE TypeOK'
  BY <1>4 DEF rememberJEGKernelID, collector, TypeOK, Operation
<1>5. ASSUME NEW h \in Handlers, NEW k \in Kernels, forgetJEGKernelID(h, k) PROVE TypeOK'
  BY <1>5 DEF forgetJEGKernelID, collector, TypeOK, Operation
<1>6. ASSUME NEW h \in Handlers, FinishAge(h) PROVE TypeOK'
  <2>1. pending[h] \in Operation
    BY <1>6 DEF FinishAge, TypeOK
  <2>. QED
    BY <1>0, <1>6, <2>1 DEF FinishAge, collector, TypeOK, Operation
<1>7. CASE GCStart
  BY <1>7 DEF GCStart, maps, TypeOK
<1>8. CASE GCReadSession
  BY <1>8 DEF GCReadSession, maps, TypeOK
<1>9. CASE GCDeleteSession
  BY <1>9 DEF GCDeleteSession, TypeOK
<1>10. CASE GCReadKernel
  BY <1>10 DEF GCReadKernel, maps, TypeOK
<1>11. CASE GCDeleteKernel
  BY <1>11 DEF GCDeleteKernel, TypeOK
<1>12. CASE Tick
  <2>1. \A s \in Sessions : Older(overrideAge[s]) \in Ages \cup {None}
    BY OlderIsAge DEF TypeOK
  <2>2. \A k \in Kernels : Older(knownAge[k]) \in Ages \cup {None}
    BY OlderIsAge DEF TypeOK
  <2>3. \A s \in Sessions : Older(idle[s]) \in Ages
    BY DEF TypeOK, Older, Ages, Cap
  <2>. QED
    BY <1>12, <2>1, <2>2, <2>3 DEF Tick, TypeOK
<1>13. CASE UNCHANGED vars
  BY <1>13 DEF vars, TypeOK
<1>. QED
  BY <1>1, <1>2, <1>3, <1>4, <1>5, <1>6, <1>7, <1>8, <1>9, <1>10, <1>11, <1>12, <1>13
     DEF Next, Handle, Collect

\* The maps and the collector's locals hold what their declarations say.
THEOREM TypeCorrect == Spec => []TypeOK
BY TypeInit, TypeStep, PTL DEF Spec

----------------------------------------------------------------------------
LEMMA SweptInit == Init => Swept
BY DEF Init, Swept, Visiting, SessionsSwept, KernelsSwept, SessionPhase, KernelPhase

\* A handler's step leaves the collector where it is and makes no entry older.
LEMMA FresherStaysSwept ==
    ASSUME TypeOK, Swept,
           UNCHANGED collector,
           \A s \in Sessions : overrideAge'[s] \in {overrideAge[s], 0, None},
           \A k \in Kernels : knownAge'[k] \in {knownAge[k], 0, None}
    PROVE  Swept'
<1>1. Visiting'
  BY DEF collector, Swept, Visiting
<1>2. \A s \in Sessions : SessionSlack(s)' = SessionSlack(s) /\ SessionSlack(s) \in Nat
  BY GCConstants DEF collector, SessionSlack, TypeOK
<1>3. \A k \in Kernels : KernelSlack(k)' = KernelSlack(k) /\ KernelSlack(k) \in Nat
  BY GCConstants DEF collector, KernelSlack, TypeOK
<1>4. SessionsSwept'
  BY <1>2, GCConstants DEF Swept, SessionsSwept
<1>5. KernelsSwept'
  BY <1>3, GCConstants DEF Swept, KernelsSwept
<1>. QED
  BY <1>1, <1>4, <1>5 DEF Swept

LEMMA HandlersKeepSwept == TypeOK /\ Swept /\ Handle => Swept'
<1>. SUFFICES ASSUME TypeOK, Swept, Handle PROVE Swept'
  OBVIOUS
<1>1. ASSUME NEW s \in Sessions, setSessionKernelOverride(s) PROVE Swept'
  BY <1>1, FresherStaysSwept DEF setSessionKernelOverride, TypeOK
<1>2. ASSUME NEW s \in Sessions, clearSessionKernelOverride(s) PROVE Swept'
  BY <1>2, FresherStaysSwept DEF clearSessionKernelOverride, TypeOK
<1>3. ASSUME NEW s \in Sessions, getSessionKernelOverride(s) PROVE Swept'
  BY <1>3, FresherStaysSwept DEF getSessionKernelOverride, maps
<1>4. ASSUME NEW h \in Handlers, NEW k \in Kernels, rememberJEGKernelID(h, k) PROVE Swept'
  BY <1>4, FresherStaysSwept DEF rememberJEGKernelID
<1>5. ASSUME NEW h \in Handlers, NEW k \in Kernels, forgetJEGKernelID(h, k) PROVE Swept'
  BY <1>5, FresherStaysSwept DEF forgetJEGKernelID
<1>6. ASSUME NEW h \in Handlers, FinishAge(h) PROVE Swept'
  BY <1>6, FresherStaysSwept DEF FinishAge, TypeOK
<1>. QED
  BY <1>1, <1>2, <1>3, <1>4, <1>5, <1>6 DEF Handle

LEMMA CollectorKeepsSwept == TypeOK /\ Swept /\ Collect => Swept'
<1>. SUFFICES ASSUME TypeOK, Swept, Collect PROVE Swept'
  OBVIOUS
<1>. USE GCConstants DEF Swept, SessionPhase, KernelPhase
<1>0. /\ \A s \in Sessions : overrideAge[s] # None => overrideAge[s] \in Nat
      /\ \A k \in Kernels : knownAge[k] # None => knownAge[k] \in Nat
  BY DEF TypeOK, Ages
<1>1. CASE GCStart
  <2>1. gc = "idle" /\ clock = Interval /\ gc' = "sessions" /\ todo' = Sessions /\ clock' = 0
    BY <1>1 DEF GCStart
  <2>2. overrideAge' = overrideAge /\ knownAge' = knownAge
    BY <1>1 DEF GCStart, maps
  <2>3. Visiting'
    BY <2>1 DEF Visiting
  <2>4. SessionsSwept'
    BY <1>0, <2>1, <2>2 DEF SessionsSwept, SessionSlack
  <2>5. KernelsSwept'
    BY <1>0, <2>1, <2>2 DEF KernelsSwept, KernelSlack
  <2>. QED BY <2>3, <2>4, <2>5
<1>2. CASE GCReadSession
  <2>1. Visiting'
    BY <1>2 DEF GCReadSession, Visiting
  <2>2. overrideAge' = overrideAge /\ knownAge' = knownAge
    BY <1>2 DEF GCReadSession, maps
  <2>3. SessionsSwept'
    BY <1>0, <1>2, <2>2 DEF GCReadSession, SessionsSwept, SessionSlack, Stale
  <2>4. KernelsSwept'
    BY <1>0, <1>2, <2>2 DEF GCReadSession, KernelsSwept, KernelSlack
  <2>. QED BY <2>1, <2>3, <2>4
<1>3. CASE GCDeleteSession
  <2>1. Visiting'
    BY <1>3 DEF GCDeleteSession, Visiting
  <2>2. \A s \in Sessions : overrideAge'[s] = IF s = cur THEN None ELSE overrideAge[s]
    BY <1>3 DEF GCDeleteSession, TypeOK
  <2>3. SessionsSwept'
    BY <1>0, <1>3, <2>2 DEF GCDeleteSession, SessionsSwept, SessionSlack
  <2>4. KernelsSwept'
    BY <1>0, <1>3 DEF GCDeleteSession, KernelsSwept, KernelSlack
  <2>. QED BY <2>1, <2>3, <2>4
<1>4. CASE GCReadKernel
  <2>1. Visiting'
    BY <1>4 DEF GCReadKernel, Visiting
  <2>2. overrideAge' = overrideAge /\ knownAge' = knownAge /\ clock' = clock /\ clock = 0
    BY <1>4 DEF GCReadKernel, maps, Visiting
  <2>3. SessionsSwept'
    BY <1>0, <1>4, <2>2 DEF GCReadKernel, SessionsSwept, SessionSlack
  <2>4. KernelsSwept'
    BY <1>0, <1>4, <2>2 DEF GCReadKernel, KernelsSwept, KernelSlack, Stale
  <2>. QED BY <2>1, <2>3, <2>4
<1>5. CASE GCDeleteKernel
  <2>1. Visiting'
    BY <1>5 DEF GCDeleteKernel, Visiting
  <2>2. SessionsSwept'
    BY <1>0, <1>5 DEF GCDeleteKernel, SessionsSwept, SessionSlack
  <2>3. CASE gc = "deleteAge"
    <3>1. gc' = "deleteKnown" /\ todo' = todo /\ cur' = cur
      BY <1>5, <2>3 DEF GCDeleteKernel
    <3>2. \A k \in Kernels : knownAge'[k] = IF k = cur THEN None ELSE knownAge[k]
      BY <1>5, <2>3 DEF GCDeleteKernel, TypeOK
    <3>3. KernelsSwept'
      BY <1>0, <2>3, <3>1, <3>2 DEF KernelsSwept, KernelSlack
    <3>. QED BY <2>1, <2>2, <3>3
  <2>4. CASE gc = "deleteKnown"
    <3>1. KernelsSwept'
      BY <1>0, <1>5, <2>4 DEF GCDeleteKernel, KernelsSwept, KernelSlack
    <3>. QED BY <2>1, <2>2, <3>1
  <2>. QED BY <1>5, <2>3, <2>4 DEF GCDeleteKernel
<1>. QED
  BY <1>1, <1>2, <1>3, <1>4, <1>5 DEF Collect

\* Between collections an entry ages no faster than the ticker's clock.
LEMMA TickKeepsSwept == TypeOK /\ Swept /\ Tick => Swept'
<1>. SUFFICES ASSUME TypeOK, Swept, Tick PROVE Swept'
  OBVIOUS
<1>1. gc = "idle" /\ gc' = "idle" /\ clock \in Nat /\ clock' = clock + 1
  BY GCConstants DEF Tick, TypeOK
<1>2. Visiting'
  BY <1>1 DEF Visiting, SessionPhase, KernelPhase
<1>3. SessionsSwept'
  <2>. SUFFICES ASSUME NEW s \in Sessions, overrideAge'[s] # None
                PROVE  overrideAge'[s] <= MaxAge + clock'
    BY <1>1 DEF SessionsSwept, SessionSlack
  <2>1. overrideAge'[s] = Older(overrideAge[s]) /\ overrideAge[s] \in Ages \cup {None}
    BY DEF Tick, TypeOK
  <2>2. overrideAge[s] # None /\ overrideAge[s] \in Nat /\ overrideAge'[s] <= overrideAge[s] + 1
    BY <2>1, OlderIsAge
  <2>3. overrideAge[s] <= MaxAge + clock
    BY <1>1, <2>2 DEF Swept, SessionsSwept, SessionSlack
  <2>4. overrideAge'[s] \in Nat
    BY <2>1, OlderIsAge DEF Ages
  <2>. QED BY <1>1, <2>2, <2>3, <2>4, GCConstants
<1>4. KernelsSwept'
  <2>. SUFFICES ASSUME NEW k \in Kernels, knownAge'[k] # None
                PROVE  knownAge'[k] <= MaxAge + clock'
    BY <1>1 DEF KernelsSwept, KernelSlack
  <2>1. knownAge'[k] = Older(knownAge[k]) /\ knownAge[k] \in Ages \cup {None}
    BY DEF Tick, TypeOK
  <2>2. knownAge[k] # None /\ knownAge[k] \in Nat /\ knownAge'[k] <= knownAge[k] + 1
    BY <2>1, OlderIsAge
  <2>3. knownAge[k] <= MaxAge + clock
    BY <1>1, <2>2 DEF Swept, KernelsSwept, KernelSlack
  <2>4. knownAge'[k] \in Nat
    BY <2>1, OlderIsAge DEF Ages
  <2>. QED BY <1>1, <2>2, <2>3, <2>4, GCConstants
<1>. QED
  BY <1>2, <1>3, <1>4 DEF Swept

LEMMA SweptStep == TypeOK /\ Swept /\ [Next]_vars => Swept'
<1>. SUFFICES ASSUME TypeOK, Swept, [Next]_vars PROVE Swept'
  OBVIOUS
<1>1. CASE UNCHANGED vars
  BY <1>1, FresherStaysSwept DEF vars, collector
<1>. QED
  BY <1>1, HandlersKeepSwept, CollectorKeepsSwept, TickKeepsSwept DEF Next

LEMMA SweptInTime == TypeOK /\ Swept => EvictionDeadline
BY GCConstants
   DEF TypeOK, Ages, Swept, SessionsSwept, KernelsSwept, SessionSlack, KernelSlack,
       EvictionDeadline

\* Whatever handlers do, no entry with a time outlives one period of the collector past
\* maxAge (jeg.go:719-763): an entry is at most MaxAge old when it has been visited, and
\* ages with the ticker's clock until the next collection.
THEOREM EvictedInTime == Spec => []EvictionDeadline
<1>1. Init => TypeOK /\ Swept
  BY TypeInit, SweptInit
<1>2. (TypeOK /\ Swept) /\ [Next]_vars => (TypeOK /\ Swept)'
  BY TypeStep, SweptStep
<1>. QED
  BY <1>1, <1>2, SweptInTime, PTL DEF Spec

----------------------------------------------------------------------------
\* A step that only renews or removes entries leaves the collector's prey evictable.
LEMMA RenewedIsEvictable ==
    ASSUME TypeOK, Visiting, EvictsOldOnly,
           UNCHANGED collector,
           \A s \in Sessions : overrideAge'[s] \in {overrideAge[s], 0, None},
           \A k \in Kernels : knownAge'[k] \in {knownAge[k], 0, None}
    PROVE  EvictsOldOnly'
<1>1. gc' = gc /\ cur' = cur
  BY DEF collector
<1>2. gc = "deleteSession" => cur \in Sessions
  BY DEF Visiting, SessionPhase
<1>3. gc \in {"deleteAge", "deleteKnown"} => cur \in Kernels
  BY DEF Visiting, KernelPhase
<1>. QED
  BY <1>1, <1>2, <1>3 DEF EvictsOldOnly, Evictable

LEMMA EvictsStep == TypeOK /\ Visiting /\ EvictsOldOnly /\ [Next]_vars => EvictsOldOnly'
<1>. SUFFICES ASSUME TypeOK, Visiting, EvictsOldOnly, [Next]_vars PROVE EvictsOldOnly'
  OBVIOUS
<1>1. ASSUME NEW s \in Sessions,
             \/ setSessionKernelOverride(s)
             \/ clearSessionKernelOverride(s)
             \/ getSessionKernelOverride(s)
      PROVE  EvictsOldOnly'
  BY <1>1, RenewedIsEvictable
     DEF setSessionKernelOverride, clearSessionKernelOverride, getSessionKernelOverride,
         maps, TypeOK
<1>2. ASSUME NEW h \in Handlers, NEW k \in Kernels,
             rememberJEGKernelID(h, k) \/ forgetJEGKernelID(h, k)
      PROVE  EvictsOldOnly'
  BY <1>2, RenewedIsEvictable DEF rememberJEGKernelID, forgetJEGKernelID
<1>3. ASSUME NEW h \in Handlers, FinishAge(h) PROVE EvictsOldOnly'
  BY <1>3, RenewedIsEvictable DEF FinishAge, TypeOK
<1>4. CASE GCStart \/ Tick
  <2>1. gc' \in {"idle", "sessions"}
    BY <1>4 DEF GCStart, Tick
  <2>. QED BY <2>1 DEF EvictsOldOnly
<1>5. CASE GCReadSession
  <2>1. \/ gc' \in {"sessions", "kernels"}
        \/ gc' = "deleteSession" /\ Stale(overrideAge[cur']) /\ overrideAge' = overrideAge
    BY <1>5 DEF GCReadSession, maps
  <2>. QED BY <2>1 DEF EvictsOldOnly, Evictable, Stale
<1>6. CASE GCReadKernel
  <2>1. \/ gc' \in {"idle", "kernels"}
        \/ gc' = "deleteAge" /\ Stale(knownAge[cur']) /\ knownAge' = knownAge
    BY <1>6 DEF GCReadKernel, maps
  <2>. QED BY <2>1 DEF EvictsOldOnly, Evictable, Stale
<1>7. CASE GCDeleteSession
  <2>1. gc' = "sessions"
    BY <1>7 DEF GCDeleteSession
  <2>. QED BY <2>1 DEF EvictsOldOnly
<1>8. CASE GCDeleteKernel
  <2>1. \/ gc' = "kernels"
        \/ gc = "deleteAge" /\ gc' = "deleteKnown" /\ knownAge'[cur'] = None
    BY <1>8 DEF GCDeleteKernel, Visiting, KernelPhase, TypeOK
  <2>. QED BY <2>1 DEF EvictsOldOnly
<1>9. CASE UNCHANGED vars
  BY <1>9, RenewedIsEvictable DEF vars, collector
<1>. QED
  BY <1>1, <1>2, <1>3, <1>4, <1>5, <1>6, <1>7, <1>8, <1>9 DEF Next, Handle, Collect

\* Whatever handlers do between the collector's reading an entry and its deleting it by
\* key (jeg.go:738-751), it loses nothing but what was written in between.
THEOREM EvictsOldOnlyHolds == Spec => []EvictsOldOnly
<1>1. Init => TypeOK /\ Swept /\ EvictsOldOnly
  BY TypeInit, SweptInit DEF Init, EvictsOldOnly
<1>2. (TypeOK /\ Swept /\ EvictsOldOnly) /\ [Next]_vars => (TypeOK /\ Swept /\ EvictsOldOnly)'
  BY TypeStep, SweptStep, EvictsStep DEF Swept
<1>. QED
  BY <1>1, <1>2, PTL DEF Spec

----------------------------------------------------------------------------
(* Handlers that agree about a kernel.                                       *)

\* No handler remembers an id while another forgets it.
Agreed == \A h1, h2 \in Handlers :
    pending[h1] # None /\ pending[h2] # None /\ pending[h1].id = pending[h2].id =>
        pending[h1].op = pending[h2].op

\* Between its two steps, forgetting leaves the id unknown.
ForgettingIsUnknown ==
    \A h \in Handlers : pending[h] # None /\ pending[h].op = "forget" =>
        pending[h].id \notin known

Findable == NoImmortalKernel /\ ForgettingIsUnknown

LEMMA FindableStep ==
    ASSUME Agreed, Agreed', TypeOK, Visiting, Findable, [Next]_vars
    PROVE  Findable'
<1>. USE GCConstants DEF Findable
<1>1. CASE Tick
  <2>1. \A k \in Kernels : knownAge[k] # None => knownAge'[k] # None
    BY <1>1, OlderIsAge DEF Tick, TypeOK
  <2>. QED
    BY <1>1, <2>1 DEF Tick, NoImmortalKernel, ForgettingIsUnknown, TypeOK
<1>2. CASE Collect
  <2>1. CASE GCDeleteKernel /\ gc = "deleteAge"
    <3>1. /\ known' = known /\ pending' = pending
          /\ gc' = "deleteKnown" /\ cur' = cur
      BY <2>1 DEF GCDeleteKernel
    <3>2. \A k \in Kernels : k # cur => knownAge'[k] = knownAge[k]
      BY <2>1 DEF GCDeleteKernel, TypeOK
    <3>. QED
      BY <2>1, <3>1, <3>2 DEF NoImmortalKernel, ForgettingIsUnknown, TypeOK
  <2>2. CASE GCDeleteKernel /\ gc = "deleteKnown"
    BY <2>2 DEF GCDeleteKernel, NoImmortalKernel, ForgettingIsUnknown
  <2>3. CASE GCStart \/ GCReadSession \/ GCDeleteSession \/ GCReadKernel
    <3>1. known' = known /\ knownAge' = knownAge /\ pending' = pending /\ gc # "deleteKnown"
      BY <2>3 DEF GCStart, GCReadSession, GCDeleteSession, GCReadKernel, maps
    <3>. QED
      BY <3>1 DEF NoImmortalKernel, ForgettingIsUnknown
  <2>. QED
    BY <1>2, <2>1, <2>2, <2>3 DEF Collect, GCDeleteKernel
<1>3. ASSUME NEW h \in Handlers, NEW k \in Kernels,
             rememberJEGKernelID(h, k) \/ forgetJEGKernelID(h, k)
      PROVE  Findable'
  <2>1. pending[h] = None /\ \A i \in Handlers : i # h => pending'[i] = pending[i]
    BY <1>3 DEF rememberJEGKernelID, forgetJEGKernelID, TypeOK
  <2>2. /\ pending'[h] # None /\ pending'[h].id = k
        /\ pending'[h].op = "forget" => k \notin known'
    <3>1. CASE rememberJEGKernelID(h, k)
      <4>1. pending'[h] = [op |-> "remember", id |-> k]
        BY <3>1 DEF rememberJEGKernelID, TypeOK
      <4>. QED BY <4>1 DEF Operation
    <3>2. CASE forgetJEGKernelID(h, k)
      <4>1. pending'[h] = [op |-> "forget", id |-> k] /\ k \notin known'
        BY <3>2 DEF forgetJEGKernelID, TypeOK
      <4>. QED BY <4>1 DEF Operation
    <3>. QED BY <1>3, <3>1, <3>2
  <2>3. \A i \in known' : i = k \/ i \in known
    BY <1>3 DEF rememberJEGKernelID, forgetJEGKernelID
  <2>4. knownAge' = knownAge /\ gc' = gc /\ cur' = cur
    BY <1>3 DEF rememberJEGKernelID, forgetJEGKernelID, collector
  <2>5. NoImmortalKernel'
    BY <2>1, <2>2, <2>3, <2>4 DEF NoImmortalKernel
  <2>6. ASSUME NEW i \in Handlers, pending'[i] # None, pending'[i].op = "forget"
        PROVE  pending'[i].id \notin known'
    <3>1. CASE pending'[i].id = k
      BY <2>2, <2>6, <3>1 DEF Agreed
    <3>2. CASE pending'[i].id # k
      BY <2>1, <2>2, <2>3, <2>6, <3>2 DEF ForgettingIsUnknown
    <3>. QED BY <3>1, <3>2
  <2>. QED
    BY <2>5, <2>6 DEF ForgettingIsUnknown
<1>4. ASSUME NEW h \in Handlers, FinishAge(h) PROVE Findable'
  <2>1. /\ pending[h] \in Operation /\ pending[h] # None /\ pending'[h] = None
        /\ \A i \in Handlers : i # h => pending'[i] = pending[i]
    BY <1>4 DEF FinishAge, TypeOK
  <2>2. known' = known /\ gc' = gc /\ cur' = cur
    BY <1>4 DEF FinishAge, collector
  <2>3. ASSUME NEW k \in known
        PROVE  \/ knownAge'[k] # None
               \/ \E i \in Handlers : pending'[i] # None /\ pending'[i].id = k
               \/ gc = "deleteKnown" /\ cur = k
    <3>1. k \in Kernels
      BY DEF TypeOK
    <3>2. CASE k = pending[h].id
      <4>1. pending[h].op = "remember"
        BY <2>1, <3>2 DEF ForgettingIsUnknown, Operation
      <4>. QED
        BY <1>4, <3>1, <3>2, <4>1 DEF FinishAge, TypeOK
    <3>3. CASE k # pending[h].id
      <4>1. knownAge'[k] = knownAge[k]
        BY <1>4, <3>1, <3>3 DEF FinishAge, TypeOK
      <4>. QED
        BY <2>1, <3>3, <4>1 DEF NoImmortalKernel
    <3>. QED BY <3>2, <3>3
  <2>4. NoImmortalKernel'
    BY <2>2, <2>3 DEF NoImmortalKernel
  <2>5. ForgettingIsUnknown'
    BY <2>1, <2>2 DEF ForgettingIsUnknown
  <2>. QED
    BY <2>4, <2>5
<1>5. ASSUME NEW s \in Sessions,
             \/ setSessionKernelOverride(s)
             \/ clearSessionKernelOverride(s)
             \/ getSessionKernelOverride(s)
      PROVE  Findable'
  BY <1>5 DEF setSessionKernelOverride, clearSessionKernelOverride, getSessionKernelOverride,
              maps, collector, NoImmortalKernel, ForgettingIsUnknown
<1>6. CASE UNCHANGED vars
  BY <1>6 DEF vars, NoImmortalKernel, ForgettingIsUnknown
<1>. QED
  BY <1>1, <1>2, <1>3, <1>4, <1>5, <1>6 DEF Next, Handle

\* As long as no handler remembers a kernel while another forgets it, the collector can
\* find every known kernel id, with any number of handlers.  The order in which it deletes
\* from the two maps (jeg.go:750-751) is why it harms nothing itself.
THEOREM AgreedKernelsAreFound == Spec /\ []Agreed => []NoImmortalKernel
<1>1. Init => TypeOK /\ Swept /\ Findable
  BY TypeInit, SweptInit DEF Init, Findable, NoImmortalKernel, ForgettingIsUnknown
<1>2. (TypeOK /\ Swept /\ Findable) /\ Agreed /\ Agreed' /\ [Next]_vars
          => (TypeOK /\ Swept /\ Findable)'
  BY TypeStep, SweptStep, FindableStep DEF Swept
<1>3. Findable => NoImmortalKernel
  BY DEF Findable
<1>. QED
  BY <1>1, <1>2, <1>3, PTL DEF Spec

\* One handler at a time agrees with itself, as in the run gc.
THEOREM SerialHandlersLeaveNoImmortalKernel ==
    ASSUME \A h1, h2 \in Handlers : h1 = h2
    PROVE  Spec => []NoImmortalKernel
<1>1. Agreed
  BY DEF Agreed
<1>. QED
  BY <1>1, AgreedKernelsAreFound, PTL
=============================================================================
