------------------------------ MODULE StateGC ------------------------------
(***************************************************************************)
(* The background garbage collector of the in-memory state (StartStateGC in   *)
(* jeg/jeg.go) next to the handlers that write that state.                    *)
(*                                                                          *)
(* Known kernel ids are kept in two maps, knownJEGKernelIDs and               *)
(* knownJEGKernelIDsAge, which a handler updates one after the other and the   *)
(* collector deletes one after the other; overrides carry their UpdatedAt.     *)
(* Times are kept as ages in ticks.  A tick is long next to a step of the      *)
(* program: none passes while an operation or a collection is under way.      *)
(***************************************************************************)
EXTENDS Integers

CONSTANTS
    Handlers,  \* goroutines that write the maps
    Sessions,  \* keys of sessionKernelOverrides
    Kernels,   \* kernel ids
    Interval,  \* ticks between two collections
    MaxAge,    \* ticks after which an entry is stale
    None

\* A handler's update of the two maps for one kernel id.
Operation == [op : {"remember", "forget"}, id : Kernels]

ASSUME GCConstants ==
    /\ Interval \in Nat \ {0}
    /\ MaxAge \in Nat \ {0}
    /\ None \notin Sessions \cup Kernels \cup Nat \cup Operation

VARIABLES
    overrideAge,  \* sessionKernelOverrides: ticks since UpdatedAt, or None
    known,        \* knownJEGKernelIDs
    knownAge,     \* knownJEGKernelIDsAge: ticks since last observed, or None
    pending,      \* handler -> the second half of its operation, or None
    gc,           \* the collector: what it does next
    todo,         \* keys its Range has not visited
    cur,          \* the key it is about to delete
    clock,        \* ticks since the collector last woke up
    idle          \* ghost: ticks since the session was last polled

maps == <<overrideAge, known, knownAge>>
collector == <<gc, todo, cur, clock>>
vars == <<overrideAge, known, knownAge, pending, gc, todo, cur, clock, idle>>

\* No age is counted further than this.
Cap == MaxAge + Interval + 1
Ages == 0..Cap

\* Mutant of the next definition: the cutoff is not in the past.
StaleAtOnce(age) == age # None

Stale(age) == age # None /\ age > MaxAge

----------------------------------------------------------------------------
(* What handlers do, one sync.Map call per step.                             *)

setSessionKernelOverride(s) ==
    /\ overrideAge' = [overrideAge EXCEPT ![s] = 0]
    /\ idle' = [idle EXCEPT ![s] = 0]
    /\ UNCHANGED <<known, knownAge, pending, collector>>

clearSessionKernelOverride(s) ==
    /\ overrideAge' = [overrideAge EXCEPT ![s] = None]
    /\ UNCHANGED <<known, knownAge, pending, collector, idle>>

\* A GET of the session reads the override and writes nothing.
getSessionKernelOverride(s) ==
    /\ overrideAge[s] # None
    /\ idle' = [idle EXCEPT ![s] = 0]
    /\ UNCHANGED <<maps, pending, collector>>

\* First the id, ...
rememberJEGKernelID(h, k) ==
    /\ pending[h] = None
    /\ known' = known \cup {k}
    /\ pending' = [pending EXCEPT ![h] = [op |-> "remember", id |-> k]]
    /\ UNCHANGED <<overrideAge, knownAge, collector, idle>>

forgetJEGKernelID(h, k) ==
    /\ pending[h] = None
    /\ known' = known \ {k}
    /\ pending' = [pending EXCEPT ![h] = [op |-> "forget", id |-> k]]
    /\ UNCHANGED <<overrideAge, knownAge, collector, idle>>

\* ... then its time.
FinishAge(h) ==
    /\ pending[h] # None
    /\ knownAge' = [knownAge EXCEPT ![pending[h].id] =
                        IF pending[h].op = "remember" THEN 0 ELSE None]
    /\ pending' = [pending EXCEPT ![h] = None]
    /\ UNCHANGED <<overrideAge, known, collector, idle>>

----------------------------------------------------------------------------
(* StartStateGC: a collection at every tick of its ticker.                   *)

GCStart ==
    /\ gc = "idle" /\ clock = Interval
    /\ gc' = "sessions" /\ todo' = Sessions /\ clock' = 0
    /\ UNCHANGED <<maps, pending, cur, idle>>

\* Mutant of the next action: the Range ends at the first stale session.
StopsAtFirstStale ==
    /\ gc = "sessions"
    /\ \/ /\ todo = {}
          /\ gc' = "kernels" /\ todo' = Kernels /\ UNCHANGED cur
       \/ \E s \in todo :
            IF Stale(overrideAge[s])
            THEN gc' = "deleteSession" /\ cur' = s /\ todo' = {s}
            ELSE todo' = todo \ {s} /\ UNCHANGED <<gc, cur>>
    /\ UNCHANGED <<maps, pending, clock, idle>>

\* Read one session's entry, and delete by key if it was stale.
GCReadSession ==
    /\ gc = "sessions"
    /\ \/ /\ todo = {}
          /\ gc' = "kernels" /\ todo' = Kernels /\ UNCHANGED cur
       \/ \E s \in todo :
            IF Stale(overrideAge[s])
            THEN gc' = "deleteSession" /\ cur' = s /\ UNCHANGED todo
            ELSE todo' = todo \ {s} /\ UNCHANGED <<gc, cur>>
    /\ UNCHANGED <<maps, pending, clock, idle>>

GCDeleteSession ==
    /\ gc = "deleteSession"
    /\ overrideAge' = [overrideAge EXCEPT ![cur] = None]
    /\ gc' = "sessions" /\ todo' = todo \ {cur}
    /\ UNCHANGED <<known, knownAge, pending, cur, clock, idle>>

\* Read one kernel id's time, and delete the time, then the id, if it was stale.
GCReadKernel ==
    /\ gc = "kernels"
    /\ \/ /\ todo = {}
          /\ gc' = "idle" /\ UNCHANGED <<todo, cur>>
       \/ \E k \in todo :
            IF Stale(knownAge[k])
            THEN gc' = "deleteAge" /\ cur' = k /\ UNCHANGED todo
            ELSE todo' = todo \ {k} /\ UNCHANGED <<gc, cur>>
    /\ UNCHANGED <<maps, pending, clock, idle>>

\* Mutant of the next action: the id first, then its time.
DeletesIdFirst ==
    \/ /\ gc = "deleteAge"
       /\ known' = known \ {cur}
       /\ gc' = "deleteKnown"
       /\ UNCHANGED <<overrideAge, knownAge, pending, todo, cur, clock, idle>>
    \/ /\ gc = "deleteKnown"
       /\ knownAge' = [knownAge EXCEPT ![cur] = None]
       /\ gc' = "kernels" /\ todo' = todo \ {cur}
       /\ UNCHANGED <<overrideAge, known, pending, cur, clock, idle>>

\* Mutant of the next action: the time is deleted, the id is left.
LeavesId ==
    /\ gc = "deleteAge"
    /\ knownAge' = [knownAge EXCEPT ![cur] = None]
    /\ gc' = "kernels" /\ todo' = todo \ {cur}
    /\ UNCHANGED <<overrideAge, known, pending, cur, clock, idle>>

GCDeleteKernel ==
    \/ /\ gc = "deleteAge"
       /\ knownAge' = [knownAge EXCEPT ![cur] = None]
       /\ gc' = "deleteKnown"
       /\ UNCHANGED <<overrideAge, known, pending, todo, cur, clock, idle>>
    \/ /\ gc = "deleteKnown"
       /\ known' = known \ {cur}
       /\ gc' = "kernels" /\ todo' = todo \ {cur}
       /\ UNCHANGED <<overrideAge, knownAge, pending, cur, clock, idle>>

Collect == GCStart \/ GCReadSession \/ GCDeleteSession \/ GCReadKernel \/ GCDeleteKernel

----------------------------------------------------------------------------
Older(age) == IF age = None \/ age = Cap THEN age ELSE age + 1

\* Mutant of the next action: the ticker never fires.
CountsOn ==
    /\ gc = "idle"
    /\ \A h \in Handlers : pending[h] = None
    /\ clock' = clock + 1
    /\ overrideAge' = [s \in Sessions |-> Older(overrideAge[s])]
    /\ knownAge' = [k \in Kernels |-> Older(knownAge[k])]
    /\ idle' = [s \in Sessions |-> Older(idle[s])]
    /\ UNCHANGED <<known, pending, gc, todo, cur>>

\* Time passes between operations and collections, until the ticker fires.
Tick ==
    /\ gc = "idle" /\ clock < Interval
    /\ \A h \in Handlers : pending[h] = None
    /\ clock' = clock + 1
    /\ overrideAge' = [s \in Sessions |-> Older(overrideAge[s])]
    /\ knownAge' = [k \in Kernels |-> Older(knownAge[k])]
    /\ idle' = [s \in Sessions |-> Older(idle[s])]
    /\ UNCHANGED <<known, pending, gc, todo, cur>>

Init ==
    /\ overrideAge = [s \in Sessions |-> None]
    /\ known = {}
    /\ knownAge = [k \in Kernels |-> None]
    /\ pending = [h \in Handlers |-> None]
    /\ gc = "idle" /\ todo = {} /\ cur = None /\ clock = 0
    /\ idle = [s \in Sessions |-> 0]

Handle ==
    \/ \E s \in Sessions :
         \/ setSessionKernelOverride(s)
         \/ clearSessionKernelOverride(s)
         \/ getSessionKernelOverride(s)
    \/ \E h \in Handlers :
         \/ FinishAge(h)
         \/ \E k \in Kernels : rememberJEGKernelID(h, k) \/ forgetJEGKernelID(h, k)

Next == Handle \/ Collect \/ Tick

Spec == Init /\ [][Next]_vars

\* The collector runs on and an operation begun is finished.  Time passes however many
\* operations there are: infinitely many of them take for ever, hence the SF.
FairSpec ==
    /\ Spec
    /\ WF_vars(Collect) /\ SF_vars(Tick)
    /\ \A h \in Handlers : WF_vars(FinishAge(h))

----------------------------------------------------------------------------
TypeOK ==
    /\ overrideAge \in [Sessions -> Ages \cup {None}]
    /\ known \subseteq Kernels
    /\ knownAge \in [Kernels -> Ages \cup {None}]
    /\ pending \in [Handlers -> Operation \cup {None}]
    /\ gc \in {"idle", "sessions", "deleteSession", "kernels", "deleteAge", "deleteKnown"}
    /\ todo \subseteq Sessions \/ todo \subseteq Kernels
    /\ cur \in Sessions \cup Kernels \cup {None}
    /\ clock \in 0..Interval
    /\ idle \in [Sessions -> Ages]

\* No override and no time of a kernel id outlives maxAge by more than one period of the
\* collector, whatever handlers do meanwhile: what is not stale yet at one collection is
\* met again at the next (jeg.go:732-735).  The comment at jeg.go:729 ("a kernel orphaned
\* at midnight is cleaned up by 4am at the latest") leaves that period out.
EvictionDeadline ==
    /\ \A s \in Sessions : overrideAge[s] # None => overrideAge[s] <= MaxAge + Interval
    /\ \A k \in Kernels : knownAge[k] # None => knownAge[k] <= MaxAge + Interval

\* The collector deletes by key what it read before (jeg.go:738-751): "evicted when
\* UpdatedAt is older than maxAge" (jeg.go:725).  It takes a newer entry only if a handler
\* wrote it since the collection began; whatever else it takes is gone already or has been
\* stale all along.
Evictable(age) == age \in {None, 0} \/ age > MaxAge

EvictsOldOnly ==
    /\ gc = "deleteSession" => Evictable(overrideAge[cur])
    /\ gc = "deleteAge" => Evictable(knownAge[cur])
    /\ gc = "deleteKnown" => knownAge[cur] \in {None, 0}

\* A known id that nobody is working on has a time, so the collector, which finds ids
\* by their times, can find it.
NoImmortalKernel ==
    \A k \in known :
        \/ knownAge[k] # None
        \/ \E h \in Handlers : pending[h] # None /\ pending[h].id = k
        \/ gc = "deleteKnown" /\ cur = k

\* When handlers stop, the maps drain: what the collector is there for
\* (jeg.go:719-727).
Observe == \E h \in Handlers, k \in Kernels : rememberJEGKernelID(h, k)
Rebind == \E s \in Sessions : setSessionKernelOverride(s)
Drains ==
    <>[][~(Observe \/ Rebind)]_vars =>
        <>[](known = {} /\ \A s \in Sessions : overrideAge[s] = None)

\* The override of a session that is polled stays, "so polling GET /api/sessions does
\* not revert the client back to local kernels" (jeg.go:155-156): the collector picks
\* only sessions nobody polled for maxAge.
InUseBindingKept ==
    [][gc = "sessions" /\ gc' = "deleteSession" => idle[cur'] > MaxAge]_vars
=============================================================================
