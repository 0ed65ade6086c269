---------------------------- MODULE JegSessions ----------------------------
(***************************************************************************)
(* The /api/sessions routes of the ghost gateway (jeg/proxy.go) over the    *)
(* in-memory state they share (jeg/jeg.go), for one user.                   *)
(*                                                                          *)
(* JEG (the remote kernel gateway) has no session API, so the proxy keeps   *)
(* a map from a notebook session to the JEG kernel it is bound to, and      *)
(* answers for the session itself while that kernel runs.  Sessions on      *)
(* local kernels live in the user's micro-container.  Every HTTP request    *)
(* runs in a goroutine of its own; a handler takes one step of this module  *)
(* per access to a sync.Map, per call to JEG and per call to the container, *)
(* so steps of several handlers, of the state GC and of the outside world   *)
(* interleave between them.                                                 *)
(***************************************************************************)

CONSTANTS
    Requests,    \* handler goroutines that may run at the same time
    Sessions,    \* session ids
    Kernels,     \* ids of the user's JEG kernels
    Specs,       \* kernel spec names
    SpecOf,      \* the spec each JEG kernel runs
    LocalSpecs,  \* the specs the container itself offers
    Paths,       \* notebook paths, the empty one included
    NoPath,      \* the empty path
    Calls,       \* the requests clients may send
    Faults,      \* what may go wrong: see FaultKinds
    None         \* absent value

Ops == {"get", "list", "post", "patch", "delete"}

FaultKinds == {"jeg",        \* a kernel list call to JEG fails or times out
               "container",  \* a call to the container fails, with or without effect
               "workspace",  \* the workspace lookup soft-fails
               "gc",         \* an entry is untouched for longer than maxAge
               "restart"}    \* the proxy process restarts

Call == [op : Ops, sid : Sessions, kid : Kernels \cup {None},
         spec : Specs \cup {None}, path : Paths \cup {None}]

\* A sessionKernelOverride: the path stands for the metadata it carries.
Override == [kid : Kernels, path : Paths]

\* A session as a client sees it; kid is None on a local kernel.
Entry == [sid : Sessions, kid : Kernels \cup {None}, path : Paths]

ASSUME ConstantsOK ==
    /\ SpecOf \in [Kernels -> Specs]
    /\ LocalSpecs \subseteq Specs
    /\ NoPath \in Paths
    /\ Calls \subseteq Call
    /\ Faults \subseteq FaultKinds
    /\ None \notin Sessions \cup Kernels \cup Specs \cup Paths

VARIABLES
    sessionKernelOverrides,  \* session -> Override, or None
    knownJEGKernelIDs,       \* kernel ids seen at JEG and not yet forgotten
    kernels,                 \* JEG: "unborn", "running" or "dead"
    local,                   \* container: session -> its path, or None
    used,                    \* session ids already given out
    handler                  \* request -> the locals of its handler, or None

vars == <<sessionKernelOverrides, knownJEGKernelIDs, kernels, local, used, handler>>

Labels == {"GetLoad", "GetJeg", "GetClear", "GetContainer",
           "ListJeg", "ListContainer", "ListMerge", "ListMergeClear",
           "ListRange", "ListRangeClear",
           "PostSpec", "PostLocal", "PostDefault",
           "Find", "Known", "Own", "Remember", "Name", "Bind",
           "PatchLoad", "PatchFetch", "PatchTouch", "PatchStore",
           "PatchForward", "PatchRelease", "PatchSpec", "PatchDrop", "PatchCreate",
           "DeleteClear", "DeleteContainer", "reply"}

\* The locals of a handler.  The last three are ghosts: the kernels dead and the
\* sessions there were when the request arrived, and whether the container has told
\* the handler all it asked of the sessions it has and of what it did to them.
Locals == [pc : Labels, op : Ops, sid : Sessions, kid : Kernels \cup {None},
           spec : Specs \cup {None}, path : Paths \cup {None}, micro : BOOLEAN,
           meta : Paths, ov : Override \cup {None}, snap : SUBSET Kernels,
           cont : SUBSET Entry, todo : SUBSET Sessions, cur : Sessions \cup {None},
           out : SUBSET Entry, status : {"none", "ok", "missing", "failed"},
           gone : SUBSET Kernels, was : [Sessions -> Entry \cup {None}],
           told : BOOLEAN]

ASSUME NoneIsNoRecord == None \notin Override \cup Entry \cup Locals

NeedsOverride == {"GetJeg", "PatchStore"}
NeedsKernel == {"Known", "Own", "Remember", "Name", "Bind"}
NeedsCurrent == {"ListMergeClear", "ListRangeClear"}

\* A handler has read what its next step uses.
Handler == {h \in Locals : /\ h.pc \in NeedsOverride => h.ov # None
                           /\ h.pc \in NeedsKernel => h.kid # None
                           /\ h.pc \in NeedsCurrent => h.cur # None}

----------------------------------------------------------------------------
(* The world outside and the shared maps.                                   *)
(*                                                                          *)
(* ImpatientList, ForgetsOmittedPath, IgnoresOmission, TrustsKernelID,        *)
(* TrustsOverride, KeepsDead and IgnoresSuccess are mutants: nothing uses      *)
(* them; each stands in for the definition after it to see that a property    *)
(* notices.                                                                  *)

Running == {k \in Kernels : kernels[k] = "running"}
Dead == {k \in Kernels : kernels[k] = "dead"}
Launched == Running \cup Dead

\* The possible results of listing the user's kernels at JEG: any error or
\* timeout comes back as the empty list.
ImpatientList == {Running, {}}
listJEGKernels == {Running} \cup (IF "jeg" \in Faults THEN {{}} ELSE {})

remembered(ks) == knownJEGKernelIDs' = knownJEGKernelIDs \cup ks

setSessionKernelOverride(s, k, p) ==
    sessionKernelOverrides' =
        [sessionKernelOverrides EXCEPT ![s] = [kid |-> k, path |-> p]]

clearSessionKernelOverride(s) ==
    sessionKernelOverrides' = [sessionKernelOverrides EXCEPT ![s] = None]

\* Whether the container is seen to offer a spec; a failed fetch reads as no.
isLocalContainerSpec(spec) ==
    {spec \in LocalSpecs} \cup (IF "container" \in Faults THEN {FALSE} ELSE {})

buildSessionCompatResponse(s, ov) == [sid |-> s, kid |-> ov.kid, path |-> ov.path]

LocalEntry(s) == [sid |-> s, kid |-> None, path |-> local[s]]

\* The session a client should see: an override wins over the local session.
View(s) == IF sessionKernelOverrides[s] # None
           THEN buildSessionCompatResponse(s, sessionKernelOverrides[s])
           ELSE IF local[s] # None THEN LocalEntry(s) ELSE None

\* A client that omits the path of a POST sends "", one that omits it in a PATCH
\* keeps the one there is.
ForgetsOmittedPath(current, path) == IF path = None THEN NoPath ELSE path
IgnoresOmission(current, path) == path
applySessionMetadataPatch(current, path) == IF path = None THEN current ELSE path

----------------------------------------------------------------------------
(* Control of a handler.                                                    *)

At(r, label) == handler[r] # None /\ handler[r].pc = label

Become(r, h) == handler' = [handler EXCEPT ![r] = h]

Goto(h, label) == [h EXCEPT !.pc = label]

Untold(h) == [h EXCEPT !.told = FALSE]

Reply(h, status, entries) == Goto([[h EXCEPT !.status = status] EXCEPT !.out = entries], "reply")

\* What a POST or PATCH does once the kernel asked for is not one of JEG's.
NotJeg(h) == IF h.op = "post" THEN Goto(h, "PostDefault")
             ELSE IF h.kid = None /\ h.spec = None THEN Goto(h, "PatchTouch")
             ELSE Goto(h, "PatchForward")

\* Where it looks for the kernel asked for: by id, else by name.
TrustsKernelID(h) == IF h.kid # None THEN Goto(h, "Remember")
                     ELSE IF h.spec # None THEN Goto(h, "Find")
                     ELSE NotJeg(h)
ResolveKernel(h) == IF h.kid # None THEN Goto(h, "Known")
                    ELSE IF h.spec # None THEN Goto(h, "Find")
                    ELSE NotJeg(h)

\* The locals of a handler when it has looked up the workspace.
Fresh(c, micro) ==
    [pc |-> "GetLoad", op |-> c.op, sid |-> c.sid, kid |-> c.kid,
     spec |-> c.spec, path |-> c.path, micro |-> micro,
     meta |-> applySessionMetadataPatch(NoPath, c.path), ov |-> None,
     snap |-> {}, cont |-> {}, todo |-> {}, cur |-> None,
     out |-> {}, status |-> "none", gone |-> Dead,
     was |-> [s \in Sessions |-> View(s)], told |-> micro]

\* The dispatch on the method and the path.
Dispatch(h) ==
    CASE h.op = "get" -> Goto(h, "GetLoad")
      [] h.op = "list" -> Goto(h, "ListJeg")
      [] h.op = "patch" -> Goto(h, "PatchLoad")
      [] h.op = "delete" -> Goto(h, "DeleteClear")
      [] OTHER -> IF h.micro /\ h.spec # None THEN Goto(h, "PostSpec")
                  ELSE ResolveKernel(h)

\* A request arrives; micro says whether the workspace lookup found an upstream.
\* The id of a POST is the one the client sent or the one the proxy makes up.
Start(r, c) ==
    /\ handler[r] = None
    /\ \E micro \in {TRUE} \cup (IF "workspace" \in Faults THEN {FALSE} ELSE {}) :
         Become(r, Dispatch(Fresh(c, micro)))
    /\ used' = IF c.op = "list" THEN used ELSE used \cup {c.sid}
    /\ UNCHANGED <<sessionKernelOverrides, knownJEGKernelIDs, kernels, local>>

\* The response reaches the client and the handler goroutine ends.
Finish(r) ==
    /\ At(r, "reply")
    /\ Become(r, None)
    /\ UNCHANGED <<sessionKernelOverrides, knownJEGKernelIDs, kernels, local, used>>

----------------------------------------------------------------------------
(* GET /api/sessions/{id}                                                   *)

TrustsOverride(r) ==
    /\ At(r, "GetLoad")
    /\ LET h == handler[r]
           ov == sessionKernelOverrides[h.sid]
       IN  Become(r, IF ov = None THEN Goto(h, "GetContainer")
                     ELSE Reply(h, "ok", {buildSessionCompatResponse(h.sid, ov)}))
    /\ UNCHANGED <<sessionKernelOverrides, knownJEGKernelIDs, kernels, local, used>>

GetLoad(r) ==
    /\ At(r, "GetLoad")
    /\ LET h == handler[r]
           ov == sessionKernelOverrides[h.sid]
       IN  Become(r, IF ov = None THEN Goto(h, "GetContainer")
                     ELSE Goto([h EXCEPT !.ov = ov], "GetJeg"))
    /\ UNCHANGED <<sessionKernelOverrides, knownJEGKernelIDs, kernels, local, used>>

GetJeg(r) ==
    /\ At(r, "GetJeg")
    /\ LET h == handler[r]
       IN  \E ks \in listJEGKernels :
             /\ remembered(ks)
             /\ Become(r, IF h.ov.kid \in ks
                          THEN Reply(h, "ok", {buildSessionCompatResponse(h.sid, h.ov)})
                          ELSE Goto(h, "GetClear"))
    /\ UNCHANGED <<sessionKernelOverrides, kernels, local, used>>

KeepsDead(r) ==
    /\ At(r, "GetClear")
    /\ Become(r, Goto(handler[r], "GetContainer"))
    /\ UNCHANGED <<sessionKernelOverrides, knownJEGKernelIDs, kernels, local, used>>

GetClear(r) ==
    /\ At(r, "GetClear")
    /\ clearSessionKernelOverride(handler[r].sid)
    /\ Become(r, Goto(handler[r], "GetContainer"))
    /\ UNCHANGED <<knownJEGKernelIDs, kernels, local, used>>

GetContainer(r) ==
    /\ At(r, "GetContainer")
    /\ LET h == handler[r]
       IN  \/ /\ h.micro /\ local[h.sid] # None
              /\ Become(r, Reply(h, "ok", {LocalEntry(h.sid)}))
           \/ (~h.micro \/ local[h.sid] = None) /\ Become(r, Reply(h, "missing", {}))
           \/ "container" \in Faults /\ Become(r, Reply(Untold(h), "missing", {}))
    /\ UNCHANGED <<sessionKernelOverrides, knownJEGKernelIDs, kernels, local, used>>

----------------------------------------------------------------------------
(* GET /api/sessions: the kernels JEG lists are read first, then the        *)
(* container's sessions, then the override map, one session at a time.      *)

ListJeg(r) ==
    /\ At(r, "ListJeg")
    /\ \E ks \in listJEGKernels :
         /\ remembered(ks)
         /\ Become(r, Goto([handler[r] EXCEPT !.snap = ks], "ListContainer"))
    /\ UNCHANGED <<sessionKernelOverrides, kernels, local, used>>

\* Done with the container's sessions es: merge them, or go on to the overrides.
Merging(h, es) ==
    IF es = {} THEN Goto([[h EXCEPT !.cont = {}] EXCEPT !.todo = Sessions], "ListRange")
    ELSE Goto([h EXCEPT !.cont = es], "ListMerge")

ListContainer(r) ==
    /\ At(r, "ListContainer")
    /\ LET h == handler[r]
       IN  \/ /\ h.micro
              /\ Become(r, Merging(h, {LocalEntry(s) : s \in {x \in Sessions : local[x] # None}}))
           \/ ~h.micro /\ Become(r, Merging(h, {}))
           \/ "container" \in Faults /\ Become(r, Merging(Untold(h), {}))
    /\ UNCHANGED <<sessionKernelOverrides, knownJEGKernelIDs, kernels, local, used>>

\* A local session with a live override is skipped, one with a dead override
\* loses the override, and any other one is listed.
ListMerge(r) ==
    /\ At(r, "ListMerge")
    /\ LET h == handler[r]
       IN  \E e \in h.cont :
             LET ov == sessionKernelOverrides[e.sid]
             IN  Become(r, IF ov = None
                           THEN [Merging(h, h.cont \ {e}) EXCEPT !.out = h.out \cup {e}]
                           ELSE IF ov.kid \in h.snap THEN Merging(h, h.cont \ {e})
                           ELSE Goto([h EXCEPT !.cur = e.sid], "ListMergeClear"))
    /\ UNCHANGED <<sessionKernelOverrides, knownJEGKernelIDs, kernels, local, used>>

ListMergeClear(r) ==
    /\ At(r, "ListMergeClear")
    /\ LET h == handler[r]
           here == {e \in h.cont : e.sid = h.cur}
       IN  /\ clearSessionKernelOverride(h.cur)
           /\ Become(r, [Merging(h, h.cont \ here) EXCEPT !.out = h.out \cup here])
    /\ UNCHANGED <<knownJEGKernelIDs, kernels, local, used>>

\* sync.Map.Range visits each key at most once and sees it as it is then.
ListRange(r) ==
    /\ At(r, "ListRange")
    /\ LET h == handler[r]
       IN  \/ /\ h.todo = {}
              /\ Become(r, Reply(h, "ok", h.out))
           \/ \E s \in h.todo :
                LET ov == sessionKernelOverrides[s]
                    visited == [h EXCEPT !.todo = h.todo \ {s}]
                IN  Become(r, IF ov = None THEN visited
                              ELSE IF ov.kid \in h.snap
                              THEN [visited EXCEPT !.out = h.out \cup {buildSessionCompatResponse(s, ov)}]
                              ELSE Goto([visited EXCEPT !.cur = s], "ListRangeClear"))
    /\ UNCHANGED <<sessionKernelOverrides, knownJEGKernelIDs, kernels, local, used>>

ListRangeClear(r) ==
    /\ At(r, "ListRangeClear")
    /\ clearSessionKernelOverride(handler[r].cur)
    /\ Become(r, Goto(handler[r], "ListRange"))
    /\ UNCHANGED <<knownJEGKernelIDs, kernels, local, used>>

----------------------------------------------------------------------------
(* The container's POST /api/sessions, and the steps a POST and a PATCH      *)
(* share: find the JEG kernel asked for and bind the session to it.         *)

\* A success is taken for a failure: the return is missing.
IgnoresSuccess(r, path, failed) ==
    \/ \E s \in Sessions \ used :
         /\ local' = [local EXCEPT ![s] = path]
         /\ used' = used \cup {s}
         /\ Become(r, failed)
    \/ /\ "container" \in Faults \/ Sessions = used
       /\ Become(r, failed)
       /\ UNCHANGED <<local, used>>

\* The container creates a session under a new id, or fails before or after
\* doing so.  It also fails when the model has no id left.
CreateInContainer(r, path, failed) ==
    \/ \E s \in Sessions \ used :
         /\ local' = [local EXCEPT ![s] = path]
         /\ used' = used \cup {s}
         /\ \/ Become(r, Reply(handler[r], "ok", {[sid |-> s, kid |-> None, path |-> path]}))
            \/ "container" \in Faults /\ Become(r, Untold(failed))
    \/ /\ "container" \in Faults \/ Sessions = used
       /\ Become(r, failed)
       /\ UNCHANGED <<local, used>>

PostSpec(r) ==
    /\ At(r, "PostSpec")
    /\ LET h == handler[r]
       IN  \E isLocal \in isLocalContainerSpec(h.spec) :
             Become(r, IF isLocal THEN Goto(h, "PostLocal") ELSE ResolveKernel(h))
    /\ UNCHANGED <<sessionKernelOverrides, knownJEGKernelIDs, kernels, local, used>>

PostLocal(r) ==
    /\ At(r, "PostLocal")
    /\ CreateInContainer(r, handler[r].meta, ResolveKernel(handler[r]))
    /\ UNCHANGED <<sessionKernelOverrides, knownJEGKernelIDs, kernels>>

PostDefault(r) ==
    /\ At(r, "PostDefault")
    /\ LET h == handler[r]
       IN  IF h.micro THEN CreateInContainer(r, h.meta, Reply(h, "failed", {}))
           ELSE /\ Become(r, Reply(h, "failed", {}))
                /\ UNCHANGED <<local, used>>
    /\ UNCHANGED <<sessionKernelOverrides, knownJEGKernelIDs, kernels>>

\* The first listed kernel of the spec; only that one is remembered.
findJEGKernelIDByName(r) ==
    /\ At(r, "Find")
    /\ LET h == handler[r]
       IN  \E ks \in listJEGKernels :
             LET matching == {k \in ks : SpecOf[k] = h.spec}
             IN  \/ \E k \in matching :
                      /\ remembered({k})
                      /\ Become(r, Goto([h EXCEPT !.kid = k], "Known"))
                 \/ /\ matching = {}
                    /\ remembered({})
                    /\ Become(r, NotJeg(h))
    /\ UNCHANGED <<sessionKernelOverrides, kernels, local, used>>

isKnownJEGKernelID(r) ==
    /\ At(r, "Known")
    /\ LET h == handler[r]
       IN  Become(r, Goto(h, IF h.kid \in knownJEGKernelIDs THEN "Remember" ELSE "Own"))
    /\ UNCHANGED <<sessionKernelOverrides, knownJEGKernelIDs, kernels, local, used>>

jegHasKernel(r) ==
    /\ At(r, "Own")
    /\ LET h == handler[r]
       IN  \E ks \in listJEGKernels :
             /\ remembered(ks)
             /\ Become(r, IF h.kid \in ks THEN Goto(h, "Remember") ELSE NotJeg(h))
    /\ UNCHANGED <<sessionKernelOverrides, kernels, local, used>>

rememberJEGKernelID(r) ==
    /\ At(r, "Remember")
    /\ LET h == handler[r]
       IN  /\ remembered({h.kid})
           /\ Become(r, Goto(h, IF h.spec = None THEN "Name" ELSE "Bind"))
    /\ UNCHANGED <<sessionKernelOverrides, kernels, local, used>>

\* A kernel that is not listed any more is forgotten, and bound all the same.
findJEGKernelNameByID(r) ==
    /\ At(r, "Name")
    /\ LET h == handler[r]
       IN  /\ \E ks \in listJEGKernels :
                knownJEGKernelIDs' = (knownJEGKernelIDs \cup ks) \ ({h.kid} \ ks)
           /\ Become(r, Goto(h, "Bind"))
    /\ UNCHANGED <<sessionKernelOverrides, kernels, local, used>>

Bind(r) ==
    /\ At(r, "Bind")
    /\ LET h == handler[r]
       IN  /\ setSessionKernelOverride(h.sid, h.kid, h.meta)
           /\ Become(r, Reply(h, "ok", {[sid |-> h.sid, kid |-> h.kid, path |-> h.meta]}))
    /\ UNCHANGED <<knownJEGKernelIDs, kernels, local, used>>

----------------------------------------------------------------------------
(* PATCH /api/sessions/{id}                                                 *)

\* The metadata of the session, before ownership changes: the override's ...
PatchLoad(r) ==
    /\ At(r, "PatchLoad")
    /\ LET h == handler[r]
           ov == sessionKernelOverrides[h.sid]
       IN  Become(r, IF ov = None THEN Goto(h, "PatchFetch")
                     ELSE ResolveKernel([h EXCEPT !.meta =
                              applySessionMetadataPatch(ov.path, h.path)]))
    /\ UNCHANGED <<sessionKernelOverrides, knownJEGKernelIDs, kernels, local, used>>

\* ... or else the container's, or none if the container does not answer.
fetchContainerSessionMetadata(r) ==
    /\ At(r, "PatchFetch")
    /\ LET h == handler[r]
       IN  \/ /\ h.micro /\ local[h.sid] # None
              /\ Become(r, ResolveKernel([h EXCEPT !.meta =
                               applySessionMetadataPatch(local[h.sid], h.path)]))
           \/ (~h.micro \/ local[h.sid] = None) /\ Become(r, ResolveKernel(h))
           \/ "container" \in Faults /\ Become(r, ResolveKernel(Untold(h)))
    /\ UNCHANGED <<sessionKernelOverrides, knownJEGKernelIDs, kernels, local, used>>

\* No kernel named: new metadata for an override, if there is one.
PatchTouch(r) ==
    /\ At(r, "PatchTouch")
    /\ LET h == handler[r]
           ov == sessionKernelOverrides[h.sid]
       IN  Become(r, IF ov = None THEN Goto(h, "PatchForward")
                     ELSE Goto([h EXCEPT !.ov = ov], "PatchStore"))
    /\ UNCHANGED <<sessionKernelOverrides, knownJEGKernelIDs, kernels, local, used>>

PatchStore(r) ==
    /\ At(r, "PatchStore")
    /\ LET h == handler[r]
       IN  /\ setSessionKernelOverride(h.sid, h.ov.kid, h.meta)
           /\ Become(r, Reply(h, "ok", {[sid |-> h.sid, kid |-> h.ov.kid, path |-> h.meta]}))
    /\ UNCHANGED <<knownJEGKernelIDs, kernels, local, used>>

\* A local switch, or one nobody knows: the container patches its session, has
\* none by that id, or answers with some other error.
PatchForward(r) ==
    /\ At(r, "PatchForward")
    /\ LET h == handler[r]
           patched == applySessionMetadataPatch(local[h.sid], h.path)
           refused == h.kid # None \/ h.spec \notin LocalSpecs \cup {None}
       IN  \/ /\ h.micro /\ local[h.sid] # None
              /\ h.spec \in LocalSpecs \cup {None}
              /\ local' = [local EXCEPT ![h.sid] = patched]
              /\ \/ LET e == [sid |-> h.sid, kid |-> None, path |-> patched]
                    IN  Become(r, Goto([h EXCEPT !.out = {e}], "PatchRelease"))
                 \/ "container" \in Faults /\ Become(r, Reply(Untold(h), "failed", {}))
           \/ /\ h.micro /\ local[h.sid] = None
              /\ Become(r, IF h.spec # None THEN Goto(h, "PatchSpec") ELSE Reply(h, "failed", {}))
              /\ UNCHANGED local
           \/ /\ ~h.micro \/ (local[h.sid] # None /\ refused) \/ "container" \in Faults
              /\ Become(r, Reply(h, "failed", {}))
              /\ UNCHANGED local
    /\ UNCHANGED <<sessionKernelOverrides, knownJEGKernelIDs, kernels, used>>

PatchRelease(r) ==
    /\ At(r, "PatchRelease")
    /\ clearSessionKernelOverride(handler[r].sid)
    /\ Become(r, Reply(handler[r], "ok", handler[r].out))
    /\ UNCHANGED <<knownJEGKernelIDs, kernels, local, used>>

PatchSpec(r) ==
    /\ At(r, "PatchSpec")
    /\ LET h == handler[r]
       IN  \E isLocal \in isLocalContainerSpec(h.spec) :
             Become(r, IF isLocal THEN Goto(h, "PatchDrop") ELSE Reply(h, "failed", {}))
    /\ UNCHANGED <<sessionKernelOverrides, knownJEGKernelIDs, kernels, local, used>>

PatchDrop(r) ==
    /\ At(r, "PatchDrop")
    /\ clearSessionKernelOverride(handler[r].sid)
    /\ Become(r, Goto(handler[r], "PatchCreate"))
    /\ UNCHANGED <<knownJEGKernelIDs, kernels, local, used>>

PatchCreate(r) ==
    /\ At(r, "PatchCreate")
    /\ CreateInContainer(r, handler[r].meta, Reply(handler[r], "failed", {}))
    /\ UNCHANGED <<sessionKernelOverrides, knownJEGKernelIDs, kernels>>

----------------------------------------------------------------------------
(* DELETE /api/sessions/{id}: the answer is 204 whatever the container says. *)

DeleteClear(r) ==
    /\ At(r, "DeleteClear")
    /\ clearSessionKernelOverride(handler[r].sid)
    /\ Become(r, Goto(handler[r], "DeleteContainer"))
    /\ UNCHANGED <<knownJEGKernelIDs, kernels, local, used>>

DeleteContainer(r) ==
    /\ At(r, "DeleteContainer")
    /\ LET h == handler[r]
       IN  \/ /\ h.micro /\ local' = [local EXCEPT ![h.sid] = None]
              /\ Become(r, Reply(h, "ok", {}))
           \/ /\ ~h.micro \/ "container" \in Faults
              /\ UNCHANGED local
              /\ Become(r, Reply(Untold(h), "ok", {}))
    /\ UNCHANGED <<sessionKernelOverrides, knownJEGKernelIDs, kernels, used>>

----------------------------------------------------------------------------
(* Around the handlers: kernels come and go at JEG, the state GC evicts      *)
(* entries nobody wrote for maxAge, and the proxy or the container restart.  *)

Launch(k) ==
    /\ kernels[k] = "unborn"
    /\ kernels' = [kernels EXCEPT ![k] = "running"]
    /\ UNCHANGED <<sessionKernelOverrides, knownJEGKernelIDs, local, used, handler>>

Die(k) ==
    /\ kernels[k] = "running"
    /\ kernels' = [kernels EXCEPT ![k] = "dead"]
    /\ UNCHANGED <<sessionKernelOverrides, knownJEGKernelIDs, local, used, handler>>

EvictOverride(s) ==
    /\ "gc" \in Faults /\ sessionKernelOverrides[s] # None
    /\ clearSessionKernelOverride(s)
    /\ UNCHANGED <<knownJEGKernelIDs, kernels, local, used, handler>>

EvictKnown(k) ==
    /\ "gc" \in Faults /\ k \in knownJEGKernelIDs
    /\ knownJEGKernelIDs' = knownJEGKernelIDs \ {k}
    /\ UNCHANGED <<sessionKernelOverrides, kernels, local, used, handler>>

\* The maps are in memory only, and the requests in progress die with the process.
ProxyRestart ==
    /\ "restart" \in Faults
    /\ sessionKernelOverrides' = [s \in Sessions |-> None]
    /\ knownJEGKernelIDs' = {}
    /\ handler' = [r \in Requests |-> None]
    /\ UNCHANGED <<kernels, local, used>>

ContainerRestart ==
    /\ "restart" \in Faults
    /\ local' = [s \in Sessions |-> None]
    /\ UNCHANGED <<sessionKernelOverrides, knownJEGKernelIDs, kernels, used, handler>>

\* The proxy starts with empty maps; the container may have sessions by then.
Init ==
    /\ sessionKernelOverrides = [s \in Sessions |-> None]
    /\ knownJEGKernelIDs = {}
    /\ kernels = [k \in Kernels |-> "unborn"]
    /\ local \in [Sessions -> Paths \cup {None}]
    /\ used = {s \in Sessions : local[s] # None}
    /\ handler = [r \in Requests |-> None]

Handle(r) ==
    \/ GetLoad(r) \/ GetJeg(r) \/ GetClear(r) \/ GetContainer(r)
    \/ ListJeg(r) \/ ListContainer(r) \/ ListMerge(r) \/ ListMergeClear(r)
    \/ ListRange(r) \/ ListRangeClear(r)
    \/ PostSpec(r) \/ PostLocal(r) \/ PostDefault(r)
    \/ findJEGKernelIDByName(r) \/ isKnownJEGKernelID(r) \/ jegHasKernel(r)
    \/ rememberJEGKernelID(r) \/ findJEGKernelNameByID(r) \/ Bind(r)
    \/ PatchLoad(r) \/ fetchContainerSessionMetadata(r) \/ PatchTouch(r)
    \/ PatchStore(r) \/ PatchForward(r) \/ PatchRelease(r) \/ PatchSpec(r)
    \/ PatchDrop(r) \/ PatchCreate(r)
    \/ DeleteClear(r) \/ DeleteContainer(r)
    \/ Finish(r)

Environment ==
    \/ \E k \in Kernels : Launch(k) \/ Die(k) \/ EvictKnown(k)
    \/ \E s \in Sessions : EvictOverride(s)
    \/ ProxyRestart \/ ContainerRestart

Next ==
    \/ \E r \in Requests : Handle(r) \/ \E c \in Calls : Start(r, c)
    \/ Environment

Spec == Init /\ [][Next]_vars

----------------------------------------------------------------------------
(* Properties.                                                              *)

TypeOK ==
    /\ sessionKernelOverrides \in [Sessions -> Override \cup {None}]
    /\ knownJEGKernelIDs \in SUBSET Kernels
    /\ kernels \in [Kernels -> {"unborn", "running", "dead"}]
    /\ local \in [Sessions -> Paths \cup {None}]
    /\ used \in SUBSET Sessions
    /\ handler \in [Requests -> Handler \cup {None}]

\* A session is only ever bound to a kernel that was really launched at JEG,
\* whatever ids the clients send: a binding is made for a kernel that is in
\* knownJEGKernelIDs or in JEG's list, and only listed kernels become known
\* (proxy.go:290 and 388).
BoundToLaunched ==
    \A s \in Sessions : sessionKernelOverrides[s] # None =>
        sessionKernelOverrides[s].kid \in Launched

\* A poll, by id or of the list, never shows a session on a kernel that was dead
\* before the poll began, with JEG failing, handlers racing and entries evicted
\* (proxy.go:124 and 211: "Only include if JEG still has the kernel running").
PollShowsNoDeadKernel ==
    \A r \in Requests : At(r, "reply") /\ handler[r].op \in {"get", "list"} =>
        \A e \in handler[r].out : e.kid \notin handler[r].gone

\* A poll that races with nothing shows every session exactly once, as it is: on
\* the JEG kernel if it is bound to one, else as the container has it, if the
\* container told of it (proxy.go:116-119, 167, 199).
Told(r, ops) == At(r, "reply") /\ handler[r].op \in ops /\ handler[r].told

PollIsView ==
    \A r \in Requests :
        /\ Told(r, {"get"}) => handler[r].out = {View(handler[r].sid)} \ {None}
        /\ Told(r, {"list"}) => handler[r].out = {View(s) : s \in Sessions} \ {None}

\* A client may believe the answer to a POST, PATCH or DELETE that races with nothing,
\* whichever calls failed without effect on the way: the session in it is what the next
\* poll will show, what was deleted is nowhere, and no session but the one asked for was
\* made, changed or lost (proxy.go:264-267, 328, 439-510, 514-532).
ChangeAsAnswered ==
    \A r \in Requests : Told(r, {"post", "patch", "delete"}) =>
        LET h == handler[r]
            shown == {e.sid : e \in h.out}
            given == IF h.op = "post" THEN {} ELSE {h.sid}
        IN  /\ \A e \in h.out : View(e.sid) = e
            /\ h.op = "delete" => View(h.sid) = None
            /\ \A s \in Sessions \ (shown \cup given) : View(s) = h.was[s]

\* A PATCH that does not mention the path leaves the session with the path it had,
\* wherever the session moves (proxy.go:374-375: "so the response retains the file
\* path").  BindingKeepsPath says it of the moves to, and the changes on, JEG.
KeepsPath(r, e) ==
    LET was == handler[r].was[handler[r].sid]
    IN  was # None => e.path = was.path

PathRetained ==
    \A r \in Requests : Told(r, {"patch"}) /\ handler[r].path = None =>
        \A e \in handler[r].out : KeepsPath(r, e)

BindingKeepsPath ==
    \A r \in Requests : Told(r, {"patch"}) /\ handler[r].path = None =>
        \A e \in handler[r].out : e.kid # None => KeepsPath(r, e)

\* A session bound to a running kernel stays bound until a client posts, patches or
\* deletes that session: polling does not revert it to a local kernel
\* (jeg.go:155-156).
Asked == {handler[r].sid : r \in {x \in Requests :
             handler[x] # None /\ handler[x].op \in {"post", "patch", "delete"}}}
LosesLiveBinding(s) == /\ sessionKernelOverrides[s] # None
                       /\ sessionKernelOverrides[s].kid \in Running
                       /\ sessionKernelOverrides'[s] = None
LiveBindingKept == [][\A s \in Sessions : LosesLiveBinding(s) => s \in Asked]_vars

\* The session routes implement SessionBinding as long as JEG answers, no poll overlaps
\* with a change and nothing is evicted or restarted (jeg.go:155-156): the binding is the
\* override's kernel, and a client asks for a change while a POST, PATCH or DELETE of the
\* session is in progress.
Binding == INSTANCE SessionBinding WITH
    binding <- [s \in Sessions |-> IF sessionKernelOverrides[s] = None THEN None
                                   ELSE sessionKernelOverrides[s].kid],
    asked <- Asked
BindingSpec == Binding!Spec
=============================================================================
