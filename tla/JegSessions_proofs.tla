------------------------- MODULE JegSessions_proofs -------------------------
(***************************************************************************)
(* Proofs about JegSessions: its type invariant, that sessions are only       *)
(* bound to kernels JEG launched, and that polls show no dead kernel.         *)
(***************************************************************************)
EXTENDS JegSessions, TLAPS

----------------------------------------------------------------------------
(* What the control operators return is a handler's state again.             *)

\* A handler that goes on to a label it is ready for is still a handler.
LEMMA GotoType ==
    ASSUME NEW h \in Handler, NEW l \in Labels,
           l \in NeedsOverride => h.ov # None,
           l \in NeedsKernel => h.kid # None,
           l \in NeedsCurrent => h.cur # None
    PROVE  Goto(h, l) \in Handler
<1>1. Goto(h, l) \in Locals
  BY DEF Goto, Handler, Locals
<1>2. /\ Goto(h, l).pc = l /\ Goto(h, l).ov = h.ov
      /\ Goto(h, l).kid = h.kid /\ Goto(h, l).cur = h.cur
  BY DEF Goto, Handler, Locals
<1>. QED BY <1>1, <1>2 DEF Handler

\* The labels any handler may go on to.
PlainLabels == Labels \ (NeedsOverride \cup NeedsKernel \cup NeedsCurrent)

LEMMA PlainType ==
    ASSUME NEW h \in Handler, NEW l \in PlainLabels
    PROVE  Goto(h, l) \in Handler
BY GotoType DEF PlainLabels

LEMMA PlainSet ==
    PlainLabels = {"GetLoad", "GetClear", "GetContainer", "ListJeg", "ListContainer",
                   "ListMerge", "ListRange", "PostSpec", "PostLocal", "PostDefault",
                   "Find", "PatchLoad", "PatchFetch", "PatchTouch", "PatchForward",
                   "PatchRelease", "PatchSpec", "PatchDrop", "PatchCreate",
                   "DeleteClear", "DeleteContainer", "reply"}
BY DEF PlainLabels, Labels, NeedsOverride, NeedsKernel, NeedsCurrent

\* The fields that do not decide what a label needs may be set at will, ...
LEMMA FieldTypes ==
    ASSUME NEW h \in Handler
    PROVE  /\ \A es \in SUBSET Entry : [h EXCEPT !.out = es] \in Handler
           /\ \A st \in {"none", "ok", "missing", "failed"} : [h EXCEPT !.status = st] \in Handler
           /\ \A es \in SUBSET Entry : [h EXCEPT !.cont = es] \in Handler
           /\ \A ss \in SUBSET Sessions : [h EXCEPT !.todo = ss] \in Handler
           /\ \A ks \in SUBSET Kernels : [h EXCEPT !.snap = ks] \in Handler
           /\ \A p \in Paths : [h EXCEPT !.meta = p] \in Handler
<1>1. \A es \in SUBSET Entry : [h EXCEPT !.out = es] \in Handler
  BY DEF Handler, Locals
<1>2. \A st \in {"none", "ok", "missing", "failed"} : [h EXCEPT !.status = st] \in Handler
  BY DEF Handler, Locals
<1>3. \A es \in SUBSET Entry : [h EXCEPT !.cont = es] \in Handler
  BY DEF Handler, Locals
<1>4. \A ss \in SUBSET Sessions : [h EXCEPT !.todo = ss] \in Handler
  BY DEF Handler, Locals
<1>5. \A ks \in SUBSET Kernels : [h EXCEPT !.snap = ks] \in Handler
  BY DEF Handler, Locals
<1>6. \A p \in Paths : [h EXCEPT !.meta = p] \in Handler
  BY DEF Handler, Locals
<1>. QED BY <1>1, <1>2, <1>3, <1>4, <1>5, <1>6

LEMMA UntoldType ==
    ASSUME NEW h \in Handler
    PROVE  /\ Untold(h) \in Handler
           /\ Untold(h).op = h.op /\ Untold(h).gone = h.gone
BY DEF Untold, Handler, Locals

\* ... and the others to a value that is there.
LEMMA ReadTypes ==
    ASSUME ConstantsOK, NEW h \in Handler
    PROVE  /\ \A ov \in Override : ov # None => Goto([h EXCEPT !.ov = ov], "GetJeg") \in Handler
           /\ \A ov \in Override : ov # None => Goto([h EXCEPT !.ov = ov], "PatchStore") \in Handler
           /\ \A k \in Kernels : Goto([h EXCEPT !.kid = k], "Known") \in Handler
           /\ \A s \in Sessions : Goto([h EXCEPT !.cur = s], "ListMergeClear") \in Handler
           /\ \A s \in Sessions : Goto([h EXCEPT !.cur = s], "ListRangeClear") \in Handler
<1>1. ASSUME NEW ov \in Override, ov # None
      PROVE  [h EXCEPT !.ov = ov] \in Handler /\ [h EXCEPT !.ov = ov].ov = ov
  BY <1>1 DEF Handler, Locals
<1>2. ASSUME NEW k \in Kernels
      PROVE  /\ [h EXCEPT !.kid = k] \in Handler /\ [h EXCEPT !.kid = k].kid = k
             /\ k # None
  BY <1>2 DEF Handler, Locals, ConstantsOK
<1>3. ASSUME NEW s \in Sessions
      PROVE  /\ [h EXCEPT !.cur = s] \in Handler /\ [h EXCEPT !.cur = s].cur = s
             /\ s # None
  BY <1>3 DEF Handler, Locals, ConstantsOK
<1>4. ASSUME NEW ov \in Override, ov # None
      PROVE  /\ Goto([h EXCEPT !.ov = ov], "GetJeg") \in Handler
             /\ Goto([h EXCEPT !.ov = ov], "PatchStore") \in Handler
  BY <1>1, <1>4, GotoType DEF Labels, NeedsOverride, NeedsKernel, NeedsCurrent
<1>5. ASSUME NEW k \in Kernels PROVE Goto([h EXCEPT !.kid = k], "Known") \in Handler
  BY <1>2, <1>5, GotoType DEF Labels, NeedsOverride, NeedsKernel, NeedsCurrent
<1>6. ASSUME NEW s \in Sessions
      PROVE  /\ Goto([h EXCEPT !.cur = s], "ListMergeClear") \in Handler
             /\ Goto([h EXCEPT !.cur = s], "ListRangeClear") \in Handler
  BY <1>3, <1>6, GotoType DEF Labels, NeedsOverride, NeedsKernel, NeedsCurrent
<1>. QED BY <1>4, <1>5, <1>6

\* A handler that answers is still a handler, ...
LEMMA ReplyType ==
    ASSUME NEW h \in Handler, NEW st \in {"ok", "missing", "failed"},
           NEW es \in SUBSET Entry
    PROVE  Reply(h, st, es) \in Handler
<1>1. [h EXCEPT !.status = st] \in Handler
  BY FieldTypes
<1>2. [[h EXCEPT !.status = st] EXCEPT !.out = es] \in Handler
  BY <1>1, FieldTypes
<1>. QED BY <1>2, PlainType, PlainSet DEF Reply

\* ... and so is one that resolves its kernel, is dispatched, or goes on merging.
LEMMA NotJegType ==
    ASSUME NEW h \in Handler
    PROVE  NotJeg(h) \in Handler
BY PlainType, PlainSet DEF NotJeg

LEMMA ResolveKernelType ==
    ASSUME NEW h \in Handler
    PROVE  ResolveKernel(h) \in Handler
<1>1. h.kid # None => Goto(h, "Known") \in Handler
  BY GotoType DEF Labels, NeedsOverride, NeedsCurrent
<1>. QED BY <1>1, PlainType, PlainSet, NotJegType DEF ResolveKernel

LEMMA DispatchType ==
    ASSUME NEW h \in Handler
    PROVE  Dispatch(h) \in Handler
<1>1. \A l \in PlainLabels : Goto(h, l) \in Handler
  BY PlainType
<1>2. ResolveKernel(h) \in Handler
  BY ResolveKernelType
<1>. QED BY <1>1, <1>2, PlainSet DEF Dispatch

LEMMA MergingType ==
    ASSUME NEW h \in Handler, NEW es \in SUBSET Entry
    PROVE  Merging(h, es) \in Handler
<1>1. [h EXCEPT !.cont = es] \in Handler /\ [h EXCEPT !.cont = {}] \in Handler
  BY FieldTypes
<1>2. [[h EXCEPT !.cont = {}] EXCEPT !.todo = Sessions] \in Handler
  BY <1>1, FieldTypes
<1>. QED BY <1>1, <1>2, PlainType, PlainSet DEF Merging

\* The metadata of a session stays a path.
LEMMA PatchType ==
    ASSUME NEW p \in Paths, NEW q \in Paths \cup {None}
    PROVE  applySessionMetadataPatch(p, q) \in Paths
BY DEF applySessionMetadataPatch

\* The handler at a label, and the map of handlers after one of them moved.
LEMMA AtType ==
    ASSUME TypeOK, NEW r \in Requests, NEW l, At(r, l)
    PROVE  handler[r] \in Handler
BY DEF TypeOK, At

LEMMA BecomeType ==
    ASSUME TypeOK, NEW r \in Requests, NEW h \in Handler \cup {None}, Become(r, h)
    PROVE  handler' \in [Requests -> Handler \cup {None}]
BY DEF TypeOK, Become

\* Sets and clears of the override map keep its type.
LEMMA OverridesType ==
    ASSUME TypeOK, NEW s \in Sessions, NEW k \in Kernels, NEW p \in Paths,
           setSessionKernelOverride(s, k, p) \/ clearSessionKernelOverride(s)
    PROVE  sessionKernelOverrides' \in [Sessions -> Override \cup {None}]
BY DEF TypeOK, setSessionKernelOverride, clearSessionKernelOverride, Override

LEMMA ClearType ==
    ASSUME TypeOK, NEW s, clearSessionKernelOverride(s)
    PROVE  sessionKernelOverrides' \in [Sessions -> Override \cup {None}]
BY DEF TypeOK, clearSessionKernelOverride

LEMMA ListingType ==
    ASSUME NEW ks \in listJEGKernels
    PROVE  ks \in SUBSET Kernels
BY DEF listJEGKernels, Running

LEMMA EntryTypes ==
    ASSUME TypeOK, NEW s \in Sessions
    PROVE  /\ \A ov \in Override : buildSessionCompatResponse(s, ov) \in Entry
           /\ local[s] # None => LocalEntry(s) \in Entry
           /\ View(s) \in Entry \cup {None}
<1>1. \A ov \in Override : buildSessionCompatResponse(s, ov) \in Entry
  BY DEF buildSessionCompatResponse, Override, Entry
<1>2. local[s] # None => LocalEntry(s) \in Entry
  BY DEF TypeOK, LocalEntry, Entry
<1>3. View(s) \in Entry \cup {None}
  BY <1>1, <1>2 DEF TypeOK, View
<1>. QED BY <1>1, <1>2, <1>3

\* What a handler starts from.
LEMMA FreshType ==
    ASSUME TypeOK, ConstantsOK, NEW c \in Calls, NEW micro \in BOOLEAN
    PROVE  Fresh(c, micro) \in Handler
<1>1. c \in Call
  BY DEF ConstantsOK
<1>2. /\ c.op \in Ops /\ c.sid \in Sessions /\ c.kid \in Kernels \cup {None}
      /\ c.spec \in Specs \cup {None} /\ c.path \in Paths \cup {None}
  BY <1>1 DEF Call
<1>3. applySessionMetadataPatch(NoPath, c.path) \in Paths
  BY <1>2, PatchType DEF ConstantsOK
<1>4. [s \in Sessions |-> View(s)] \in [Sessions -> Entry \cup {None}]
  BY EntryTypes
<1>5. Dead \in SUBSET Kernels
  BY DEF Dead
<1>6. /\ "GetLoad" \in Labels
      /\ "GetLoad" \notin NeedsOverride \cup NeedsKernel \cup NeedsCurrent
  BY DEF Labels, NeedsOverride, NeedsKernel, NeedsCurrent
<1>7. Fresh(c, micro) \in Locals
  BY <1>2, <1>3, <1>4, <1>5, <1>6 DEF Fresh, Locals
<1>. QED BY <1>6, <1>7 DEF Fresh, Handler

\* The container's create, whichever way it goes.
LEMMA CreateType ==
    ASSUME TypeOK, NEW r \in Requests, handler[r] \in Handler, NEW p \in Paths,
           NEW failed \in Handler, CreateInContainer(r, p, failed)
    PROVE  /\ handler' \in [Requests -> Handler \cup {None}]
           /\ local' \in [Sessions -> Paths \cup {None}]
           /\ used' \in SUBSET Sessions
<1>1. CASE \E s \in Sessions \ used :
             /\ local' = [local EXCEPT ![s] = p]
             /\ used' = used \cup {s}
             /\ \/ Become(r, Reply(handler[r], "ok", {[sid |-> s, kid |-> None, path |-> p]}))
                \/ "container" \in Faults /\ Become(r, Untold(failed))
  <2>1. PICK s \in Sessions \ used :
             /\ local' = [local EXCEPT ![s] = p]
             /\ used' = used \cup {s}
             /\ \/ Become(r, Reply(handler[r], "ok", {[sid |-> s, kid |-> None, path |-> p]}))
                \/ "container" \in Faults /\ Become(r, Untold(failed))
    BY <1>1
  <2>2. {[sid |-> s, kid |-> None, path |-> p]} \in SUBSET Entry
    BY DEF Entry
  <2>3. Reply(handler[r], "ok", {[sid |-> s, kid |-> None, path |-> p]}) \in Handler
    BY <2>2, ReplyType
  <2>4. handler' \in [Requests -> Handler \cup {None}]
    BY <2>1, <2>3, UntoldType, BecomeType
  <2>. QED BY <2>1, <2>4 DEF TypeOK
<1>2. CASE Become(r, failed) /\ UNCHANGED <<local, used>>
  BY <1>2, BecomeType DEF TypeOK
<1>. QED BY <1>1, <1>2 DEF CreateInContainer


----------------------------------------------------------------------------
(* Type correctness, one group of routes at a time.                          *)

\* A step that changes the handlers and nothing else is typed once the new
\* locals are.
LEMMA HandlerOnly ==
    ASSUME TypeOK, NEW r \in Requests, NEW h \in Handler \cup {None}, Become(r, h),
           UNCHANGED <<sessionKernelOverrides, knownJEGKernelIDs, kernels, local, used>>
    PROVE  TypeOK'
BY BecomeType DEF TypeOK

\* So is one that also lists kernels at JEG, or clears an override.
LEMMA HandlerAndKnown ==
    ASSUME TypeOK, NEW r \in Requests, NEW h \in Handler, Become(r, h),
           knownJEGKernelIDs' \in SUBSET Kernels,
           UNCHANGED <<sessionKernelOverrides, kernels, local, used>>
    PROVE  TypeOK'
BY BecomeType DEF TypeOK

LEMMA HandlerAndOverrides ==
    ASSUME TypeOK, NEW r \in Requests, NEW h \in Handler, Become(r, h),
           sessionKernelOverrides' \in [Sessions -> Override \cup {None}],
           UNCHANGED <<knownJEGKernelIDs, kernels, local, used>>
    PROVE  TypeOK'
BY BecomeType DEF TypeOK

\* What listing kernels adds is a set of kernel ids.
LEMMA RememberedType ==
    ASSUME TypeOK, NEW ks \in SUBSET Kernels, remembered(ks)
    PROVE  knownJEGKernelIDs' \in SUBSET Kernels
BY DEF TypeOK, remembered

LEMMA GetTypes ==
    ASSUME ConstantsOK, TypeOK, NEW r \in Requests,
           GetLoad(r) \/ GetJeg(r) \/ GetClear(r) \/ GetContainer(r)
    PROVE  TypeOK'
<1>. DEFINE h == handler[r]
<1>1. h \in Handler
  BY AtType DEF GetLoad, GetJeg, GetClear, GetContainer
<1>2. h.sid \in Sessions /\ h.ov \in Override \cup {None} /\ (h.pc \in NeedsOverride => h.ov # None)
  BY <1>1 DEF Handler, Locals
<1>3. sessionKernelOverrides[h.sid] \in Override \cup {None}
  BY <1>2 DEF TypeOK
<1>4. \A l \in PlainLabels : Goto(h, l) \in Handler
  BY <1>1, PlainType
<1>5. CASE GetLoad(r)
  <2>1. \A ov \in Override : ov # None => Goto([h EXCEPT !.ov = ov], "GetJeg") \in Handler
    BY <1>1, ReadTypes
  <2>2. \E g \in Handler : Become(r, g)
    BY <1>3, <1>4, <1>5, <2>1, PlainSet DEF GetLoad
  <2>. QED BY <1>5, <2>2, HandlerOnly DEF GetLoad
<1>6. CASE GetJeg(r)
  <2>1. h.ov \in Override
    BY <1>2, <1>6 DEF GetJeg, At, NeedsOverride
  <2>2. Reply(h, "ok", {buildSessionCompatResponse(h.sid, h.ov)}) \in Handler
    BY <1>1, <1>2, <2>1, EntryTypes, ReplyType
  <2>3. \E g \in Handler, ks \in listJEGKernels : Become(r, g) /\ remembered(ks)
    BY <1>4, <1>6, <2>2, PlainSet DEF GetJeg
  <2>. QED BY <1>6, <2>3, ListingType, RememberedType, HandlerAndKnown DEF GetJeg
<1>7. CASE GetClear(r)
  BY <1>4, <1>7, PlainSet, ClearType, HandlerAndOverrides DEF GetClear
<1>8. CASE GetContainer(r)
  <2>1. Reply(h, "missing", {}) \in Handler /\ Reply(Untold(h), "missing", {}) \in Handler
    BY <1>1, UntoldType, ReplyType
  <2>2. local[h.sid] # None => Reply(h, "ok", {LocalEntry(h.sid)}) \in Handler
    BY <1>1, <1>2, EntryTypes, ReplyType
  <2>3. \E g \in Handler : Become(r, g)
    BY <1>8, <2>1, <2>2 DEF GetContainer
  <2>. QED BY <1>8, <2>3, HandlerOnly DEF GetContainer
<1>. QED BY <1>5, <1>6, <1>7, <1>8

LEMMA ListTypes ==
    ASSUME ConstantsOK, TypeOK, NEW r \in Requests,
           \/ ListJeg(r) \/ ListContainer(r) \/ ListMerge(r) \/ ListMergeClear(r)
           \/ ListRange(r) \/ ListRangeClear(r)
    PROVE  TypeOK'
<1>. DEFINE h == handler[r]
<1>1. h \in Handler
  BY AtType DEF ListJeg, ListContainer, ListMerge, ListMergeClear, ListRange, ListRangeClear
<1>2. /\ h.cont \in SUBSET Entry /\ h.todo \in SUBSET Sessions /\ h.out \in SUBSET Entry
  BY <1>1 DEF Handler, Locals
<1>3. \A es \in SUBSET Entry : Merging(h, es) \in Handler
  BY <1>1, MergingType
<1>4. \A es, fs \in SUBSET Entry : [Merging(h, es) EXCEPT !.out = fs] \in Handler
  BY <1>3, FieldTypes
<1>5. CASE ListJeg(r)
  <2>1. \A ks \in SUBSET Kernels : Goto([h EXCEPT !.snap = ks], "ListContainer") \in Handler
    BY <1>1, FieldTypes, PlainType, PlainSet
  <2>2. \E g \in Handler, ks \in listJEGKernels : Become(r, g) /\ remembered(ks)
    BY <1>5, <2>1, ListingType DEF ListJeg
  <2>. QED BY <1>5, <2>2, ListingType, RememberedType, HandlerAndKnown DEF ListJeg
<1>6. CASE ListContainer(r)
  <2>1. {LocalEntry(s) : s \in {x \in Sessions : local[x] # None}} \in SUBSET Entry
    BY EntryTypes
  <2>2. Merging(Untold(h), {}) \in Handler
    BY <1>1, UntoldType, MergingType
  <2>3. \E g \in Handler : Become(r, g)
    BY <1>3, <1>6, <2>1, <2>2 DEF ListContainer
  <2>. QED BY <1>6, <2>3, HandlerOnly DEF ListContainer
<1>7. CASE ListMerge(r)
  <2>1. \A e \in h.cont : e.sid \in Sessions
    BY <1>2 DEF Entry
  <2>2. \A s \in Sessions : Goto([h EXCEPT !.cur = s], "ListMergeClear") \in Handler
    BY <1>1, ReadTypes
  <2>3. \A e \in h.cont : h.cont \ {e} \in SUBSET Entry /\ h.out \cup {e} \in SUBSET Entry
    BY <1>2
  <2>4. \E g \in Handler : Become(r, g)
    BY <1>3, <1>4, <1>7, <2>1, <2>2, <2>3 DEF ListMerge
  <2>. QED BY <1>7, <2>4, HandlerOnly DEF ListMerge
<1>8. CASE ListMergeClear(r)
  <2>. DEFINE here == {e \in h.cont : e.sid = h.cur}
  <2>1. h.cont \ here \in SUBSET Entry /\ h.out \cup here \in SUBSET Entry
    BY <1>2
  <2>2. [Merging(h, h.cont \ here) EXCEPT !.out = h.out \cup here] \in Handler
    BY <1>4, <2>1
  <2>3. clearSessionKernelOverride(h.cur)
        /\ Become(r, [Merging(h, h.cont \ here) EXCEPT !.out = h.out \cup here])
    BY <1>8 DEF ListMergeClear
  <2>. QED BY <1>8, <2>2, <2>3, ClearType, HandlerAndOverrides DEF ListMergeClear
<1>9. CASE ListRange(r)
  <2>1. Reply(h, "ok", h.out) \in Handler
    BY <1>1, <1>2, ReplyType
  <2>2. ASSUME NEW s \in h.todo
        PROVE  /\ s \in Sessions
               /\ [h EXCEPT !.todo = h.todo \ {s}] \in Handler
               /\ sessionKernelOverrides[s] \in Override \cup {None}
    BY <1>1, <1>2, <2>2, FieldTypes DEF TypeOK
  <2>3. ASSUME NEW s \in h.todo, NEW e \in Entry
        PROVE  [[h EXCEPT !.todo = h.todo \ {s}] EXCEPT !.out = h.out \cup {e}] \in Handler
    BY <1>2, <2>2, <2>3, FieldTypes
  <2>4. ASSUME NEW s \in h.todo
        PROVE  Goto([[h EXCEPT !.todo = h.todo \ {s}] EXCEPT !.cur = s], "ListRangeClear") \in Handler
    BY <2>2, ReadTypes
  <2>5. \E g \in Handler : Become(r, g)
    BY <1>9, <2>1, <2>2, <2>3, <2>4, EntryTypes DEF ListRange
  <2>. QED BY <1>9, <2>5, HandlerOnly DEF ListRange
<1>10. CASE ListRangeClear(r)
  BY <1>1, <1>10, PlainType, PlainSet, ClearType, HandlerAndOverrides DEF ListRangeClear
<1>. QED BY <1>5, <1>6, <1>7, <1>8, <1>9, <1>10

LEMMA BindTypes ==
    ASSUME ConstantsOK, TypeOK, NEW r \in Requests,
           \/ PostSpec(r) \/ PostLocal(r) \/ PostDefault(r)
           \/ findJEGKernelIDByName(r) \/ isKnownJEGKernelID(r) \/ jegHasKernel(r)
           \/ rememberJEGKernelID(r) \/ findJEGKernelNameByID(r) \/ Bind(r)
    PROVE  TypeOK'
<1>. DEFINE h == handler[r]
<1>1. h \in Handler
  BY AtType DEF PostSpec, PostLocal, PostDefault, findJEGKernelIDByName, isKnownJEGKernelID,
                jegHasKernel, rememberJEGKernelID, findJEGKernelNameByID, Bind
<1>2. /\ h.sid \in Sessions /\ h.meta \in Paths /\ h.kid \in Kernels \cup {None}
      /\ h.pc \in NeedsKernel => h.kid # None
  BY <1>1 DEF Handler, Locals
<1>3. /\ \A l \in PlainLabels : Goto(h, l) \in Handler
      /\ ResolveKernel(h) \in Handler /\ NotJeg(h) \in Handler
      /\ Reply(h, "failed", {}) \in Handler
  BY <1>1, PlainType, ResolveKernelType, NotJegType, ReplyType
<1>4. h.kid # None => \A l \in NeedsKernel : Goto(h, l) \in Handler
  BY <1>1, GotoType DEF Labels, NeedsOverride, NeedsKernel, NeedsCurrent
<1>5. CASE PostSpec(r)
  <2>1. \E g \in Handler : Become(r, g)
    BY <1>3, <1>5, PlainSet DEF PostSpec
  <2>. QED BY <1>5, <2>1, HandlerOnly DEF PostSpec
<1>6. CASE PostLocal(r)
  <2>1. CreateInContainer(r, h.meta, ResolveKernel(h))
    BY <1>6 DEF PostLocal
  <2>. QED BY <1>1, <1>2, <1>3, <1>6, <2>1, CreateType DEF PostLocal, TypeOK
<1>7. CASE PostDefault(r)
  <2>1. CASE h.micro
    <3>1. CreateInContainer(r, h.meta, Reply(h, "failed", {}))
      BY <1>7, <2>1 DEF PostDefault
    <3>. QED BY <1>1, <1>2, <1>3, <1>7, <3>1, CreateType DEF PostDefault, TypeOK
  <2>2. CASE ~h.micro
    BY <1>3, <1>7, <2>2, HandlerOnly DEF PostDefault
  <2>. QED BY <2>1, <2>2
<1>8. CASE findJEGKernelIDByName(r)
  <2>1. \A k \in Kernels : Goto([h EXCEPT !.kid = k], "Known") \in Handler
    BY <1>1, ReadTypes
  <2>2. \E g \in Handler, ks \in SUBSET Kernels : Become(r, g) /\ remembered(ks)
    BY <1>3, <1>8, <2>1, ListingType DEF findJEGKernelIDByName
  <2>. QED BY <1>8, <2>2, RememberedType, HandlerAndKnown DEF findJEGKernelIDByName
<1>9. CASE isKnownJEGKernelID(r)
  <2>1. h.kid # None
    BY <1>2, <1>9 DEF isKnownJEGKernelID, At, NeedsKernel
  <2>2. \E g \in Handler : Become(r, g)
    BY <1>4, <1>9, <2>1 DEF isKnownJEGKernelID, NeedsKernel
  <2>. QED BY <1>9, <2>2, HandlerOnly DEF isKnownJEGKernelID
<1>10. CASE jegHasKernel(r)
  <2>1. h.kid # None
    BY <1>2, <1>10 DEF jegHasKernel, At, NeedsKernel
  <2>2. \E g \in Handler, ks \in listJEGKernels : Become(r, g) /\ remembered(ks)
    BY <1>3, <1>4, <1>10, <2>1 DEF jegHasKernel, NeedsKernel
  <2>. QED BY <1>10, <2>2, ListingType, RememberedType, HandlerAndKnown DEF jegHasKernel
<1>11. CASE rememberJEGKernelID(r)
  <2>1. h.kid # None /\ h.kid \in Kernels
    BY <1>2, <1>11 DEF rememberJEGKernelID, At, NeedsKernel
  <2>2. \E g \in Handler : Become(r, g)
    BY <1>4, <1>11, <2>1 DEF rememberJEGKernelID, NeedsKernel
  <2>3. {h.kid} \in SUBSET Kernels /\ remembered({h.kid})
    BY <1>11, <2>1 DEF rememberJEGKernelID
  <2>. QED BY <1>11, <2>2, <2>3, RememberedType, HandlerAndKnown DEF rememberJEGKernelID
<1>12. CASE findJEGKernelNameByID(r)
  <2>1. h.kid # None
    BY <1>2, <1>12 DEF findJEGKernelNameByID, At, NeedsKernel
  <2>2. \E g \in Handler : Become(r, g)
    BY <1>4, <1>12, <2>1 DEF findJEGKernelNameByID, NeedsKernel
  <2>3. knownJEGKernelIDs' \in SUBSET Kernels
    BY <1>12, ListingType DEF findJEGKernelNameByID, TypeOK
  <2>. QED BY <1>12, <2>2, <2>3, HandlerAndKnown DEF findJEGKernelNameByID
<1>13. CASE Bind(r)
  <2>1. h.kid \in Kernels
    BY <1>2, <1>13 DEF Bind, At, NeedsKernel
  <2>2. Reply(h, "ok", {[sid |-> h.sid, kid |-> h.kid, path |-> h.meta]}) \in Handler
    <3>1. {[sid |-> h.sid, kid |-> h.kid, path |-> h.meta]} \in SUBSET Entry
      BY <1>2, <2>1 DEF Entry
    <3>. QED BY <1>1, <3>1, ReplyType
  <2>3. sessionKernelOverrides' \in [Sessions -> Override \cup {None}]
    BY <1>2, <1>13, <2>1, OverridesType DEF Bind
  <2>. QED BY <1>13, <2>2, <2>3, HandlerAndOverrides DEF Bind
<1>. QED BY <1>5, <1>6, <1>7, <1>8, <1>9, <1>10, <1>11, <1>12, <1>13

LEMMA PatchTypes ==
    ASSUME ConstantsOK, TypeOK, NEW r \in Requests,
           \/ PatchLoad(r) \/ fetchContainerSessionMetadata(r) \/ PatchTouch(r)
           \/ PatchStore(r) \/ PatchForward(r) \/ PatchRelease(r) \/ PatchSpec(r)
           \/ PatchDrop(r) \/ PatchCreate(r)
    PROVE  TypeOK'
<1>. DEFINE h == handler[r]
<1>1. h \in Handler
  BY AtType DEF PatchLoad, fetchContainerSessionMetadata, PatchTouch, PatchStore,
                PatchForward, PatchRelease, PatchSpec, PatchDrop, PatchCreate
<1>2. /\ h.sid \in Sessions /\ h.meta \in Paths /\ h.path \in Paths \cup {None}
      /\ h.ov \in Override \cup {None} /\ h.out \in SUBSET Entry
      /\ h.pc \in NeedsOverride => h.ov # None
  BY <1>1 DEF Handler, Locals
<1>3. /\ \A l \in PlainLabels : Goto(h, l) \in Handler
      /\ ResolveKernel(h) \in Handler
      /\ Reply(h, "failed", {}) \in Handler
      /\ Reply(h, "ok", h.out) \in Handler
      /\ ResolveKernel(Untold(h)) \in Handler /\ Reply(Untold(h), "failed", {}) \in Handler
  BY <1>1, <1>2, PlainType, ResolveKernelType, ReplyType, UntoldType
<1>4. \A p \in Paths : ResolveKernel([h EXCEPT !.meta = applySessionMetadataPatch(p, h.path)]) \in Handler
  BY <1>1, <1>2, PatchType, FieldTypes, ResolveKernelType
<1>5. /\ sessionKernelOverrides[h.sid] \in Override \cup {None}
      /\ local[h.sid] \in Paths \cup {None}
  BY <1>2 DEF TypeOK
<1>6. CASE PatchLoad(r)
  <2>1. \A ov \in Override : ov.path \in Paths
    BY DEF Override
  <2>2. \E g \in Handler : Become(r, g)
    BY <1>3, <1>4, <1>5, <1>6, <2>1, PlainSet DEF PatchLoad
  <2>. QED BY <1>6, <2>2, HandlerOnly DEF PatchLoad
<1>7. CASE fetchContainerSessionMetadata(r)
  <2>1. \E g \in Handler : Become(r, g)
    BY <1>3, <1>4, <1>5, <1>7 DEF fetchContainerSessionMetadata
  <2>. QED BY <1>7, <2>1, HandlerOnly DEF fetchContainerSessionMetadata
<1>8. CASE PatchTouch(r)
  <2>1. \A ov \in Override : ov # None => Goto([h EXCEPT !.ov = ov], "PatchStore") \in Handler
    BY <1>1, ReadTypes
  <2>2. \E g \in Handler : Become(r, g)
    BY <1>3, <1>5, <1>8, <2>1, PlainSet DEF PatchTouch
  <2>. QED BY <1>8, <2>2, HandlerOnly DEF PatchTouch
<1>9. CASE PatchStore(r)
  <2>1. h.ov \in Override
    BY <1>2, <1>9 DEF PatchStore, At, NeedsOverride
  <2>2. h.ov.kid \in Kernels
    BY <2>1 DEF Override
  <2>3. {[sid |-> h.sid, kid |-> h.ov.kid, path |-> h.meta]} \in SUBSET Entry
    BY <1>2, <2>2 DEF Entry
  <2>4. Reply(h, "ok", {[sid |-> h.sid, kid |-> h.ov.kid, path |-> h.meta]}) \in Handler
    BY <1>1, <2>3, ReplyType
  <2>5. sessionKernelOverrides' \in [Sessions -> Override \cup {None}]
    BY <1>2, <1>9, <2>2, OverridesType DEF PatchStore
  <2>. QED BY <1>9, <2>4, <2>5, HandlerAndOverrides DEF PatchStore
<1>10. CASE PatchForward(r)
  <2>. DEFINE patched == applySessionMetadataPatch(local[h.sid], h.path)
              e == [sid |-> h.sid, kid |-> None, path |-> patched]
  <2>1. local[h.sid] # None => patched \in Paths
    BY <1>2, <1>5, PatchType
  <2>2. local[h.sid] # None => Goto([h EXCEPT !.out = {e}], "PatchRelease") \in Handler
    <3>1. local[h.sid] # None => {e} \in SUBSET Entry
      BY <1>2, <2>1 DEF Entry
    <3>. QED BY <1>1, <3>1, FieldTypes, PlainType, PlainSet
  <2>. HIDE DEF e
  <2>3. \/ /\ local[h.sid] # None
           /\ local' = [local EXCEPT ![h.sid] = patched]
           /\ \/ Become(r, Goto([h EXCEPT !.out = {e}], "PatchRelease"))
              \/ Become(r, Reply(Untold(h), "failed", {}))
        \/ Become(r, Goto(h, "PatchSpec")) /\ UNCHANGED local
        \/ Become(r, Reply(h, "failed", {})) /\ UNCHANGED local
    BY <1>10 DEF PatchForward, e
  <2>4. local' \in [Sessions -> Paths \cup {None}]
    BY <1>2, <2>1, <2>3 DEF TypeOK
  <2>5. \E g \in Handler : Become(r, g)
    BY <1>3, <2>2, <2>3, PlainSet
  <2>. QED BY <1>10, <2>4, <2>5, BecomeType DEF PatchForward, TypeOK
<1>11. CASE PatchRelease(r)
  BY <1>3, <1>11, ClearType, HandlerAndOverrides DEF PatchRelease
<1>12. CASE PatchSpec(r)
  <2>1. \E g \in Handler : Become(r, g)
    BY <1>3, <1>12, PlainSet DEF PatchSpec
  <2>. QED BY <1>12, <2>1, HandlerOnly DEF PatchSpec
<1>13. CASE PatchDrop(r)
  BY <1>3, <1>13, PlainSet, ClearType, HandlerAndOverrides DEF PatchDrop
<1>14. CASE PatchCreate(r)
  <2>1. CreateInContainer(r, h.meta, Reply(h, "failed", {}))
    BY <1>14 DEF PatchCreate
  <2>. QED BY <1>1, <1>2, <1>3, <1>14, <2>1, CreateType DEF PatchCreate, TypeOK
<1>. QED BY <1>6, <1>7, <1>8, <1>9, <1>10, <1>11, <1>12, <1>13, <1>14

LEMMA OtherTypes ==
    ASSUME ConstantsOK, TypeOK,
           \/ Environment
           \/ \E r \in Requests : \/ DeleteClear(r) \/ DeleteContainer(r) \/ Finish(r)
                                  \/ \E c \in Calls : Start(r, c)
    PROVE  TypeOK'
<1>1. CASE Environment
  BY <1>1, ClearType DEF Environment, Launch, Die, EvictKnown, EvictOverride, ProxyRestart,
                         ContainerRestart, TypeOK
<1>2. ASSUME NEW r \in Requests, DeleteClear(r)
      PROVE  TypeOK'
  <2>1. Goto(handler[r], "DeleteContainer") \in Handler
    BY <1>2, AtType, PlainType, PlainSet DEF DeleteClear
  <2>. QED BY <1>2, <2>1, ClearType, HandlerAndOverrides DEF DeleteClear
<1>3. ASSUME NEW r \in Requests, DeleteContainer(r)
      PROVE  TypeOK'
  <2>1. Reply(handler[r], "ok", {}) \in Handler /\ Reply(Untold(handler[r]), "ok", {}) \in Handler
    BY <1>3, AtType, UntoldType, ReplyType DEF DeleteContainer
  <2>2. local' \in [Sessions -> Paths \cup {None}]
    BY <1>3 DEF DeleteContainer, TypeOK
  <2>. QED BY <1>3, <2>1, <2>2, BecomeType DEF DeleteContainer, TypeOK
<1>4. ASSUME NEW r \in Requests, Finish(r)
      PROVE  TypeOK'
  BY <1>4, HandlerOnly DEF Finish
<1>5. ASSUME NEW r \in Requests, NEW c \in Calls, Start(r, c)
      PROVE  TypeOK'
  <2>1. PICK micro \in BOOLEAN : Become(r, Dispatch(Fresh(c, micro)))
    BY <1>5 DEF Start
  <2>2. Dispatch(Fresh(c, micro)) \in Handler
    BY FreshType, DispatchType
  <2>3. c.sid \in Sessions
    BY DEF ConstantsOK, Call
  <2>. QED BY <1>5, <2>1, <2>2, <2>3, BecomeType DEF Start, TypeOK
<1>. QED BY <1>1, <1>2, <1>3, <1>4, <1>5

\* The state of the maps, of the handlers and of the outside stays well formed; a
\* handler never takes a step that uses an override, a kernel or a session it has
\* not read.
THEOREM TypeCorrect == Spec => []TypeOK
<1>1. Init => TypeOK
  BY DEF Init, TypeOK
<1>2. TypeOK /\ [Next]_vars => TypeOK'
  <2>. SUFFICES ASSUME TypeOK, [Next]_vars PROVE TypeOK'
    OBVIOUS
  <2>1. CASE Environment
    BY <2>1, ConstantsOK, OtherTypes
  <2>2. ASSUME NEW r \in Requests, NEW c \in Calls, Start(r, c) PROVE TypeOK'
    BY <2>2, ConstantsOK, OtherTypes
  <2>3. ASSUME NEW r \in Requests, Handle(r) PROVE TypeOK'
    BY <2>3, ConstantsOK, GetTypes, ListTypes, BindTypes, PatchTypes, OtherTypes DEF Handle
  <2>4. CASE UNCHANGED vars
    BY <2>4 DEF vars, TypeOK
  <2>. QED BY <2>1, <2>2, <2>3, <2>4 DEF Next
<1>. QED BY <1>1, <1>2, PTL DEF Spec

----------------------------------------------------------------------------
(* Bindings are to launched kernels, and polls show no dead one.             *)
(*                                                                          *)
(* Neither is inductive: a binding is made from what a handler has read, and  *)
(* a poll answers from what it has gathered, so the invariant says of every   *)
(* handler what it may carry from one step to the next.                       *)

BoundLabels == {"Remember", "Name", "Bind"}

PollLabels == {"GetLoad", "GetJeg", "GetClear", "GetContainer",
               "ListJeg", "ListContainer", "ListMerge", "ListMergeClear",
               "ListRange", "ListRangeClear", "reply"}

Polls == {"get", "list"}

\* What a handler is about to bind, or has read from the map, was launched; a poll
\* has gathered no kernel that was dead when it began.
Honest(h) ==
    /\ h.pc \in BoundLabels => h.kid \in Launched
    /\ h.ov # None => h.ov.kid \in Launched
    /\ h.gone \subseteq Dead
    /\ h.snap \cap h.gone = {}
    /\ \A e \in h.cont : e.kid = None
    /\ h.op \in Polls => h.pc \in PollLabels /\ \A e \in h.out : e.kid \notin h.gone

Sound ==
    /\ BoundToLaunched
    /\ knownJEGKernelIDs \subseteq Launched
    /\ \A r \in Requests : handler[r] # None => Honest(handler[r])

\* What each control operator leaves alone.
LEMMA GotoFields ==
    ASSUME NEW h \in Handler, NEW l
    PROVE  /\ Goto(h, l).pc = l /\ Goto(h, l).op = h.op /\ Goto(h, l).kid = h.kid
           /\ Goto(h, l).ov = h.ov /\ Goto(h, l).snap = h.snap /\ Goto(h, l).cont = h.cont
           /\ Goto(h, l).out = h.out /\ Goto(h, l).gone = h.gone
BY DEF Goto, Handler, Locals

LEMMA GotoHonest ==
    ASSUME NEW h \in Handler, Honest(h), NEW l,
           l \in BoundLabels => h.kid \in Launched,
           h.op \in Polls => l \in PollLabels
    PROVE  Honest(Goto(h, l))
BY GotoFields DEF Honest

LEMMA OutHonest ==
    ASSUME NEW h \in Handler, Honest(h), NEW es \in SUBSET Entry,
           h.op \in Polls => \A e \in es : e.kid \notin h.gone
    PROVE  Honest([h EXCEPT !.out = es])
BY DEF Honest, Handler, Locals

LEMMA SetHonest ==
    ASSUME NEW h \in Handler, Honest(h)
    PROVE  /\ \A st : Honest([h EXCEPT !.status = st])
           /\ \A ss : Honest([h EXCEPT !.todo = ss])
           /\ \A p : Honest([h EXCEPT !.meta = p])
           /\ \A s : Honest([h EXCEPT !.cur = s])
<1>1. \A st : Honest([h EXCEPT !.status = st])
  BY DEF Honest, Handler, Locals
<1>2. \A ss : Honest([h EXCEPT !.todo = ss])
  BY DEF Honest, Handler, Locals
<1>3. \A p : Honest([h EXCEPT !.meta = p])
  BY DEF Honest, Handler, Locals
<1>4. \A s : Honest([h EXCEPT !.cur = s])
  BY DEF Honest, Handler, Locals
<1>. QED BY <1>1, <1>2, <1>3, <1>4

LEMMA UntoldHonest ==
    ASSUME NEW h \in Handler, Honest(h)
    PROVE  Honest(Untold(h))
BY DEF Untold, Honest, Handler, Locals

LEMMA ReadHonest ==
    ASSUME NEW h \in Handler, Honest(h)
    PROVE  /\ \A ov \in Override : ov.kid \in Launched => Honest([h EXCEPT !.ov = ov])
           /\ \A k \in Launched : Honest([h EXCEPT !.kid = k])
           /\ \A ks \in SUBSET Running : Honest([h EXCEPT !.snap = ks])
           /\ \A es \in SUBSET Entry : (\A e \in es : e.kid = None) => Honest([h EXCEPT !.cont = es])
<1>1. \A ov \in Override : ov.kid \in Launched => Honest([h EXCEPT !.ov = ov])
  BY DEF Honest, Handler, Locals
<1>2. \A k \in Launched : Honest([h EXCEPT !.kid = k])
  BY DEF Honest, Handler, Locals
<1>3. ASSUME NEW ks \in SUBSET Running PROVE Honest([h EXCEPT !.snap = ks])
  <2>1. ks \cap h.gone = {}
    BY DEF Honest, Running, Dead
  <2>. QED BY <2>1 DEF Honest, Handler, Locals
<1>4. \A es \in SUBSET Entry : (\A e \in es : e.kid = None) => Honest([h EXCEPT !.cont = es])
  BY DEF Honest, Handler, Locals
<1>. QED BY <1>1, <1>2, <1>3, <1>4

LEMMA ReplyHonest ==
    ASSUME NEW h \in Handler, Honest(h), NEW st \in {"ok", "missing", "failed"},
           NEW es \in SUBSET Entry, h.op \in Polls => \A e \in es : e.kid \notin h.gone
    PROVE  Honest(Reply(h, st, es))
<1>. DEFINE g == [h EXCEPT !.status = st]
<1>1. g \in Handler /\ Honest(g) /\ g.op = h.op /\ g.gone = h.gone
  <2>1. g \in Handler /\ Honest(g)
    BY FieldTypes, SetHonest
  <2>2. g.op = h.op /\ g.gone = h.gone
    BY DEF Handler, Locals
  <2>. QED BY <2>1, <2>2
<1>. HIDE DEF g
<1>2. [g EXCEPT !.out = es] \in Handler /\ Honest([g EXCEPT !.out = es])
  BY <1>1, FieldTypes, OutHonest
<1>3. Reply(h, st, es) = Goto([g EXCEPT !.out = es], "reply")
  BY DEF Reply, g
<1>. QED BY <1>2, <1>3, GotoHonest DEF BoundLabels, PollLabels

LEMMA NotJegHonest ==
    ASSUME NEW h \in Handler, Honest(h), h.op \notin Polls
    PROVE  Honest(NotJeg(h))
BY GotoHonest DEF NotJeg, BoundLabels

LEMMA ResolveHonest ==
    ASSUME NEW h \in Handler, Honest(h), h.op \notin Polls
    PROVE  Honest(ResolveKernel(h))
BY GotoHonest, NotJegHonest DEF ResolveKernel, BoundLabels

LEMMA MergingHonest ==
    ASSUME NEW h \in Handler, Honest(h), NEW es \in SUBSET Entry, \A e \in es : e.kid = None
    PROVE  Honest(Merging(h, es))
<1>1. /\ [h EXCEPT !.cont = es] \in Handler /\ Honest([h EXCEPT !.cont = es])
      /\ [h EXCEPT !.cont = {}] \in Handler /\ Honest([h EXCEPT !.cont = {}])
  BY FieldTypes, ReadHonest
<1>2. /\ [[h EXCEPT !.cont = {}] EXCEPT !.todo = Sessions] \in Handler
      /\ Honest([[h EXCEPT !.cont = {}] EXCEPT !.todo = Sessions])
  BY <1>1, FieldTypes, SetHonest
<1>. QED BY <1>1, <1>2, GotoHonest DEF Merging, BoundLabels, PollLabels

\* A local session is on no dead kernel.
LEMMA LocalAlive ==
    ASSUME ConstantsOK, NEW h \in Handler
    PROVE  None \notin h.gone
BY DEF ConstantsOK, Handler, Locals

\* The effect of a handler's step on the invariant, in terms of its new locals, of
\* the bindings and of the known ids.
LEMMA SoundStep ==
    ASSUME TypeOK, Sound, NEW r \in Requests, NEW g \in Handler, Honest(g), Become(r, g),
           UNCHANGED kernels,
           knownJEGKernelIDs' \subseteq Launched,
           \A s \in Sessions : sessionKernelOverrides'[s] # None =>
               sessionKernelOverrides'[s].kid \in Launched
    PROVE  Sound'
<1>1. Launched' = Launched /\ Dead' = Dead
  BY DEF Launched, Running, Dead
<1>2. \A q \in Requests : handler'[q] = IF q = r THEN g ELSE handler[q]
  BY DEF TypeOK, Become
<1>3. \A q \in Requests : handler'[q] # None => Honest(handler'[q])
  BY <1>2 DEF Sound
<1>4. \A q \in Requests : handler'[q] # None => Honest(handler[q])'
  BY <1>1, <1>3 DEF Honest
<1>5. BoundToLaunched'
  BY <1>1 DEF BoundToLaunched
<1>. QED BY <1>1, <1>4, <1>5 DEF Sound

\* The usual cases: the maps are left alone, kernels are listed, or an override is
\* cleared or set.
LEMMA SoundPlain ==
    ASSUME TypeOK, Sound, NEW r \in Requests, NEW g \in Handler, Honest(g), Become(r, g),
           UNCHANGED <<sessionKernelOverrides, knownJEGKernelIDs, kernels>>
    PROVE  Sound'
BY SoundStep DEF Sound, BoundToLaunched

LEMMA SoundListing ==
    ASSUME TypeOK, Sound, NEW r \in Requests, NEW g \in Handler, Honest(g), Become(r, g),
           UNCHANGED <<sessionKernelOverrides, kernels>>,
           knownJEGKernelIDs' \subseteq Launched
    PROVE  Sound'
BY SoundStep DEF Sound, BoundToLaunched

LEMMA SoundClear ==
    ASSUME TypeOK, Sound, NEW r \in Requests, NEW g \in Handler, Honest(g), Become(r, g),
           UNCHANGED <<knownJEGKernelIDs, kernels>>,
           NEW s, clearSessionKernelOverride(s)
    PROVE  Sound'
<1>1. \A t \in Sessions : sessionKernelOverrides'[t] \in {sessionKernelOverrides[t], None}
  BY DEF TypeOK, clearSessionKernelOverride
<1>. QED BY <1>1, SoundStep DEF Sound, BoundToLaunched

LEMMA SoundSet ==
    ASSUME TypeOK, Sound, NEW r \in Requests, NEW g \in Handler, Honest(g), Become(r, g),
           UNCHANGED <<knownJEGKernelIDs, kernels>>,
           NEW s, NEW k \in Launched, NEW p, setSessionKernelOverride(s, k, p)
    PROVE  Sound'
<1>1. \A t \in Sessions : \/ sessionKernelOverrides'[t] = sessionKernelOverrides[t]
                          \/ sessionKernelOverrides'[t] = [kid |-> k, path |-> p]
  BY DEF TypeOK, setSessionKernelOverride
<1>. QED BY <1>1, SoundStep DEF Sound, BoundToLaunched

\* Listed kernels run, so they were launched.
LEMMA Listed ==
    ASSUME NEW ks \in listJEGKernels
    PROVE  ks \subseteq Running /\ ks \subseteq Launched
BY DEF listJEGKernels, Launched

LEMMA ListedKnown ==
    ASSUME Sound, NEW ks, ks \subseteq Launched, remembered(ks)
    PROVE  knownJEGKernelIDs' \subseteq Launched
BY DEF Sound, remembered

LEMMA GetSound ==
    ASSUME ConstantsOK, TypeOK, Sound, NEW r \in Requests,
           GetLoad(r) \/ GetJeg(r) \/ GetClear(r) \/ GetContainer(r)
    PROVE  Sound'
<1>. DEFINE h == handler[r]
<1>1. h \in Handler /\ Honest(h)
  BY AtType DEF GetLoad, GetJeg, GetClear, GetContainer, Sound, At
<1>2. /\ h.sid \in Sessions /\ h.ov \in Override \cup {None}
      /\ h.pc \in NeedsOverride => h.ov # None
  BY <1>1 DEF Handler, Locals
<1>3. \A l \in PollLabels : Honest(Goto(h, l))
  BY <1>1, GotoHonest DEF PollLabels, BoundLabels
<1>4. \A l \in PollLabels \ {"GetJeg", "ListMergeClear", "ListRangeClear"} : Goto(h, l) \in Handler
  BY <1>1, PlainType, PlainSet DEF PollLabels
<1>5. CASE GetLoad(r)
  <2>. DEFINE ov == sessionKernelOverrides[h.sid]
  <2>1. CASE ov = None
    BY <1>3, <1>4, <1>5, <2>1, SoundPlain DEF GetLoad, PollLabels
  <2>2. CASE ov # None
    <3>1. ov \in Override /\ ov.kid \in Launched
      BY <1>2, <2>2 DEF TypeOK, Sound, BoundToLaunched
    <3>2. [h EXCEPT !.ov = ov] \in Handler
      BY <1>1, <2>2, <3>1 DEF Handler, Locals, NeedsOverride
    <3>3. Honest([h EXCEPT !.ov = ov])
      BY <1>1, <3>1, ReadHonest
    <3>4. Goto([h EXCEPT !.ov = ov], "GetJeg") \in Handler
      BY <1>1, <2>2, <3>1, ReadTypes
    <3>5. Honest(Goto([h EXCEPT !.ov = ov], "GetJeg"))
      BY <3>2, <3>3, GotoHonest DEF PollLabels, BoundLabels
    <3>6. Become(r, Goto([h EXCEPT !.ov = ov], "GetJeg"))
      BY <1>5, <2>2 DEF GetLoad
    <3>. QED BY <1>5, <3>4, <3>5, <3>6, SoundPlain DEF GetLoad
  <2>. QED BY <2>1, <2>2
<1>6. CASE GetJeg(r)
  <2>1. h.ov \in Override
    BY <1>2, <1>6 DEF GetJeg, At, NeedsOverride
  <2>. DEFINE e == buildSessionCompatResponse(h.sid, h.ov)
  <2>2. PICK ks \in listJEGKernels :
          /\ remembered(ks)
          /\ Become(r, IF h.ov.kid \in ks THEN Reply(h, "ok", {e}) ELSE Goto(h, "GetClear"))
    BY <1>6 DEF GetJeg
  <2>3. knownJEGKernelIDs' \subseteq Launched
    BY <2>2, Listed, ListedKnown
  <2>4. CASE h.ov.kid \in ks
    <3>1. {e} \in SUBSET Entry
      BY <1>2, <2>1, EntryTypes
    <3>2. e.kid \notin h.gone
      BY <1>1, <2>4, Listed DEF Honest, Running, Dead, buildSessionCompatResponse
    <3>3. Reply(h, "ok", {e}) \in Handler /\ Honest(Reply(h, "ok", {e}))
      BY <1>1, <3>1, <3>2, ReplyType, ReplyHonest
    <3>. QED BY <1>6, <2>2, <2>3, <2>4, <3>3, SoundListing DEF GetJeg
  <2>5. CASE h.ov.kid \notin ks
    BY <1>3, <1>4, <1>6, <2>2, <2>3, <2>5, SoundListing DEF GetJeg, PollLabels
  <2>. QED BY <2>4, <2>5
<1>7. CASE GetClear(r)
  BY <1>3, <1>4, <1>7, SoundClear DEF GetClear, PollLabels
<1>8. CASE GetContainer(r)
  <2>1. /\ Reply(h, "missing", {}) \in Handler /\ Honest(Reply(h, "missing", {}))
        /\ Reply(Untold(h), "missing", {}) \in Handler
        /\ Honest(Reply(Untold(h), "missing", {}))
    BY <1>1, UntoldType, UntoldHonest, ReplyType, ReplyHonest
  <2>2. CASE Become(r, Reply(h, "missing", {})) \/ Become(r, Reply(Untold(h), "missing", {}))
    BY <1>8, <2>1, <2>2, SoundPlain DEF GetContainer
  <2>3. CASE local[h.sid] # None /\ Become(r, Reply(h, "ok", {LocalEntry(h.sid)}))
    <3>1. {LocalEntry(h.sid)} \in SUBSET Entry
      BY <1>2, <2>3, EntryTypes
    <3>2. LocalEntry(h.sid).kid \notin h.gone
      BY <1>1, LocalAlive DEF LocalEntry
    <3>3. /\ Reply(h, "ok", {LocalEntry(h.sid)}) \in Handler
          /\ Honest(Reply(h, "ok", {LocalEntry(h.sid)}))
      BY <1>1, <3>1, <3>2, ReplyType, ReplyHonest
    <3>. QED BY <1>8, <2>3, <3>3, SoundPlain DEF GetContainer
  <2>. QED BY <1>8, <2>2, <2>3 DEF GetContainer
<1>. QED BY <1>5, <1>6, <1>7, <1>8

LEMMA ListSound ==
    ASSUME ConstantsOK, TypeOK, Sound, NEW r \in Requests,
           \/ ListJeg(r) \/ ListContainer(r) \/ ListMerge(r) \/ ListMergeClear(r)
           \/ ListRange(r) \/ ListRangeClear(r)
    PROVE  Sound'
<1>. DEFINE h == handler[r]
<1>1. h \in Handler /\ Honest(h)
  BY AtType DEF ListJeg, ListContainer, ListMerge, ListMergeClear, ListRange, ListRangeClear,
                Sound, At
<1>2. /\ h.cont \in SUBSET Entry /\ h.todo \in SUBSET Sessions /\ h.out \in SUBSET Entry
      /\ \A e \in h.cont : e.kid = None /\ e.kid \notin h.gone
      /\ h.op \in Polls => \A e \in h.out : e.kid \notin h.gone
  BY <1>1, LocalAlive DEF Handler, Locals, Honest
<1>3. ASSUME NEW es \in SUBSET h.cont
      PROVE  /\ Merging(h, es) \in Handler /\ Honest(Merging(h, es))
             /\ Merging(h, es).op = h.op /\ Merging(h, es).gone = h.gone
  <2>1. es \in SUBSET Entry /\ \A e \in es : e.kid = None
    BY <1>2, <1>3
  <2>2. Merging(h, es) \in Handler /\ Honest(Merging(h, es))
    BY <1>1, <2>1, MergingType, MergingHonest
  <2>3. Merging(h, es).op = h.op /\ Merging(h, es).gone = h.gone
    BY <1>1 DEF Merging, Goto, Handler, Locals
  <2>. QED BY <2>2, <2>3
<1>4. ASSUME NEW es \in SUBSET h.cont, NEW fs \in SUBSET h.cont
      PROVE  /\ [Merging(h, es) EXCEPT !.out = h.out \cup fs] \in Handler
             /\ Honest([Merging(h, es) EXCEPT !.out = h.out \cup fs])
  <2>1. /\ h.out \cup fs \in SUBSET Entry
        /\ h.op \in Polls => \A e \in h.out \cup fs : e.kid \notin h.gone
    BY <1>2, <1>4
  <2>. QED BY <1>3, <2>1, FieldTypes, OutHonest
<1>5. CASE ListJeg(r)
  <2>1. PICK ks \in listJEGKernels :
          remembered(ks) /\ Become(r, Goto([h EXCEPT !.snap = ks], "ListContainer"))
    BY <1>5 DEF ListJeg
  <2>2. knownJEGKernelIDs' \subseteq Launched
    BY <2>1, Listed, ListedKnown
  <2>3. [h EXCEPT !.snap = ks] \in Handler /\ Honest([h EXCEPT !.snap = ks])
    BY <1>1, Listed, ListingType, FieldTypes, ReadHonest
  <2>4. /\ Goto([h EXCEPT !.snap = ks], "ListContainer") \in Handler
        /\ Honest(Goto([h EXCEPT !.snap = ks], "ListContainer"))
    BY <2>3, PlainType, PlainSet, GotoHonest DEF PollLabels, BoundLabels
  <2>. QED BY <1>5, <2>1, <2>2, <2>4, SoundListing DEF ListJeg
<1>6. CASE ListContainer(r)
  <2>. DEFINE es == {LocalEntry(s) : s \in {x \in Sessions : local[x] # None}}
  <2>1. es \in SUBSET Entry /\ \A e \in es : e.kid = None
    BY EntryTypes DEF LocalEntry
  <2>2. /\ Merging(h, es) \in Handler /\ Honest(Merging(h, es))
        /\ Merging(h, {}) \in Handler /\ Honest(Merging(h, {}))
        /\ Merging(Untold(h), {}) \in Handler /\ Honest(Merging(Untold(h), {}))
    BY <1>1, <2>1, UntoldType, UntoldHonest, MergingType, MergingHonest
  <2>3. \/ Become(r, Merging(h, es)) \/ Become(r, Merging(h, {}))
        \/ Become(r, Merging(Untold(h), {}))
    BY <1>6 DEF ListContainer
  <2>. QED BY <1>6, <2>2, <2>3, SoundPlain DEF ListContainer
<1>7. CASE ListMerge(r)
  <2>1. PICK e \in h.cont :
          \/ Become(r, [Merging(h, h.cont \ {e}) EXCEPT !.out = h.out \cup {e}])
          \/ Become(r, Merging(h, h.cont \ {e}))
          \/ Become(r, Goto([h EXCEPT !.cur = e.sid], "ListMergeClear"))
    BY <1>7 DEF ListMerge
  <2>2. h.cont \ {e} \in SUBSET h.cont /\ {e} \in SUBSET h.cont /\ e.sid \in Sessions
    BY <1>2 DEF Entry
  <2>3. [h EXCEPT !.cur = e.sid] \in Handler /\ Honest([h EXCEPT !.cur = e.sid])
    BY <1>1, <2>2, SetHonest DEF Handler, Locals, ConstantsOK
  <2>4. /\ Goto([h EXCEPT !.cur = e.sid], "ListMergeClear") \in Handler
        /\ Honest(Goto([h EXCEPT !.cur = e.sid], "ListMergeClear"))
    BY <1>1, <2>2, <2>3, ReadTypes, GotoHonest DEF PollLabels, BoundLabels
  <2>. QED BY <1>3, <1>4, <1>7, <2>1, <2>2, <2>4, SoundPlain DEF ListMerge
<1>8. CASE ListMergeClear(r)
  <2>. DEFINE here == {e \in h.cont : e.sid = h.cur}
  <2>1. h.cont \ here \in SUBSET h.cont /\ here \in SUBSET h.cont
    OBVIOUS
  <2>2. /\ clearSessionKernelOverride(h.cur)
        /\ Become(r, [Merging(h, h.cont \ here) EXCEPT !.out = h.out \cup here])
    BY <1>8 DEF ListMergeClear
  <2>. HIDE DEF here
  <2>. QED BY <1>4, <1>8, <2>1, <2>2, SoundClear DEF ListMergeClear
<1>9. CASE ListRange(r)
  <2>1. CASE Become(r, Reply(h, "ok", h.out))
    BY <1>1, <1>2, <1>9, <2>1, ReplyType, ReplyHonest, SoundPlain DEF ListRange
  <2>2. ASSUME NEW s \in h.todo,
               LET ov == sessionKernelOverrides[s]
                   visited == [h EXCEPT !.todo = h.todo \ {s}]
               IN  Become(r, IF ov = None THEN visited
                             ELSE IF ov.kid \in h.snap
                             THEN [visited EXCEPT !.out = h.out \cup {buildSessionCompatResponse(s, ov)}]
                             ELSE Goto([visited EXCEPT !.cur = s], "ListRangeClear"))
        PROVE  Sound'
    <3>. DEFINE ov == sessionKernelOverrides[s]
                v == [h EXCEPT !.todo = h.todo \ {s}]
                e == buildSessionCompatResponse(s, ov)
    <3>1. s \in Sessions /\ ov \in Override \cup {None}
      BY <1>2, <2>2 DEF TypeOK
    <3>2. v \in Handler /\ Honest(v)
      BY <1>1, <1>2, FieldTypes, SetHonest
    <3>3. v.op = h.op /\ v.gone = h.gone
      BY <1>1 DEF Handler, Locals
    <3>4. Become(r, IF ov = None THEN v
                    ELSE IF ov.kid \in h.snap THEN [v EXCEPT !.out = h.out \cup {e}]
                    ELSE Goto([v EXCEPT !.cur = s], "ListRangeClear"))
      BY <2>2
    <3>. HIDE DEF v
    <3>5. CASE ov = None
      BY <1>9, <3>2, <3>4, <3>5, SoundPlain DEF ListRange
    <3>6. CASE ov # None /\ ov.kid \in h.snap
      <4>1. e \in Entry /\ e.kid = ov.kid
        BY <3>1, <3>6, EntryTypes DEF buildSessionCompatResponse
      <4>2. ov.kid \notin h.gone
        BY <1>1, <3>6 DEF Honest
      <4>3. /\ h.out \cup {e} \in SUBSET Entry
            /\ v.op \in Polls => \A f \in h.out \cup {e} : f.kid \notin v.gone
        BY <1>2, <3>3, <4>1, <4>2
      <4>4. /\ [v EXCEPT !.out = h.out \cup {e}] \in Handler
            /\ Honest([v EXCEPT !.out = h.out \cup {e}])
        BY <3>2, <4>3, FieldTypes, OutHonest
      <4>. QED BY <1>9, <3>4, <3>6, <4>4, SoundPlain DEF ListRange
    <3>7. CASE ov # None /\ ov.kid \notin h.snap
      <4>1. [v EXCEPT !.cur = s] \in Handler /\ Honest([v EXCEPT !.cur = s])
        BY <3>1, <3>2, SetHonest DEF Handler, Locals, ConstantsOK
      <4>2. /\ Goto([v EXCEPT !.cur = s], "ListRangeClear") \in Handler
            /\ Honest(Goto([v EXCEPT !.cur = s], "ListRangeClear"))
        BY <3>1, <3>2, <4>1, ReadTypes, GotoHonest DEF PollLabels, BoundLabels
      <4>. QED BY <1>9, <3>4, <3>7, <4>2, SoundPlain DEF ListRange
    <3>. QED BY <3>5, <3>6, <3>7
  <2>. QED BY <1>9, <2>1, <2>2 DEF ListRange
<1>10. CASE ListRangeClear(r)
  <2>1. Goto(h, "ListRange") \in Handler /\ Honest(Goto(h, "ListRange"))
    BY <1>1, PlainType, PlainSet, GotoHonest DEF PollLabels, BoundLabels
  <2>. QED BY <1>10, <2>1, SoundClear DEF ListRangeClear
<1>. QED BY <1>5, <1>6, <1>7, <1>8, <1>9, <1>10

\* Outside the polls, a handler may move freely between the labels before Remember.
LEMMA ModifierMoves ==
    ASSUME TypeOK, Sound, NEW r \in Requests, NEW l \in Labels \ PollLabels, At(r, l)
    PROVE  /\ handler[r] \in Handler /\ Honest(handler[r]) /\ handler[r].op \notin Polls
           /\ \A m \in PlainLabels : /\ Goto(handler[r], m) \in Handler
                                     /\ Honest(Goto(handler[r], m))
           /\ ResolveKernel(handler[r]) \in Handler /\ Honest(ResolveKernel(handler[r]))
           /\ NotJeg(handler[r]) \in Handler /\ Honest(NotJeg(handler[r]))
           /\ \A st \in {"ok", "missing", "failed"} : \A es \in SUBSET Entry :
                 /\ Reply(handler[r], st, es) \in Handler
                 /\ Honest(Reply(handler[r], st, es))
<1>. DEFINE h == handler[r]
<1>1. h \in Handler /\ Honest(h) /\ h.pc = l
  BY AtType DEF Sound, At
<1>2. h.op \notin Polls
  BY <1>1 DEF Honest
<1>3. \A m \in PlainLabels : Goto(h, m) \in Handler /\ Honest(Goto(h, m))
  BY <1>1, <1>2, PlainType, PlainSet, GotoHonest DEF BoundLabels
<1>4. /\ ResolveKernel(h) \in Handler /\ Honest(ResolveKernel(h))
      /\ NotJeg(h) \in Handler /\ Honest(NotJeg(h))
  BY <1>1, <1>2, ResolveKernelType, ResolveHonest, NotJegType, NotJegHonest
<1>5. \A st \in {"ok", "missing", "failed"} : \A es \in SUBSET Entry :
        Reply(h, st, es) \in Handler /\ Honest(Reply(h, st, es))
  BY <1>1, <1>2, ReplyType, ReplyHonest
<1>. QED BY <1>1, <1>2, <1>3, <1>4, <1>5

\* Towards a binding, a handler carries a launched kernel.
LEMMA BinderMoves ==
    ASSUME ConstantsOK, NEW h \in Handler, Honest(h), h.op \notin Polls, NEW m \in BoundLabels,
           h.kid \in Launched
    PROVE  Goto(h, m) \in Handler /\ Honest(Goto(h, m))
<1>1. h.kid # None
  BY DEF Launched, Running, Dead, ConstantsOK
<1>2. m \in Labels \ (NeedsOverride \cup NeedsCurrent)
  BY DEF BoundLabels, Labels, NeedsOverride, NeedsCurrent
<1>. QED BY <1>1, <1>2, GotoType, GotoHonest

LEMMA CreateSound ==
    ASSUME TypeOK, Sound, NEW r \in Requests, NEW l \in Labels \ PollLabels, At(r, l),
           NEW p \in Paths, NEW failed \in Handler, Honest(failed),
           CreateInContainer(r, p, failed),
           UNCHANGED <<sessionKernelOverrides, knownJEGKernelIDs, kernels>>
    PROVE  Sound'
<1>1. ASSUME NEW s \in Sessions,
             Become(r, Reply(handler[r], "ok", {[sid |-> s, kid |-> None, path |-> p]}))
      PROVE  Sound'
  <2>1. {[sid |-> s, kid |-> None, path |-> p]} \in SUBSET Entry
    BY DEF Entry
  <2>. QED BY <1>1, <2>1, ModifierMoves, SoundPlain
<1>2. CASE Become(r, failed) \/ Become(r, Untold(failed))
  BY <1>2, UntoldType, UntoldHonest, SoundPlain
<1>. QED BY <1>1, <1>2 DEF CreateInContainer

LEMMA BindSound ==
    ASSUME ConstantsOK, TypeOK, Sound, NEW r \in Requests,
           \/ PostSpec(r) \/ PostLocal(r) \/ PostDefault(r)
           \/ findJEGKernelIDByName(r) \/ isKnownJEGKernelID(r) \/ jegHasKernel(r)
           \/ rememberJEGKernelID(r) \/ findJEGKernelNameByID(r) \/ Bind(r)
    PROVE  Sound'
<1>. DEFINE h == handler[r]
<1>1. PICK l \in Labels \ PollLabels : At(r, l)
  BY DEF PostSpec, PostLocal, PostDefault, findJEGKernelIDByName, isKnownJEGKernelID,
         jegHasKernel, rememberJEGKernelID, findJEGKernelNameByID, Bind, Labels, PollLabels
<1>2. /\ h \in Handler /\ Honest(h) /\ h.op \notin Polls
      /\ \A m \in PlainLabels : Goto(h, m) \in Handler /\ Honest(Goto(h, m))
      /\ ResolveKernel(h) \in Handler /\ Honest(ResolveKernel(h))
      /\ NotJeg(h) \in Handler /\ Honest(NotJeg(h))
      /\ Reply(h, "failed", {}) \in Handler /\ Honest(Reply(h, "failed", {}))
  BY <1>1, ModifierMoves
<1>3. h.sid \in Sessions /\ h.meta \in Paths
  BY <1>2 DEF Handler, Locals
<1>4. h.kid \in Launched => \A m \in BoundLabels : Goto(h, m) \in Handler /\ Honest(Goto(h, m))
  BY <1>2, BinderMoves
<1>5. CASE PostSpec(r)
  BY <1>2, <1>5, PlainSet, SoundPlain DEF PostSpec
<1>6. CASE PostLocal(r)
  BY <1>1, <1>2, <1>3, <1>6, CreateSound DEF PostLocal
<1>7. CASE PostDefault(r)
  <2>1. CASE h.micro
    BY <1>1, <1>2, <1>3, <1>7, <2>1, CreateSound DEF PostDefault
  <2>2. CASE ~h.micro
    BY <1>2, <1>7, <2>2, SoundPlain DEF PostDefault
  <2>. QED BY <2>1, <2>2
<1>8. CASE findJEGKernelIDByName(r)
  <2>1. PICK ks \in listJEGKernels :
          \/ \E k \in ks : remembered({k}) /\ Become(r, Goto([h EXCEPT !.kid = k], "Known"))
          \/ remembered({}) /\ Become(r, NotJeg(h))
    BY <1>8 DEF findJEGKernelIDByName
  <2>2. CASE remembered({}) /\ Become(r, NotJeg(h))
    BY <1>2, <1>8, <2>2, ListedKnown, SoundListing DEF findJEGKernelIDByName
  <2>3. ASSUME NEW k \in ks, remembered({k}), Become(r, Goto([h EXCEPT !.kid = k], "Known"))
        PROVE  Sound'
    <3>1. k \in Launched /\ k \in Kernels /\ k # None
      BY <2>3, Listed, ListingType DEF ConstantsOK
    <3>2. [h EXCEPT !.kid = k] \in Handler /\ [h EXCEPT !.kid = k].op = h.op
      BY <1>2, <3>1 DEF Handler, Locals
    <3>3. Honest([h EXCEPT !.kid = k])
      BY <1>2, <3>1, ReadHonest
    <3>4. /\ Goto([h EXCEPT !.kid = k], "Known") \in Handler
          /\ Honest(Goto([h EXCEPT !.kid = k], "Known"))
      BY <1>2, <3>1, <3>2, <3>3, ReadTypes, GotoHonest DEF BoundLabels
    <3>5. knownJEGKernelIDs' \subseteq Launched
      BY <2>3, <3>1, ListedKnown
    <3>. QED BY <1>8, <2>3, <3>4, <3>5, SoundListing DEF findJEGKernelIDByName
  <2>. QED BY <2>1, <2>2, <2>3
<1>9. CASE isKnownJEGKernelID(r)
  <2>1. CASE h.kid \in knownJEGKernelIDs
    BY <1>4, <1>9, <2>1, SoundPlain DEF isKnownJEGKernelID, BoundLabels, Sound
  <2>2. CASE h.kid \notin knownJEGKernelIDs
    <3>1. h.kid # None
      BY <1>2, <1>9 DEF isKnownJEGKernelID, At, Handler, NeedsKernel
    <3>2. Goto(h, "Own") \in Handler /\ Honest(Goto(h, "Own"))
      BY <1>2, <3>1, GotoType, GotoHonest
         DEF Labels, NeedsOverride, NeedsCurrent, BoundLabels
    <3>. QED BY <1>9, <2>2, <3>2, SoundPlain DEF isKnownJEGKernelID
  <2>. QED BY <2>1, <2>2
<1>10. CASE jegHasKernel(r)
  <2>1. PICK ks \in listJEGKernels :
          remembered(ks) /\ Become(r, IF h.kid \in ks THEN Goto(h, "Remember") ELSE NotJeg(h))
    BY <1>10 DEF jegHasKernel
  <2>2. knownJEGKernelIDs' \subseteq Launched /\ ks \subseteq Launched
    BY <2>1, Listed, ListedKnown
  <2>. QED BY <1>2, <1>4, <1>10, <2>1, <2>2, SoundListing DEF jegHasKernel, BoundLabels
<1>11. CASE rememberJEGKernelID(r)
  <2>1. h.kid \in Launched
    BY <1>2, <1>11 DEF rememberJEGKernelID, At, Honest, BoundLabels
  <2>2. knownJEGKernelIDs' \subseteq Launched
    BY <1>11, <2>1, ListedKnown DEF rememberJEGKernelID
  <2>. QED BY <1>4, <1>11, <2>1, <2>2, SoundListing DEF rememberJEGKernelID, BoundLabels
<1>12. CASE findJEGKernelNameByID(r)
  <2>1. h.kid \in Launched
    BY <1>2, <1>12 DEF findJEGKernelNameByID, At, Honest, BoundLabels
  <2>2. knownJEGKernelIDs' \subseteq Launched
    BY <1>12, Listed DEF findJEGKernelNameByID, Sound
  <2>. QED BY <1>4, <1>12, <2>1, <2>2, SoundListing DEF findJEGKernelNameByID, BoundLabels
<1>13. CASE Bind(r)
  <2>1. h.kid \in Launched
    BY <1>2, <1>13 DEF Bind, At, Honest, BoundLabels
  <2>2. {[sid |-> h.sid, kid |-> h.kid, path |-> h.meta]} \in SUBSET Entry
    BY <1>3, <2>1 DEF Entry, Launched, Running, Dead
  <2>3. \E g \in Handler : Honest(g) /\ Become(r, g)
    BY <1>1, <1>13, <2>2, ModifierMoves DEF Bind
  <2>. QED BY <1>13, <2>1, <2>3, SoundSet DEF Bind
<1>. QED BY <1>5, <1>6, <1>7, <1>8, <1>9, <1>10, <1>11, <1>12, <1>13

LEMMA PatchSound ==
    ASSUME ConstantsOK, TypeOK, Sound, NEW r \in Requests,
           \/ PatchLoad(r) \/ fetchContainerSessionMetadata(r) \/ PatchTouch(r)
           \/ PatchStore(r) \/ PatchForward(r) \/ PatchRelease(r) \/ PatchSpec(r)
           \/ PatchDrop(r) \/ PatchCreate(r)
    PROVE  Sound'
<1>. DEFINE h == handler[r]
<1>1. PICK l \in Labels \ PollLabels : At(r, l)
  BY DEF PatchLoad, fetchContainerSessionMetadata, PatchTouch, PatchStore, PatchForward,
         PatchRelease, PatchSpec, PatchDrop, PatchCreate, Labels, PollLabels
<1>2. /\ h \in Handler /\ Honest(h) /\ h.op \notin Polls
      /\ \A m \in PlainLabels : Goto(h, m) \in Handler /\ Honest(Goto(h, m))
      /\ ResolveKernel(h) \in Handler /\ Honest(ResolveKernel(h))
      /\ Reply(h, "failed", {}) \in Handler /\ Honest(Reply(h, "failed", {}))
  BY <1>1, ModifierMoves
<1>. DEFINE g == Untold(h)
<1>21. /\ ResolveKernel(g) \in Handler /\ Honest(ResolveKernel(g))
      /\ Reply(g, "failed", {}) \in Handler /\ Honest(Reply(g, "failed", {}))
  <2>1. g \in Handler /\ Honest(g) /\ g.op \notin Polls
    BY <1>2, UntoldType, UntoldHonest
  <2>. QED BY <2>1, ResolveKernelType, ResolveHonest, ReplyType, ReplyHonest
<1>3. /\ h.sid \in Sessions /\ h.meta \in Paths /\ h.path \in Paths \cup {None}
      /\ h.ov \in Override \cup {None} /\ h.out \in SUBSET Entry
      /\ h.pc \in NeedsOverride => h.ov # None
  BY <1>2 DEF Handler, Locals
<1>4. ASSUME NEW p \in Paths
      PROVE  LET f == [h EXCEPT !.meta = applySessionMetadataPatch(p, h.path)]
             IN  ResolveKernel(f) \in Handler /\ Honest(ResolveKernel(f))
  <2>. DEFINE q == applySessionMetadataPatch(p, h.path)
              f == [h EXCEPT !.meta = q]
  <2>1. q \in Paths
    BY <1>3, PatchType
  <2>. HIDE DEF q
  <2>2. f \in Handler /\ Honest(f)
    BY <1>2, <2>1, FieldTypes, SetHonest
  <2>3. f.op \notin Polls
    BY <1>2 DEF Handler, Locals
  <2>4. ResolveKernel(f) \in Handler /\ Honest(ResolveKernel(f))
    BY <2>2, <2>3, ResolveKernelType, ResolveHonest
  <2>. QED BY <2>4 DEF q
<1>5. /\ sessionKernelOverrides[h.sid] \in Override \cup {None}
      /\ sessionKernelOverrides[h.sid] # None => sessionKernelOverrides[h.sid].kid \in Launched
      /\ local[h.sid] \in Paths \cup {None}
  BY <1>3 DEF TypeOK, Sound, BoundToLaunched
<1>6. CASE PatchLoad(r)
  <2>1. \A ov \in Override : ov.path \in Paths
    BY DEF Override
  <2>2. \E f \in Handler : Honest(f) /\ Become(r, f)
    BY <1>2, <1>4, <1>5, <1>6, <2>1, PlainSet DEF PatchLoad
  <2>. QED BY <1>6, <2>2, SoundPlain DEF PatchLoad
<1>7. CASE fetchContainerSessionMetadata(r)
  <2>1. \E f \in Handler : Honest(f) /\ Become(r, f)
    BY <1>2, <1>21, <1>4, <1>5, <1>7 DEF fetchContainerSessionMetadata
  <2>. QED BY <1>7, <2>1, SoundPlain DEF fetchContainerSessionMetadata
<1>8. CASE PatchTouch(r)
  <2>. DEFINE ov == sessionKernelOverrides[h.sid]
  <2>1. CASE ov = None
    BY <1>2, <1>8, <2>1, PlainSet, SoundPlain DEF PatchTouch
  <2>2. CASE ov # None
    <3>1. /\ [h EXCEPT !.ov = ov] \in Handler /\ Honest([h EXCEPT !.ov = ov])
          /\ [h EXCEPT !.ov = ov].op = h.op
      BY <1>2, <1>5, <2>2, ReadHonest DEF Handler, Locals
    <3>2. /\ Goto([h EXCEPT !.ov = ov], "PatchStore") \in Handler
          /\ Honest(Goto([h EXCEPT !.ov = ov], "PatchStore"))
      BY <1>2, <1>5, <2>2, <3>1, ReadTypes, GotoHonest DEF BoundLabels
    <3>3. Become(r, Goto([h EXCEPT !.ov = ov], "PatchStore"))
      BY <1>8, <2>2 DEF PatchTouch
    <3>. QED BY <1>8, <3>2, <3>3, SoundPlain DEF PatchTouch
  <2>. QED BY <2>1, <2>2
<1>9. CASE PatchStore(r)
  <2>1. h.ov \in Override /\ h.ov.kid \in Launched
    BY <1>2, <1>3, <1>9 DEF PatchStore, At, NeedsOverride, Honest
  <2>2. {[sid |-> h.sid, kid |-> h.ov.kid, path |-> h.meta]} \in SUBSET Entry
    BY <1>3, <2>1 DEF Entry, Override
  <2>3. \E f \in Handler : Honest(f) /\ Become(r, f)
    BY <1>1, <1>9, <2>2, ModifierMoves DEF PatchStore
  <2>. QED BY <1>9, <2>1, <2>3, SoundSet DEF PatchStore
<1>10. CASE PatchForward(r)
  <2>. DEFINE patched == applySessionMetadataPatch(local[h.sid], h.path)
              e == [sid |-> h.sid, kid |-> None, path |-> patched]
  <2>1. \/ local[h.sid] # None /\ Become(r, Goto([h EXCEPT !.out = {e}], "PatchRelease"))
        \/ Become(r, Reply(h, "failed", {})) \/ Become(r, Reply(g, "failed", {}))
        \/ Become(r, Goto(h, "PatchSpec"))
    BY <1>10 DEF PatchForward
  <2>2. CASE local[h.sid] # None /\ Become(r, Goto([h EXCEPT !.out = {e}], "PatchRelease"))
    <3>1. {e} \in SUBSET Entry
      BY <1>3, <1>5, <2>2, PatchType DEF Entry
    <3>. HIDE DEF e
    <3>2. /\ [h EXCEPT !.out = {e}] \in Handler /\ Honest([h EXCEPT !.out = {e}])
          /\ [h EXCEPT !.out = {e}].op = h.op
      <4>1. [h EXCEPT !.out = {e}] \in Handler /\ Honest([h EXCEPT !.out = {e}])
        BY <1>2, <3>1, FieldTypes, OutHonest
      <4>2. [h EXCEPT !.out = {e}].op = h.op
        BY <1>2 DEF Handler, Locals
      <4>. QED BY <4>1, <4>2
    <3>3. /\ Goto([h EXCEPT !.out = {e}], "PatchRelease") \in Handler
          /\ Honest(Goto([h EXCEPT !.out = {e}], "PatchRelease"))
      BY <1>2, <3>2, PlainType, PlainSet, GotoHonest DEF BoundLabels
    <3>. QED BY <1>10, <2>2, <3>3, SoundPlain DEF PatchForward
  <2>3. CASE \/ Become(r, Reply(h, "failed", {})) \/ Become(r, Reply(g, "failed", {}))
             \/ Become(r, Goto(h, "PatchSpec"))
    BY <1>2, <1>21, <1>10, <2>3, PlainSet, SoundPlain DEF PatchForward
  <2>. QED BY <2>1, <2>2, <2>3
<1>11. CASE PatchRelease(r)
  BY <1>1, <1>3, <1>11, ModifierMoves, SoundClear DEF PatchRelease
<1>12. CASE PatchSpec(r)
  BY <1>2, <1>12, PlainSet, SoundPlain DEF PatchSpec
<1>13. CASE PatchDrop(r)
  BY <1>2, <1>13, PlainSet, SoundClear DEF PatchDrop
<1>14. CASE PatchCreate(r)
  BY <1>1, <1>2, <1>3, <1>14, CreateSound DEF PatchCreate
<1>. QED BY <1>6, <1>7, <1>8, <1>9, <1>10, <1>11, <1>12, <1>13, <1>14

\* Kernels that were launched stay launched, and dead ones stay dead.
LEMMA KernelsMove ==
    ASSUME TypeOK, NEW k \in Kernels, Launch(k) \/ Die(k)
    PROVE  Launched \subseteq Launched' /\ Dead \subseteq Dead'
BY DEF TypeOK, Launch, Die, Launched, Running, Dead

LEMMA EnvironmentSound ==
    ASSUME TypeOK, Sound, Environment
    PROVE  Sound'
<1>1. ASSUME NEW k \in Kernels, Launch(k) \/ Die(k) PROVE Sound'
  <2>1. Launched \subseteq Launched' /\ Dead \subseteq Dead'
    BY <1>1, KernelsMove
  <2>2. UNCHANGED <<sessionKernelOverrides, knownJEGKernelIDs, handler>>
    BY <1>1 DEF Launch, Die
  <2>3. ASSUME NEW q \in Requests, handler[q] # None PROVE Honest(handler[q])'
    <3>1. Honest(handler[q])
      BY <2>3 DEF Sound
    <3>. QED BY <2>1, <2>2, <3>1 DEF Honest
  <2>. QED BY <2>1, <2>2, <2>3 DEF Sound, BoundToLaunched
<1>2. ASSUME NEW k \in Kernels, EvictKnown(k) PROVE Sound'
  BY <1>2 DEF EvictKnown, Sound, BoundToLaunched, Honest, Launched, Running, Dead
<1>3. ASSUME NEW s \in Sessions, EvictOverride(s) PROVE Sound'
  <2>1. \A t \in Sessions : sessionKernelOverrides'[t] \in {sessionKernelOverrides[t], None}
    BY <1>3 DEF TypeOK, EvictOverride, clearSessionKernelOverride
  <2>. QED BY <1>3, <2>1 DEF EvictOverride, Sound, BoundToLaunched, Honest, Launched, Running, Dead
<1>4. CASE ProxyRestart
  BY <1>4 DEF ProxyRestart, Sound, BoundToLaunched
<1>5. CASE ContainerRestart
  BY <1>5 DEF ContainerRestart, Sound, BoundToLaunched, Honest, Launched, Running, Dead
<1>. QED BY <1>1, <1>2, <1>3, <1>4, <1>5 DEF Environment

LEMMA OtherSound ==
    ASSUME ConstantsOK, TypeOK, Sound, NEW r \in Requests,
           DeleteClear(r) \/ DeleteContainer(r) \/ Finish(r)
    PROVE  Sound'
<1>1. CASE DeleteClear(r)
  <2>1. "DeleteClear" \in Labels \ PollLabels
    BY DEF Labels, PollLabels
  <2>. QED BY <1>1, <2>1, ModifierMoves, PlainSet, SoundClear DEF DeleteClear
<1>2. CASE DeleteContainer(r)
  <2>1. "DeleteContainer" \in Labels \ PollLabels
    BY DEF Labels, PollLabels
  <2>2. /\ Reply(handler[r], "ok", {}) \in Handler /\ Honest(Reply(handler[r], "ok", {}))
        /\ Reply(Untold(handler[r]), "ok", {}) \in Handler
        /\ Honest(Reply(Untold(handler[r]), "ok", {}))
    BY <1>2, <2>1, ModifierMoves, UntoldType, UntoldHonest, ReplyType, ReplyHonest
    DEF DeleteContainer
  <2>. QED BY <1>2, <2>2, SoundPlain DEF DeleteContainer
<1>3. CASE Finish(r)
  <2>1. \A q \in Requests : handler'[q] \in {handler[q], None}
    BY <1>3 DEF Finish, Become, TypeOK
  <2>. QED BY <1>3, <2>1 DEF Finish, Sound, BoundToLaunched, Honest, Launched, Running, Dead
<1>. QED BY <1>1, <1>2, <1>3

LEMMA StartSound ==
    ASSUME ConstantsOK, TypeOK, Sound, NEW r \in Requests, NEW c \in Calls, Start(r, c)
    PROVE  Sound'
<1>1. PICK micro \in BOOLEAN : Become(r, Dispatch(Fresh(c, micro)))
  BY DEF Start
<1>. DEFINE f == Fresh(c, micro)
<1>2. f \in Handler /\ Dispatch(f) \in Handler
  BY FreshType, DispatchType
<1>3. Honest(f)
  BY DEF Fresh, Honest, PollLabels, BoundLabels
<1>4. f.op \in Ops
  BY <1>2 DEF Handler, Locals
<1>. HIDE DEF f
<1>5. \A l \in {"GetLoad", "ListJeg"} : Honest(Goto(f, l))
  BY <1>2, <1>3, GotoHonest DEF PollLabels, BoundLabels
<1>6. f.op \notin Polls =>
        /\ \A l \in {"PatchLoad", "DeleteClear", "PostSpec"} : Honest(Goto(f, l))
        /\ Honest(ResolveKernel(f))
  BY <1>2, <1>3, GotoHonest, ResolveHonest DEF BoundLabels
<1>7. Honest(Dispatch(f))
  <2>1. CASE f.op = "get"
    BY <1>5, <2>1 DEF Dispatch
  <2>2. CASE f.op = "list"
    BY <1>5, <2>2 DEF Dispatch
  <2>3. CASE f.op = "patch"
    BY <1>6, <2>3 DEF Dispatch, Polls
  <2>4. CASE f.op = "delete"
    BY <1>6, <2>4 DEF Dispatch, Polls
  <2>5. CASE f.op = "post"
    BY <1>6, <2>5 DEF Dispatch, Polls
  <2>. QED BY <1>4, <2>1, <2>2, <2>3, <2>4, <2>5 DEF Ops
<1>8. Become(r, Dispatch(f))
  BY <1>1 DEF f
<1>. QED BY <1>2, <1>7, <1>8, SoundPlain DEF Start

\* The invariant behind both results.
THEOREM HandlersSound == Spec => []Sound
<1>1. Init => Sound
  BY DEF Init, Sound, BoundToLaunched
<1>2. TypeOK /\ Sound /\ [Next]_vars => Sound'
  <2>. SUFFICES ASSUME TypeOK, Sound, [Next]_vars PROVE Sound'
    OBVIOUS
  <2>1. CASE Environment
    BY <2>1, EnvironmentSound
  <2>2. ASSUME NEW r \in Requests, NEW c \in Calls, Start(r, c) PROVE Sound'
    BY <2>2, ConstantsOK, StartSound
  <2>3. ASSUME NEW r \in Requests, Handle(r) PROVE Sound'
    BY <2>3, ConstantsOK, GetSound, ListSound, BindSound, PatchSound, OtherSound DEF Handle
  <2>4. CASE UNCHANGED vars
    BY <2>4 DEF vars, Sound, BoundToLaunched, Honest, Launched, Running, Dead
  <2>. QED BY <2>1, <2>2, <2>3, <2>4 DEF Next
<1>. QED BY <1>1, <1>2, TypeCorrect, PTL DEF Spec

\* Sessions are only bound to kernels that JEG launched (proxy.go:290 and 388), for
\* any number of clients, sessions and kernels, and whatever goes wrong.
THEOREM OnlyLaunchedKernelsBound == Spec => []BoundToLaunched
<1>1. Sound => BoundToLaunched
  BY DEF Sound
<1>. QED BY <1>1, HandlersSound, PTL

\* No poll shows a session on a kernel that was dead when the poll began
\* (proxy.go:124 and 211), under the same conditions.
THEOREM PollsShowNoDeadKernel == Spec => []PollShowsNoDeadKernel
<1>1. Sound => PollShowsNoDeadKernel
  <2>. SUFFICES ASSUME Sound, NEW r \in Requests, At(r, "reply"),
                       handler[r].op \in {"get", "list"}, NEW e \in handler[r].out
                PROVE  e.kid \notin handler[r].gone
    BY DEF PollShowsNoDeadKernel
  <2>. QED BY DEF Sound, Honest, At, Polls
<1>. QED BY <1>1, HandlersSound, PTL
=============================================================================
