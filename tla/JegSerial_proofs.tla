-------------------------- MODULE JegSerial_proofs --------------------------
(***************************************************************************)
(* Proofs about JegSessions when requests do not get into each other's way:  *)
(* what a poll and the answer to a change tell the client, that a binding     *)
(* keeps the path, and that the routes implement SessionBinding.              *)
(*                                                                          *)
(* JegSessions_proofs has what holds whatever races.  Here a hypothesis says   *)
(* how much may: Alone, that requests do not overlap, and PollsApart, that no  *)
(* poll overlaps with a change.  There is any number of handlers in both.      *)
(***************************************************************************)
EXTENDS JegSessions_proofs

\* No two requests are in progress at the same time.
Alone == \A r, q \in Requests : handler[r] # None /\ handler[q] # None => r = q

\* Polls overlap with polls only, and changes with changes.
PollsApart == \A r, q \in Requests :
    handler[r] # None /\ handler[q] # None /\ handler[r].op \in Polls =>
        handler[q].op \in Polls

\* Nothing is evicted and nothing restarts; and JEG answers, too.
Kept == Faults \cap {"gc", "restart"} = {}
Calm == Faults \cap {"gc", "restart", "jeg"} = {}

----------------------------------------------------------------------------
(* Every handler keeps to the labels of its route and to what was asked.     *)

GetLabels == {"GetLoad", "GetJeg", "GetClear", "GetContainer"}
MergeLabels == {"ListMerge", "ListMergeClear"}
RangeLabels == {"ListRange", "ListRangeClear"}
ListLabels == {"ListJeg", "ListContainer"} \cup MergeLabels \cup RangeLabels
PostLabels == {"PostSpec", "PostLocal", "PostDefault"}
BindLabels == {"Find", "Known", "Own", "Remember", "Name", "Bind"}
LoadLabels == {"PatchLoad", "PatchFetch"}
PatchLabels == LoadLabels \cup {"PatchTouch", "PatchStore", "PatchForward", "PatchRelease",
                                "PatchSpec", "PatchDrop", "PatchCreate"}
DeleteLabels == {"DeleteClear", "DeleteContainer"}

OnRoute(op, l) ==
    /\ op = "get" => l \in GetLabels \cup {"reply"}
    /\ op = "list" => l \in ListLabels \cup {"reply"}
    /\ op = "post" => l \in PostLabels \cup BindLabels \cup {"reply"}
    /\ op = "patch" => l \in PatchLabels \cup BindLabels \cup {"reply"}
    /\ op = "delete" => l \in DeleteLabels \cup {"reply"}

\* g comes after h in the life of one handler: what was asked has not changed, and
\* what the container has not told it will not tell later.
Kin(g, h) == /\ g \in Locals
             /\ g.op = h.op /\ g.sid = h.sid /\ g.path = h.path /\ g.was = h.was
             /\ g.micro = h.micro /\ (g.told => h.told)

LEMMA KinTransitive ==
    ASSUME NEW f, NEW g, NEW h, Kin(f, g), Kin(g, h)
    PROVE  Kin(f, h)
BY DEF Kin

LEMMA GotoKin ==
    ASSUME NEW h \in Locals, NEW l \in Labels
    PROVE  LET g == Goto(h, l)
           IN  /\ Kin(g, h) /\ g.pc = l /\ g.told = h.told
               /\ g.kid = h.kid /\ g.meta = h.meta /\ g.ov = h.ov /\ g.snap = h.snap
               /\ g.cont = h.cont /\ g.todo = h.todo /\ g.cur = h.cur /\ g.out = h.out
BY DEF Goto, Kin, Locals

LEMMA UntoldKin ==
    ASSUME NEW h \in Locals
    PROVE  LET g == Untold(h) IN Kin(g, h) /\ ~g.told /\ g.pc = h.pc /\ g.kid = h.kid
BY DEF Untold, Kin, Locals

LEMMA ReplyKin ==
    ASSUME NEW h \in Locals, NEW st \in {"ok", "missing", "failed"}, NEW es \in SUBSET Entry
    PROVE  LET g == Reply(h, st, es)
           IN  Kin(g, h) /\ g.pc = "reply" /\ g.out = es /\ g.told = h.told
<1>. DEFINE f == [[h EXCEPT !.status = st] EXCEPT !.out = es]
<1>1. Kin(f, h) /\ f.out = es /\ f.told = h.told
  BY DEF Kin, Locals
<1>2. Reply(h, st, es) = Goto(f, "reply")
  BY DEF Reply
<1>. HIDE DEF f
<1>3. f \in Locals
  BY <1>1 DEF Kin
<1>4. /\ Kin(Goto(f, "reply"), f) /\ Goto(f, "reply").pc = "reply"
      /\ Goto(f, "reply").out = f.out /\ Goto(f, "reply").told = f.told
  BY <1>3, GotoKin DEF Labels
<1>. QED BY <1>1, <1>2, <1>4, KinTransitive

\* Where a handler goes to look for the kernel asked for, or for none.
LEMMA ResolveKin ==
    ASSUME NEW h \in Locals, h.op \in {"post", "patch"}
    PROVE  /\ \E l \in {"PostDefault", "PatchTouch", "PatchForward"} :
                  NotJeg(h) = Goto(h, l) /\ OnRoute(h.op, l)
           /\ \E l \in {"Known", "Find", "PostDefault", "PatchTouch", "PatchForward"} :
                  ResolveKernel(h) = Goto(h, l) /\ OnRoute(h.op, l)
BY DEF NotJeg, ResolveKernel, OnRoute, PostLabels, BindLabels, LoadLabels, PatchLabels

LEMMA MergingKin ==
    ASSUME NEW h \in Locals, NEW es \in SUBSET Entry
    PROVE  LET g == Merging(h, es)
           IN  /\ Kin(g, h) /\ g.told = h.told /\ g.snap = h.snap /\ g.out = h.out /\ g.cont = es
               /\ g.pc = IF es = {} THEN "ListRange" ELSE "ListMerge"
               /\ es = {} => g.todo = Sessions
<1>1. CASE es = {}
  <2>. DEFINE f == [[h EXCEPT !.cont = {}] EXCEPT !.todo = Sessions]
  <2>1. /\ Kin(f, h) /\ f.cont = {} /\ f.told = h.told /\ f.snap = h.snap /\ f.out = h.out
        /\ f.todo = Sessions
    BY DEF Kin, Locals
  <2>2. Merging(h, es) = Goto(f, "ListRange")
    BY <1>1 DEF Merging
  <2>. HIDE DEF f
  <2>3. f \in Locals
    BY <2>1 DEF Kin
  <2>4. /\ Kin(Goto(f, "ListRange"), f) /\ Goto(f, "ListRange").pc = "ListRange"
        /\ Goto(f, "ListRange").told = f.told /\ Goto(f, "ListRange").snap = f.snap
        /\ Goto(f, "ListRange").out = f.out /\ Goto(f, "ListRange").cont = f.cont
        /\ Goto(f, "ListRange").todo = f.todo
    BY <2>3, GotoKin DEF Labels
  <2>. QED BY <1>1, <2>1, <2>2, <2>4, KinTransitive
<1>2. CASE es # {}
  <2>. DEFINE f == [h EXCEPT !.cont = es]
  <2>1. /\ Kin(f, h) /\ f.cont = es /\ f.told = h.told /\ f.snap = h.snap /\ f.out = h.out
    BY DEF Kin, Locals
  <2>2. Merging(h, es) = Goto(f, "ListMerge")
    BY <1>2 DEF Merging
  <2>. HIDE DEF f
  <2>3. f \in Locals
    BY <2>1 DEF Kin
  <2>4. /\ Kin(Goto(f, "ListMerge"), f) /\ Goto(f, "ListMerge").pc = "ListMerge"
        /\ Goto(f, "ListMerge").told = f.told /\ Goto(f, "ListMerge").snap = f.snap
        /\ Goto(f, "ListMerge").out = f.out /\ Goto(f, "ListMerge").cont = f.cont
    BY <2>3, GotoKin DEF Labels
  <2>. QED BY <1>2, <2>1, <2>2, <2>4, KinTransitive
<1>. QED BY <1>1, <1>2

----------------------------------------------------------------------------
(* What each step does to the handler that takes it.                         *)

LEMMA Moved ==
    ASSUME TypeOK, NEW r \in Requests, NEW g, Become(r, g)
    PROVE  handler'[r] = g /\ \A q \in Requests \ {r} : handler'[q] = handler[q]
BY DEF TypeOK, Become

LEMMA Located ==
    ASSUME TypeOK, NEW r \in Requests, NEW l, At(r, l)
    PROVE  LET h == handler[r]
           IN  /\ h \in Locals /\ h.pc = l /\ h # None
               /\ h.sid \in Sessions /\ h.out \in SUBSET Entry /\ h.cont \in SUBSET Entry
               /\ h.todo \in SUBSET Sessions /\ h.meta \in Paths
               /\ h.path \in Paths \cup {None}
               /\ sessionKernelOverrides[h.sid] \in Override \cup {None}
               /\ local[h.sid] \in Paths \cup {None}
BY AtType DEF At, Handler, Locals, TypeOK

LEMMA GetLoadStep ==
    ASSUME TypeOK, NEW r \in Requests, GetLoad(r)
    PROVE  LET h == handler[r]  g == handler'[r]
           IN  /\ Kin(g, h)
               /\ \/ sessionKernelOverrides[h.sid] = None /\ g.pc = "GetContainer"
                  \/ /\ sessionKernelOverrides[h.sid] # None /\ g.pc = "GetJeg"
                     /\ g.ov = sessionKernelOverrides[h.sid]
<1>. DEFINE h == handler[r]
            ov == sessionKernelOverrides[h.sid]
            f == [h EXCEPT !.ov = ov]
<1>1. h \in Locals /\ ov \in Override \cup {None}
  BY Located DEF GetLoad
<1>2. CASE ov = None
  BY <1>1, <1>2, GotoKin, Moved DEF GetLoad, Labels
<1>3. CASE ov # None
  <2>1. Kin(f, h) /\ f.ov = ov
    BY <1>1 DEF Kin, Locals
  <2>. HIDE DEF f
  <2>2. /\ Kin(Goto(f, "GetJeg"), f) /\ Goto(f, "GetJeg").pc = "GetJeg"
        /\ Goto(f, "GetJeg").ov = f.ov
    BY <2>1, GotoKin DEF Labels, Kin
  <2>3. handler'[r] = Goto(f, "GetJeg")
    BY <1>3, Moved DEF GetLoad, f
  <2>. QED BY <1>3, <2>1, <2>2, <2>3, KinTransitive
<1>. QED BY <1>2, <1>3

LEMMA GetJegStep ==
    ASSUME TypeOK, NEW r \in Requests, GetJeg(r)
    PROVE  LET h == handler[r]  g == handler'[r]
           IN  /\ Kin(g, h)
               /\ \E ks \in listJEGKernels :
                    \/ /\ h.ov.kid \in ks /\ g.pc = "reply"
                       /\ g.out = {buildSessionCompatResponse(h.sid, h.ov)}
                    \/ h.ov.kid \notin ks /\ g.pc = "GetClear"
<1>. DEFINE h == handler[r]
            e == buildSessionCompatResponse(h.sid, h.ov)
<1>1. h \in Locals /\ h.sid \in Sessions
  BY Located DEF GetJeg
<1>2. h.ov \in Override
  BY <1>1, AtType DEF GetJeg, At, Handler, Locals, NeedsOverride
<1>3. {e} \in SUBSET Entry
  BY <1>1, <1>2, EntryTypes
<1>4. PICK ks \in listJEGKernels :
        handler'[r] = IF h.ov.kid \in ks THEN Reply(h, "ok", {e}) ELSE Goto(h, "GetClear")
  BY Moved DEF GetJeg
<1>. HIDE DEF e
<1>5. /\ Kin(Reply(h, "ok", {e}), h) /\ Reply(h, "ok", {e}).pc = "reply"
      /\ Reply(h, "ok", {e}).out = {e}
  BY <1>1, <1>3, ReplyKin
<1>6. Kin(Goto(h, "GetClear"), h) /\ Goto(h, "GetClear").pc = "GetClear"
  BY <1>1, GotoKin DEF Labels
<1>. QED BY <1>4, <1>5, <1>6 DEF e

LEMMA GetClearStep ==
    ASSUME TypeOK, NEW r \in Requests, GetClear(r)
    PROVE  Kin(handler'[r], handler[r]) /\ handler'[r].pc = "GetContainer"
BY Located, GotoKin, Moved DEF GetClear, Labels

LEMMA GetContainerStep ==
    ASSUME TypeOK, NEW r \in Requests, GetContainer(r)
    PROVE  LET h == handler[r]  g == handler'[r]
           IN  /\ Kin(g, h) /\ g.pc = "reply"
               /\ \/ local[h.sid] # None /\ g.out = {LocalEntry(h.sid)}
                  \/ ~h.micro
                  \/ local[h.sid] = None /\ g.out = {}
                  \/ ~g.told
<1>. DEFINE h == handler[r]
<1>1. h \in Locals /\ h.sid \in Sessions
  BY Located DEF GetContainer
<1>2. \/ local[h.sid] # None /\ handler'[r] = Reply(h, "ok", {LocalEntry(h.sid)})
      \/ (~h.micro \/ local[h.sid] = None) /\ handler'[r] = Reply(h, "missing", {})
      \/ handler'[r] = Reply(Untold(h), "missing", {})
  BY Moved DEF GetContainer
<1>3. CASE local[h.sid] # None /\ handler'[r] = Reply(h, "ok", {LocalEntry(h.sid)})
  <2>1. {LocalEntry(h.sid)} \in SUBSET Entry
    BY <1>1, <1>3, EntryTypes
  <2>. QED BY <1>1, <1>3, <2>1, ReplyKin
<1>4. CASE (~h.micro \/ local[h.sid] = None) /\ handler'[r] = Reply(h, "missing", {})
  BY <1>1, <1>4, ReplyKin
<1>5. CASE handler'[r] = Reply(Untold(h), "missing", {})
  <2>. DEFINE u == Untold(h)
  <2>1. u \in Locals /\ Kin(u, h) /\ ~u.told
    BY <1>1, UntoldKin DEF Kin
  <2>. HIDE DEF u
  <2>2. LET g == Reply(u, "missing", {}) IN Kin(g, u) /\ g.pc = "reply" /\ g.told = u.told
    BY <2>1, ReplyKin
  <2>. QED BY <1>5, <2>1, <2>2, KinTransitive DEF u
<1>. QED BY <1>2, <1>3, <1>4, <1>5

\* The sessions of the container.
Here == {x \in Sessions : local[x] # None}
LocalEntries == {LocalEntry(s) : s \in Here}

LEMMA LocalEntriesType ==
    ASSUME TypeOK
    PROVE  LocalEntries \in SUBSET Entry
BY EntryTypes DEF LocalEntries, Here

LEMMA ListJegStep ==
    ASSUME TypeOK, NEW r \in Requests, ListJeg(r)
    PROVE  LET h == handler[r]  g == handler'[r]
           IN  /\ Kin(g, h) /\ g.pc = "ListContainer" /\ g.out = h.out
               /\ g.snap \in listJEGKernels
<1>. DEFINE h == handler[r]
<1>1. h \in Locals
  BY Located DEF ListJeg
<1>2. PICK ks \in listJEGKernels :
        handler'[r] = Goto([h EXCEPT !.snap = ks], "ListContainer")
  BY Moved DEF ListJeg
<1>. DEFINE f == [h EXCEPT !.snap = ks]
<1>3. ks \in SUBSET Kernels
  BY ListingType
<1>4. Kin(f, h) /\ f.snap = ks /\ f.out = h.out
  BY <1>1, <1>3 DEF Kin, Locals
<1>. HIDE DEF f
<1>5. LET g == Goto(f, "ListContainer")
      IN  Kin(g, f) /\ g.pc = "ListContainer" /\ g.out = f.out /\ g.snap = f.snap
  BY <1>4, GotoKin DEF Kin, Labels
<1>. QED BY <1>2, <1>4, <1>5, KinTransitive DEF f

LEMMA ListContainerStep ==
    ASSUME TypeOK, NEW r \in Requests, ListContainer(r)
    PROVE  LET h == handler[r]  g == handler'[r]
           IN  /\ Kin(g, h) /\ g.out = h.out /\ g.snap = h.snap
               /\ g.pc = IF g.cont = {} THEN "ListRange" ELSE "ListMerge"
               /\ g.cont = {} => g.todo = Sessions
               /\ ~h.micro \/ ~g.told \/ g.cont = LocalEntries
<1>. DEFINE h == handler[r]
            u == Untold(h)
<1>1. h \in Locals
  BY Located DEF ListContainer
<1>2. \/ handler'[r] = Merging(h, LocalEntries)
      \/ ~h.micro /\ handler'[r] = Merging(h, {})
      \/ handler'[r] = Merging(u, {})
  BY Moved DEF ListContainer, LocalEntries, Here
<1>3. CASE handler'[r] = Merging(h, LocalEntries)
  BY <1>1, <1>3, LocalEntriesType, MergingKin
<1>4. CASE ~h.micro /\ handler'[r] = Merging(h, {})
  BY <1>1, <1>4, MergingKin
<1>5. CASE handler'[r] = Merging(u, {})
  <2>1. Kin(u, h) /\ ~u.told /\ u.out = h.out /\ u.snap = h.snap
    BY <1>1 DEF Kin, Locals, Untold
  <2>. HIDE DEF u
  <2>2. LET g == Merging(u, {})
        IN  /\ Kin(g, u) /\ g.told = u.told /\ g.snap = u.snap /\ g.out = u.out /\ g.cont = {}
            /\ g.pc = "ListRange" /\ g.todo = Sessions
    BY <2>1, MergingKin DEF Kin
  <2>. QED BY <1>5, <2>1, <2>2, KinTransitive
<1>. QED BY <1>2, <1>3, <1>4, <1>5

\* The handler goes on merging with es to go, having listed fs.
Merged(h, es, fs) == [Merging(h, es) EXCEPT !.out = fs]

LEMMA MergeOn ==
    ASSUME NEW h \in Locals, NEW es \in SUBSET Entry, NEW fs \in SUBSET Entry
    PROVE  LET g == Merged(h, es, fs)
           IN  /\ Kin(g, h) /\ g.told = h.told /\ g.snap = h.snap /\ g.out = fs /\ g.cont = es
               /\ g.pc = IF es = {} THEN "ListRange" ELSE "ListMerge"
               /\ es = {} => g.todo = Sessions
<1>. DEFINE m == Merging(h, es)
            g == [m EXCEPT !.out = fs]
<1>1. /\ Kin(m, h) /\ m.told = h.told /\ m.snap = h.snap /\ m.cont = es
      /\ m.pc = IF es = {} THEN "ListRange" ELSE "ListMerge"
      /\ es = {} => m.todo = Sessions
  BY MergingKin
<1>2. m \in Locals
  BY <1>1 DEF Kin
<1>. HIDE DEF m
<1>3. /\ Kin(g, m) /\ g.told = m.told /\ g.snap = m.snap /\ g.out = fs /\ g.cont = m.cont
      /\ g.pc = m.pc /\ g.todo = m.todo
  BY <1>2 DEF Kin, Locals
<1>. HIDE DEF g
<1>4. Kin(g, h)
  BY <1>1, <1>3, KinTransitive
<1>. QED BY <1>1, <1>3, <1>4 DEF g, m, Merged

LEMMA ListMergeStep ==
    ASSUME ConstantsOK, TypeOK, NEW r \in Requests, ListMerge(r)
    PROVE  LET h == handler[r]  g == handler'[r]
           IN  /\ Kin(g, h) /\ g.told = h.told /\ g.snap = h.snap
               /\ \E e \in h.cont :
                    LET ov == sessionKernelOverrides[e.sid]
                    IN  \/ /\ ov = None \/ ov.kid \in h.snap
                           /\ g.cont = h.cont \ {e}
                           /\ g.out = IF ov = None THEN h.out \cup {e} ELSE h.out
                           /\ g.pc = IF g.cont = {} THEN "ListRange" ELSE "ListMerge"
                           /\ g.cont = {} => g.todo = Sessions
                        \/ /\ ov # None /\ ov.kid \notin h.snap
                           /\ g.pc = "ListMergeClear" /\ g.cur = e.sid
                           /\ g.cont = h.cont /\ g.out = h.out
<1>. DEFINE h == handler[r]
<1>1. h \in Locals /\ h.cont \in SUBSET Entry /\ h.out \in SUBSET Entry
  BY Located DEF ListMerge
<1>2. PICK e \in h.cont :
        LET ov == sessionKernelOverrides[e.sid]
        IN  Become(r, IF ov = None THEN Merged(h, h.cont \ {e}, h.out \cup {e})
                      ELSE IF ov.kid \in h.snap THEN Merging(h, h.cont \ {e})
                      ELSE Goto([h EXCEPT !.cur = e.sid], "ListMergeClear"))
  BY DEF ListMerge, Merged
<1>. DEFINE ov == sessionKernelOverrides[e.sid]
<1>3. h.cont \ {e} \in SUBSET Entry /\ h.out \cup {e} \in SUBSET Entry /\ e.sid \in Sessions
  BY <1>1 DEF Entry
<1>4. CASE ov = None
  <2>1. handler'[r] = Merged(h, h.cont \ {e}, h.out \cup {e})
    BY <1>2, <1>4, Moved
  <2>2. LET g == handler'[r]
        IN  /\ Kin(g, h) /\ g.told = h.told /\ g.snap = h.snap
            /\ g.out = h.out \cup {e} /\ g.cont = h.cont \ {e}
            /\ g.pc = IF g.cont = {} THEN "ListRange" ELSE "ListMerge"
            /\ g.cont = {} => g.todo = Sessions
    BY <1>1, <1>3, <2>1, MergeOn
  <2>. QED BY <1>4, <2>2
<1>5. CASE ov # None /\ ov.kid \in h.snap
  <2>1. handler'[r] = Merging(h, h.cont \ {e})
    BY <1>2, <1>5, Moved
  <2>. QED BY <1>1, <1>3, <1>5, <2>1, MergingKin
<1>6. CASE ov # None /\ ov.kid \notin h.snap
  <2>. DEFINE f == [h EXCEPT !.cur = e.sid]
  <2>1. /\ Kin(f, h) /\ f.told = h.told /\ f.snap = h.snap /\ f.cur = e.sid
        /\ f.cont = h.cont /\ f.out = h.out
    BY <1>1, <1>3 DEF Kin, Locals
  <2>2. handler'[r] = Goto(f, "ListMergeClear")
    BY <1>2, <1>6, Moved
  <2>. HIDE DEF f
  <2>3. LET g == Goto(f, "ListMergeClear")
        IN  /\ Kin(g, f) /\ g.told = f.told /\ g.snap = f.snap /\ g.cur = f.cur
            /\ g.cont = f.cont /\ g.out = f.out /\ g.pc = "ListMergeClear"
    BY <2>1, GotoKin DEF Kin, Labels
  <2>. QED BY <1>6, <2>1, <2>2, <2>3, KinTransitive
<1>. QED BY <1>4, <1>5, <1>6

LEMMA ListMergeClearStep ==
    ASSUME TypeOK, NEW r \in Requests, ListMergeClear(r)
    PROVE  LET h == handler[r]  g == handler'[r]
               here == {e \in h.cont : e.sid = h.cur}
           IN  /\ Kin(g, h) /\ g.told = h.told /\ g.snap = h.snap
               /\ g.cont = h.cont \ here /\ g.out = h.out \cup here
               /\ g.pc = IF g.cont = {} THEN "ListRange" ELSE "ListMerge"
               /\ g.cont = {} => g.todo = Sessions
<1>. DEFINE h == handler[r]
            here == {e \in h.cont : e.sid = h.cur}
<1>1. h \in Locals /\ h.cont \in SUBSET Entry /\ h.out \in SUBSET Entry
  BY Located DEF ListMergeClear
<1>2. handler'[r] = Merged(h, h.cont \ here, h.out \cup here)
  BY Moved DEF ListMergeClear, Merged
<1>3. h.cont \ here \in SUBSET Entry /\ h.out \cup here \in SUBSET Entry
  BY <1>1
<1>. HIDE DEF here
<1>4. LET g == Merged(h, h.cont \ here, h.out \cup here)
      IN  /\ Kin(g, h) /\ g.told = h.told /\ g.snap = h.snap /\ g.out = h.out \cup here
          /\ g.cont = h.cont \ here
          /\ g.pc = IF g.cont = {} THEN "ListRange" ELSE "ListMerge"
          /\ g.cont = {} => g.todo = Sessions
  BY <1>1, <1>3, MergeOn
<1>. QED BY <1>2, <1>4 DEF here

LEMMA ListRangeStep ==
    ASSUME TypeOK, NEW r \in Requests, ListRange(r)
    PROVE  LET h == handler[r]  g == handler'[r]
           IN  /\ Kin(g, h) /\ g.told = h.told /\ g.snap = h.snap
               /\ \/ h.todo = {} /\ g.pc = "reply" /\ g.out = h.out
                  \/ \E s \in h.todo :
                       LET ov == sessionKernelOverrides[s]
                       IN  /\ g.todo = h.todo \ {s} /\ g.cont = h.cont
                           /\ \/ ov = None /\ g.pc = "ListRange" /\ g.out = h.out
                              \/ /\ ov # None /\ ov.kid \in h.snap /\ g.pc = "ListRange"
                                 /\ g.out = h.out \cup {buildSessionCompatResponse(s, ov)}
                              \/ /\ ov # None /\ ov.kid \notin h.snap
                                 /\ g.pc = "ListRangeClear" /\ g.cur = s /\ g.out = h.out
<1>. DEFINE h == handler[r]
<1>1. /\ h \in Locals /\ h.pc = "ListRange" /\ h.out \in SUBSET Entry
      /\ h.todo \in SUBSET Sessions
  BY Located DEF ListRange
<1>2. CASE h.todo = {} /\ Become(r, Reply(h, "ok", h.out))
  <2>. DEFINE f == [[h EXCEPT !.status = "ok"] EXCEPT !.out = h.out]
  <2>1. Kin(f, h) /\ f.told = h.told /\ f.snap = h.snap /\ f.out = h.out
    BY <1>1 DEF Kin, Locals
  <2>2. handler'[r] = Goto(f, "reply")
    BY <1>2, Moved DEF Reply
  <2>. HIDE DEF f
  <2>3. LET g == Goto(f, "reply")
        IN  Kin(g, f) /\ g.told = f.told /\ g.snap = f.snap /\ g.out = f.out /\ g.pc = "reply"
    BY <2>1, GotoKin DEF Kin, Labels
  <2>. QED BY <1>2, <2>1, <2>2, <2>3, KinTransitive
<1>3. ASSUME NEW s \in h.todo,
             LET ov == sessionKernelOverrides[s]
                 visited == [h EXCEPT !.todo = h.todo \ {s}]
             IN  Become(r, IF ov = None THEN visited
                           ELSE IF ov.kid \in h.snap
                           THEN [visited EXCEPT
                                    !.out = h.out \cup {buildSessionCompatResponse(s, ov)}]
                           ELSE Goto([visited EXCEPT !.cur = s], "ListRangeClear"))
      PROVE  LET g == handler'[r]  ov == sessionKernelOverrides[s]
             IN  /\ Kin(g, h) /\ g.told = h.told /\ g.snap = h.snap
                 /\ g.todo = h.todo \ {s} /\ g.cont = h.cont
                 /\ \/ ov = None /\ g.pc = "ListRange" /\ g.out = h.out
                    \/ /\ ov # None /\ ov.kid \in h.snap /\ g.pc = "ListRange"
                       /\ g.out = h.out \cup {buildSessionCompatResponse(s, ov)}
                    \/ /\ ov # None /\ ov.kid \notin h.snap
                       /\ g.pc = "ListRangeClear" /\ g.cur = s /\ g.out = h.out
  <2>. DEFINE ov == sessionKernelOverrides[s]
              v == [h EXCEPT !.todo = h.todo \ {s}]
              e == buildSessionCompatResponse(s, ov)
  <2>1. /\ Kin(v, h) /\ v.told = h.told /\ v.snap = h.snap /\ v.todo = h.todo \ {s}
        /\ v.cont = h.cont /\ v.out = h.out /\ v.pc = "ListRange"
    BY <1>1, <1>3 DEF Kin, Locals
  <2>2. Become(r, IF ov = None THEN v
                  ELSE IF ov.kid \in h.snap THEN [v EXCEPT !.out = h.out \cup {e}]
                  ELSE Goto([v EXCEPT !.cur = s], "ListRangeClear"))
    BY <1>3
  <2>3. s \in Sessions /\ ov \in Override \cup {None} /\ v \in Locals
    BY <1>1, <1>3, <2>1 DEF TypeOK, Kin
  <2>. HIDE DEF v
  <2>4. CASE ov = None
    <3>1. handler'[r] = v
      BY <2>2, <2>4, Moved
    <3>. QED BY <2>1, <2>4, <3>1
  <2>5. CASE ov # None /\ ov.kid \in h.snap
    <3>1. e \in Entry
      BY <2>3, <2>5, EntryTypes
    <3>. DEFINE g == [v EXCEPT !.out = h.out \cup {e}]
    <3>2. /\ Kin(g, v) /\ g.told = v.told /\ g.snap = v.snap /\ g.todo = v.todo
          /\ g.cont = v.cont /\ g.pc = v.pc /\ g.out = h.out \cup {e}
      <4>. HIDE DEF e
      <4>. QED BY <1>1, <2>3, <3>1 DEF Kin, Locals
    <3>3. handler'[r] = g
      BY <2>2, <2>5, Moved
    <3>. HIDE DEF g
    <3>. QED BY <2>1, <2>5, <3>2, <3>3, KinTransitive
  <2>6. CASE ov # None /\ ov.kid \notin h.snap
    <3>. DEFINE f == [v EXCEPT !.cur = s]
    <3>1. /\ Kin(f, v) /\ f.told = v.told /\ f.snap = v.snap /\ f.todo = v.todo
          /\ f.cont = v.cont /\ f.cur = s /\ f.out = v.out
      BY <2>3 DEF Kin, Locals
    <3>2. handler'[r] = Goto(f, "ListRangeClear")
      BY <2>2, <2>6, Moved
    <3>. HIDE DEF f
    <3>3. LET g == Goto(f, "ListRangeClear")
          IN  /\ Kin(g, f) /\ g.told = f.told /\ g.snap = f.snap /\ g.todo = f.todo
              /\ g.cont = f.cont /\ g.cur = f.cur /\ g.out = f.out /\ g.pc = "ListRangeClear"
      BY <3>1, GotoKin DEF Kin, Labels
    <3>4. Kin(handler'[r], h)
      BY <2>1, <3>1, <3>2, <3>3, KinTransitive
    <3>. QED BY <2>1, <2>6, <3>1, <3>2, <3>3, <3>4
  <2>. QED BY <2>4, <2>5, <2>6
<1>. QED BY <1>2, <1>3 DEF ListRange

LEMMA ListRangeClearStep ==
    ASSUME TypeOK, NEW r \in Requests, ListRangeClear(r)
    PROVE  LET h == handler[r]  g == handler'[r]
           IN  /\ Kin(g, h) /\ g.pc = "ListRange" /\ g.told = h.told /\ g.snap = h.snap
               /\ g.out = h.out /\ g.cont = h.cont /\ g.todo = h.todo
BY Located, GotoKin, Moved DEF ListRangeClear, Labels

\* The container's create: a new session, or the failure's branch with or without it.
LEMMA CreateStep ==
    ASSUME TypeOK, NEW r \in Requests, NEW l, At(r, l), NEW p \in Paths,
           NEW failed \in Locals, Kin(failed, handler[r]), CreateInContainer(r, p, failed)
    PROVE  LET h == handler[r]  g == handler'[r]
           IN  /\ Kin(g, h)
               /\ \/ \E s \in Sessions \ used :
                       /\ local' = [local EXCEPT ![s] = p] /\ used' = used \cup {s}
                       /\ \/ g.pc = "reply" /\ g.out = {[sid |-> s, kid |-> None, path |-> p]}
                          \/ ~g.told /\ g.pc = failed.pc
                  \/ g = failed /\ UNCHANGED <<local, used>>
<1>. DEFINE h == handler[r]
            u == Untold(failed)
<1>1. h \in Locals
  BY Located
<1>2. /\ Kin(u, h) /\ ~u.told /\ u.pc = failed.pc
  BY UntoldKin, KinTransitive
<1>. HIDE DEF u
<1>3. ASSUME NEW s \in Sessions
      PROVE  LET g == Reply(h, "ok", {[sid |-> s, kid |-> None, path |-> p]})
             IN  Kin(g, h) /\ g.pc = "reply" /\ g.out = {[sid |-> s, kid |-> None, path |-> p]}
  <2>1. {[sid |-> s, kid |-> None, path |-> p]} \in SUBSET Entry
    BY DEF Entry
  <2>. QED BY <1>1, <2>1, ReplyKin
<1>4. CASE Become(r, failed) /\ UNCHANGED <<local, used>>
  BY <1>4, Moved
<1>5. ASSUME NEW s \in Sessions \ used,
             local' = [local EXCEPT ![s] = p], used' = used \cup {s},
             \/ Become(r, Reply(h, "ok", {[sid |-> s, kid |-> None, path |-> p]}))
             \/ Become(r, u)
      PROVE  LET g == handler'[r]
             IN  /\ Kin(g, h)
                 /\ \/ g.pc = "reply" /\ g.out = {[sid |-> s, kid |-> None, path |-> p]}
                    \/ ~g.told /\ g.pc = failed.pc
  <2>1. CASE Become(r, u)
    BY <1>2, <2>1, Moved
  <2>2. CASE Become(r, Reply(h, "ok", {[sid |-> s, kid |-> None, path |-> p]}))
    BY <1>3, <2>2, Moved
  <2>. QED BY <1>5, <2>1, <2>2
<1>6. \/ \E s \in Sessions \ used :
           /\ local' = [local EXCEPT ![s] = p] /\ used' = used \cup {s}
           /\ \/ Become(r, Reply(h, "ok", {[sid |-> s, kid |-> None, path |-> p]}))
              \/ Become(r, u)
      \/ Become(r, failed) /\ UNCHANGED <<local, used>>
  BY DEF CreateInContainer, u
<1>. QED BY <1>4, <1>5, <1>6

\* A handler that resolves its kernel is of a POST or a PATCH, and stays on its route.
ResolveLabels == {"Known", "Find", "PostDefault", "PatchTouch", "PatchForward"}

LEMMA ResolveStep ==
    ASSUME NEW h \in Locals, h.op \in {"post", "patch"}
    PROVE  /\ LET g == ResolveKernel(h)
              IN  /\ Kin(g, h) /\ g.told = h.told /\ g.kid = h.kid /\ g.meta = h.meta
                  /\ g.pc \in ResolveLabels /\ OnRoute(h.op, g.pc)
           /\ LET g == NotJeg(h)
              IN  /\ Kin(g, h) /\ g.told = h.told /\ g.kid = h.kid /\ g.meta = h.meta
                  /\ g.pc \in ResolveLabels /\ OnRoute(h.op, g.pc)
<1>1. \A l \in ResolveLabels :
        LET g == Goto(h, l)
        IN  Kin(g, h) /\ g.told = h.told /\ g.kid = h.kid /\ g.meta = h.meta /\ g.pc = l
  BY GotoKin DEF ResolveLabels, Labels
<1>. QED BY <1>1, ResolveKin DEF ResolveLabels

LEMMA PostSpecStep ==
    ASSUME TypeOK, NEW r \in Requests, PostSpec(r), handler[r].op = "post"
    PROVE  LET h == handler[r]  g == handler'[r]
           IN  Kin(g, h) /\ g.pc \in ResolveLabels \cup {"PostLocal"} /\ OnRoute(h.op, g.pc)
<1>. DEFINE h == handler[r]
<1>1. h \in Locals
  BY Located DEF PostSpec
<1>2. handler'[r] = Goto(h, "PostLocal") \/ handler'[r] = ResolveKernel(h)
  BY Moved DEF PostSpec
<1>3. Kin(Goto(h, "PostLocal"), h) /\ Goto(h, "PostLocal").pc = "PostLocal"
  BY <1>1, GotoKin DEF Labels
<1>4. OnRoute("post", "PostLocal")
  BY DEF OnRoute, PostLabels
<1>. QED BY <1>1, <1>2, <1>3, <1>4, ResolveStep

\* Creating for a POST: first as asked, then with the container's default kernel.
LEMMA PostCreateStep ==
    ASSUME TypeOK, NEW r \in Requests, PostLocal(r) \/ PostDefault(r), handler[r].op = "post"
    PROVE  LET h == handler[r]  g == handler'[r]
           IN  /\ Kin(g, h) /\ OnRoute(h.op, g.pc) /\ g.pc \in ResolveLabels \cup {"reply"}
               /\ \/ /\ UNCHANGED <<local, used>>
                     /\ g.pc = "reply" => g.out = {}
                  \/ \E s \in Sessions \ used :
                       /\ local' = [local EXCEPT ![s] = h.meta] /\ used' = used \cup {s}
                       /\ \/ ~g.told
                          \/ /\ g.pc = "reply"
                             /\ g.out = {[sid |-> s, kid |-> None, path |-> h.meta]}
<1>. DEFINE h == handler[r]
            f == Reply(h, "failed", {})
<1>1. h \in Locals /\ h.meta \in Paths /\ h.pc \in {"PostLocal", "PostDefault"} /\ At(r, h.pc)
  BY Located DEF PostLocal, PostDefault, At
<1>2. Kin(f, h) /\ f \in Locals /\ f.pc = "reply" /\ f.out = {}
  BY <1>1, ReplyKin DEF Kin
<1>3. OnRoute("post", "reply")
  BY DEF OnRoute
<1>4. CASE PostLocal(r)
  <2>. DEFINE k == ResolveKernel(h)
  <2>1. Kin(k, h) /\ k \in Locals /\ k.pc \in ResolveLabels /\ OnRoute(h.op, k.pc)
    BY <1>1, ResolveStep DEF Kin
  <2>2. "reply" \notin ResolveLabels
    BY DEF ResolveLabels
  <2>3. CreateInContainer(r, h.meta, k)
    BY <1>4 DEF PostLocal
  <2>. HIDE DEF k
  <2>. QED BY <1>1, <1>3, <2>1, <2>2, <2>3, CreateStep
<1>5. CASE PostDefault(r)
  <2>. HIDE DEF f
  <2>1. CASE h.micro
    <3>1. CreateInContainer(r, h.meta, f)
      BY <1>5, <2>1 DEF PostDefault, f
    <3>. QED BY <1>1, <1>2, <1>3, <3>1, CreateStep
  <2>2. CASE ~h.micro
    <3>1. handler'[r] = f /\ UNCHANGED <<local, used>>
      BY <1>5, <2>2, Moved DEF PostDefault, f
    <3>. QED BY <1>2, <1>3, <3>1
  <2>. QED BY <2>1, <2>2
<1>. QED BY <1>4, <1>5

\* The steps towards a binding change nothing but the handler and the known ids.
LEMMA FindStep ==
    ASSUME TypeOK, NEW r \in Requests, handler[r].op \in {"post", "patch"},
           \/ findJEGKernelIDByName(r) \/ isKnownJEGKernelID(r) \/ jegHasKernel(r)
           \/ rememberJEGKernelID(r) \/ findJEGKernelNameByID(r)
    PROVE  LET h == handler[r]  g == handler'[r]
           IN  /\ Kin(g, h) /\ g.meta = h.meta /\ OnRoute(h.op, g.pc)
               /\ g.pc \in ResolveLabels \cup {"Own", "Remember", "Name", "Bind"}
<1>. DEFINE h == handler[r]
<1>1. h \in Locals
  BY Located DEF findJEGKernelIDByName, isKnownJEGKernelID, jegHasKernel, rememberJEGKernelID,
                 findJEGKernelNameByID
<1>2. \/ handler'[r] = NotJeg(h)
      \/ \E l \in {"Own", "Remember", "Name", "Bind"} : handler'[r] = Goto(h, l)
      \/ \E k \in Kernels : handler'[r] = Goto([h EXCEPT !.kid = k], "Known")
  <2>1. CASE findJEGKernelIDByName(r)
    <3>1. PICK ks \in listJEGKernels :
            \/ \E k \in ks : Become(r, Goto([h EXCEPT !.kid = k], "Known"))
            \/ Become(r, NotJeg(h))
      BY <2>1 DEF findJEGKernelIDByName
    <3>. QED BY <3>1, ListingType, Moved
  <2>2. CASE isKnownJEGKernelID(r) \/ rememberJEGKernelID(r) \/ findJEGKernelNameByID(r)
    BY <2>2, Moved DEF isKnownJEGKernelID, rememberJEGKernelID, findJEGKernelNameByID
  <2>3. CASE jegHasKernel(r)
    BY <2>3, Moved DEF jegHasKernel
  <2>. QED BY <2>1, <2>2, <2>3
<1>3. CASE handler'[r] = NotJeg(h)
  BY <1>1, <1>3, ResolveStep
<1>4. ASSUME NEW l \in {"Own", "Remember", "Name", "Bind"}, handler'[r] = Goto(h, l)
      PROVE  LET g == handler'[r]
             IN  Kin(g, h) /\ g.meta = h.meta /\ OnRoute(h.op, g.pc) /\ g.pc = l
  <2>1. OnRoute(h.op, l)
    BY DEF OnRoute, BindLabels
  <2>. QED BY <1>1, <1>4, <2>1, GotoKin DEF Labels
<1>5. ASSUME NEW k \in Kernels, handler'[r] = Goto([h EXCEPT !.kid = k], "Known")
      PROVE  LET g == handler'[r]
             IN  Kin(g, h) /\ g.meta = h.meta /\ OnRoute(h.op, g.pc) /\ g.pc = "Known"
  <2>. DEFINE f == [h EXCEPT !.kid = k]
  <2>1. Kin(f, h) /\ f.meta = h.meta
    BY <1>1 DEF Kin, Locals
  <2>. HIDE DEF f
  <2>2. LET g == Goto(f, "Known") IN Kin(g, f) /\ g.meta = f.meta /\ g.pc = "Known"
    BY <2>1, GotoKin DEF Kin, Labels
  <2>3. OnRoute(h.op, "Known")
    BY DEF OnRoute, BindLabels
  <2>. QED BY <1>5, <2>1, <2>2, <2>3, KinTransitive DEF f
<1>. QED BY <1>2, <1>3, <1>4, <1>5 DEF ResolveLabels

LEMMA BindStep ==
    ASSUME ConstantsOK, TypeOK, NEW r \in Requests, Bind(r)
    PROVE  LET h == handler[r]  g == handler'[r]
           IN  /\ Kin(g, h) /\ g.pc = "reply" /\ h.kid \in Kernels
               /\ g.out = {[sid |-> h.sid, kid |-> h.kid, path |-> h.meta]}
<1>. DEFINE h == handler[r]
            e == [sid |-> h.sid, kid |-> h.kid, path |-> h.meta]
<1>1. h \in Locals /\ h.sid \in Sessions /\ h.meta \in Paths
  BY Located DEF Bind
<1>2. h.kid \in Kernels
  BY AtType DEF Bind, At, Handler, Locals, NeedsKernel
<1>3. {e} \in SUBSET Entry
  BY <1>1, <1>2 DEF Entry
<1>4. handler'[r] = Reply(h, "ok", {e})
  BY Moved DEF Bind
<1>. HIDE DEF e
<1>. QED BY <1>1, <1>2, <1>3, <1>4, ReplyKin DEF e

LEMMA PatchLoadStep ==
    ASSUME ConstantsOK, TypeOK, NEW r \in Requests, PatchLoad(r), handler[r].op = "patch"
    PROVE  LET h == handler[r]  g == handler'[r]  ov == sessionKernelOverrides[h.sid]
           IN  /\ Kin(g, h)
               /\ \/ ov = None /\ g.pc = "PatchFetch"
                  \/ /\ ov # None /\ g.pc \in ResolveLabels /\ OnRoute("patch", g.pc)
                     /\ g.meta = applySessionMetadataPatch(ov.path, h.path)
<1>. DEFINE h == handler[r]
            ov == sessionKernelOverrides[h.sid]
            p == applySessionMetadataPatch(ov.path, h.path)
            f == [h EXCEPT !.meta = p]
<1>1. h \in Locals /\ ov \in Override \cup {None} /\ h.path \in Paths \cup {None}
  BY Located DEF PatchLoad
<1>2. CASE ov = None
  BY <1>1, <1>2, GotoKin, Moved DEF PatchLoad, Labels
<1>3. CASE ov # None
  <2>1. p \in Paths
    BY <1>1, <1>3, PatchType DEF Override
  <2>. HIDE DEF p
  <2>2. Kin(f, h) /\ f.meta = p
    BY <1>1, <2>1 DEF Kin, Locals
  <2>3. handler'[r] = ResolveKernel(f)
    BY <1>3, Moved DEF PatchLoad, p
  <2>. HIDE DEF f
  <2>4. LET g == ResolveKernel(f)
        IN  Kin(g, f) /\ g.meta = f.meta /\ g.pc \in ResolveLabels /\ OnRoute(f.op, g.pc)
    BY <2>2, ResolveStep DEF Kin
  <2>5. Kin(handler'[r], h)
    BY <2>2, <2>3, <2>4, KinTransitive
  <2>. QED BY <1>3, <2>2, <2>3, <2>4, <2>5 DEF Kin, p
<1>. QED BY <1>2, <1>3

LEMMA PatchFetchStep ==
    ASSUME ConstantsOK, TypeOK, NEW r \in Requests, fetchContainerSessionMetadata(r),
           handler[r].op = "patch"
    PROVE  LET h == handler[r]  g == handler'[r]
           IN  /\ Kin(g, h) /\ g.pc \in ResolveLabels /\ OnRoute("patch", g.pc)
               /\ \/ /\ local[h.sid] # None
                     /\ g.meta = applySessionMetadataPatch(local[h.sid], h.path)
                  \/ ~h.micro
                  \/ local[h.sid] = None
                  \/ ~g.told
<1>. DEFINE h == handler[r]
            p == applySessionMetadataPatch(local[h.sid], h.path)
            f == [h EXCEPT !.meta = p]
            u == Untold(h)
<1>1. h \in Locals /\ local[h.sid] \in Paths \cup {None} /\ h.path \in Paths \cup {None}
  BY Located DEF fetchContainerSessionMetadata
<1>2. \/ local[h.sid] # None /\ handler'[r] = ResolveKernel(f)
      \/ (~h.micro \/ local[h.sid] = None) /\ handler'[r] = ResolveKernel(h)
      \/ handler'[r] = ResolveKernel(u)
  BY Moved DEF fetchContainerSessionMetadata
<1>3. CASE local[h.sid] # None /\ handler'[r] = ResolveKernel(f)
  <2>1. p \in Paths
    BY <1>1, <1>3, PatchType
  <2>. HIDE DEF p
  <2>2. Kin(f, h) /\ f.meta = p
    BY <1>1, <2>1 DEF Kin, Locals
  <2>. HIDE DEF f
  <2>3. LET g == ResolveKernel(f)
        IN  Kin(g, f) /\ g.meta = f.meta /\ g.pc \in ResolveLabels /\ OnRoute(f.op, g.pc)
    BY <2>2, ResolveStep DEF Kin
  <2>4. Kin(handler'[r], h)
    BY <1>3, <2>2, <2>3, KinTransitive
  <2>. QED BY <1>3, <2>2, <2>3, <2>4 DEF Kin, p
<1>4. CASE (~h.micro \/ local[h.sid] = None) /\ handler'[r] = ResolveKernel(h)
  BY <1>1, <1>4, ResolveStep
<1>5. CASE handler'[r] = ResolveKernel(u)
  <2>1. Kin(u, h) /\ ~u.told
    BY <1>1, UntoldKin
  <2>. HIDE DEF u
  <2>2. LET g == ResolveKernel(u)
        IN  Kin(g, u) /\ g.told = u.told /\ g.pc \in ResolveLabels /\ OnRoute(u.op, g.pc)
    BY <2>1, ResolveStep DEF Kin
  <2>3. Kin(handler'[r], h)
    BY <1>5, <2>1, <2>2, KinTransitive
  <2>. QED BY <1>5, <2>1, <2>2, <2>3 DEF Kin
<1>. QED BY <1>2, <1>3, <1>4, <1>5

LEMMA PatchTouchStep ==
    ASSUME TypeOK, NEW r \in Requests, PatchTouch(r)
    PROVE  LET h == handler[r]  g == handler'[r]
           IN  Kin(g, h) /\ g.meta = h.meta /\ g.pc \in {"PatchForward", "PatchStore"}
<1>. DEFINE h == handler[r]
            ov == sessionKernelOverrides[h.sid]
            f == [h EXCEPT !.ov = ov]
<1>1. h \in Locals /\ ov \in Override \cup {None}
  BY Located DEF PatchTouch
<1>2. CASE ov = None
  BY <1>1, <1>2, GotoKin, Moved DEF PatchTouch, Labels
<1>3. CASE ov # None
  <2>1. Kin(f, h) /\ f.meta = h.meta
    BY <1>1 DEF Kin, Locals
  <2>2. handler'[r] = Goto(f, "PatchStore")
    BY <1>3, Moved DEF PatchTouch
  <2>. HIDE DEF f
  <2>3. LET g == Goto(f, "PatchStore") IN Kin(g, f) /\ g.meta = f.meta /\ g.pc = "PatchStore"
    BY <2>1, GotoKin DEF Kin, Labels
  <2>. QED BY <2>1, <2>2, <2>3, KinTransitive
<1>. QED BY <1>2, <1>3

LEMMA PatchStoreStep ==
    ASSUME TypeOK, NEW r \in Requests, PatchStore(r)
    PROVE  LET h == handler[r]  g == handler'[r]
           IN  /\ Kin(g, h) /\ g.pc = "reply" /\ h.ov \in Override /\ h.ov # None
               /\ g.out = {[sid |-> h.sid, kid |-> h.ov.kid, path |-> h.meta]}
<1>. DEFINE h == handler[r]
            e == [sid |-> h.sid, kid |-> h.ov.kid, path |-> h.meta]
<1>1. h \in Locals /\ h.sid \in Sessions /\ h.meta \in Paths
  BY Located DEF PatchStore
<1>2. h.ov \in Override /\ h.ov # None
  BY AtType DEF PatchStore, At, Handler, Locals, NeedsOverride
<1>3. {e} \in SUBSET Entry
  BY <1>1, <1>2 DEF Entry, Override
<1>4. handler'[r] = Reply(h, "ok", {e})
  BY Moved DEF PatchStore
<1>. HIDE DEF e
<1>. QED BY <1>1, <1>2, <1>3, <1>4, ReplyKin DEF e

LEMMA PatchForwardStep ==
    ASSUME ConstantsOK, TypeOK, NEW r \in Requests, PatchForward(r)
    PROVE  LET h == handler[r]  g == handler'[r]
               p == applySessionMetadataPatch(local[h.sid], h.path)
           IN  /\ Kin(g, h)
               /\ \/ /\ local[h.sid] # None /\ local' = [local EXCEPT ![h.sid] = p]
                     /\ p \in Paths
                     /\ \/ /\ g.pc = "PatchRelease" /\ g.meta = h.meta
                           /\ g.out = {[sid |-> h.sid, kid |-> None, path |-> p]}
                        \/ ~g.told /\ g.pc = "reply"
                  \/ /\ UNCHANGED local
                     /\ \/ g.pc = "PatchSpec" /\ g.meta = h.meta
                        \/ g.pc = "reply" /\ g.out = {}
<1>. DEFINE h == handler[r]
            p == applySessionMetadataPatch(local[h.sid], h.path)
            e == [sid |-> h.sid, kid |-> None, path |-> p]
            u == Untold(h)
<1>1. /\ h \in Locals /\ h.sid \in Sessions /\ local[h.sid] \in Paths \cup {None}
      /\ h.path \in Paths \cup {None}
  BY Located DEF PatchForward
<1>2. \/ /\ local[h.sid] # None /\ local' = [local EXCEPT ![h.sid] = p]
         /\ \/ Become(r, Goto([h EXCEPT !.out = {e}], "PatchRelease"))
            \/ Become(r, Reply(u, "failed", {}))
      \/ /\ UNCHANGED local
         /\ Become(r, Goto(h, "PatchSpec")) \/ Become(r, Reply(h, "failed", {}))
  BY DEF PatchForward
<1>3. ASSUME local[h.sid] # None
      PROVE  p \in Paths /\ {e} \in SUBSET Entry
  BY <1>1, <1>3, PatchType DEF Entry
<1>4. CASE /\ local[h.sid] # None /\ local' = [local EXCEPT ![h.sid] = p]
           /\ Become(r, Goto([h EXCEPT !.out = {e}], "PatchRelease"))
  <2>. HIDE DEF e
  <2>. DEFINE f == [h EXCEPT !.out = {e}]
  <2>1. Kin(f, h) /\ f.out = {e} /\ f.meta = h.meta
    BY <1>1, <1>3, <1>4 DEF Kin, Locals
  <2>2. handler'[r] = Goto(f, "PatchRelease")
    BY <1>4, Moved
  <2>. HIDE DEF f
  <2>3. LET g == Goto(f, "PatchRelease")
        IN  Kin(g, f) /\ g.out = f.out /\ g.meta = f.meta /\ g.pc = "PatchRelease"
    BY <2>1, GotoKin DEF Kin, Labels
  <2>4. Kin(handler'[r], h)
    BY <2>1, <2>2, <2>3, KinTransitive
  <2>. QED BY <1>3, <1>4, <2>1, <2>2, <2>3, <2>4 DEF e
<1>5. CASE /\ local[h.sid] # None /\ local' = [local EXCEPT ![h.sid] = p]
           /\ Become(r, Reply(u, "failed", {}))
  <2>1. Kin(u, h) /\ ~u.told
    BY <1>1, UntoldKin
  <2>2. handler'[r] = Reply(u, "failed", {})
    BY <1>5, Moved
  <2>. HIDE DEF u
  <2>3. LET g == Reply(u, "failed", {}) IN Kin(g, u) /\ g.told = u.told /\ g.pc = "reply"
    BY <2>1, ReplyKin DEF Kin
  <2>4. Kin(handler'[r], h)
    BY <2>1, <2>2, <2>3, KinTransitive
  <2>. QED BY <1>3, <1>5, <2>1, <2>2, <2>3, <2>4
<1>6. CASE UNCHANGED local /\ Become(r, Goto(h, "PatchSpec"))
  BY <1>1, <1>6, GotoKin, Moved DEF Labels
<1>7. CASE UNCHANGED local /\ Become(r, Reply(h, "failed", {}))
  BY <1>1, <1>7, ReplyKin, Moved
<1>. QED BY <1>2, <1>4, <1>5, <1>6, <1>7

LEMMA PatchReleaseStep ==
    ASSUME TypeOK, NEW r \in Requests, PatchRelease(r)
    PROVE  LET h == handler[r]  g == handler'[r]
           IN  Kin(g, h) /\ g.pc = "reply" /\ g.out = h.out
<1>. DEFINE h == handler[r]
<1>1. h \in Locals /\ h.out \in SUBSET Entry
  BY Located DEF PatchRelease
<1>2. handler'[r] = Reply(h, "ok", h.out)
  BY Moved DEF PatchRelease
<1>. QED BY <1>1, <1>2, ReplyKin

LEMMA PatchSpecStep ==
    ASSUME TypeOK, NEW r \in Requests, PatchSpec(r)
    PROVE  LET h == handler[r]  g == handler'[r]
           IN  /\ Kin(g, h)
               /\ \/ g.pc = "PatchDrop" /\ g.meta = h.meta
                  \/ g.pc = "reply" /\ g.out = {}
<1>. DEFINE h == handler[r]
<1>1. h \in Locals
  BY Located DEF PatchSpec
<1>2. handler'[r] = Goto(h, "PatchDrop") \/ handler'[r] = Reply(h, "failed", {})
  BY Moved DEF PatchSpec
<1>. QED BY <1>1, <1>2, GotoKin, ReplyKin DEF Labels

LEMMA PatchDropStep ==
    ASSUME TypeOK, NEW r \in Requests, PatchDrop(r)
    PROVE  LET h == handler[r]  g == handler'[r]
           IN  Kin(g, h) /\ g.pc = "PatchCreate" /\ g.meta = h.meta
BY Located, GotoKin, Moved DEF PatchDrop, Labels

LEMMA PatchCreateStep ==
    ASSUME TypeOK, NEW r \in Requests, PatchCreate(r)
    PROVE  LET h == handler[r]  g == handler'[r]
           IN  /\ Kin(g, h) /\ g.pc = "reply"
               /\ \/ UNCHANGED <<local, used>> /\ g.out = {}
                  \/ \E s \in Sessions \ used :
                       /\ local' = [local EXCEPT ![s] = h.meta] /\ used' = used \cup {s}
                       /\ ~g.told \/ g.out = {[sid |-> s, kid |-> None, path |-> h.meta]}
<1>. DEFINE h == handler[r]
            f == Reply(h, "failed", {})
<1>1. h \in Locals /\ h.meta \in Paths /\ At(r, "PatchCreate")
  BY Located DEF PatchCreate
<1>2. Kin(f, h) /\ f \in Locals /\ f.pc = "reply" /\ f.out = {}
  BY <1>1, ReplyKin DEF Kin
<1>3. CreateInContainer(r, h.meta, f)
  BY DEF PatchCreate
<1>. HIDE DEF f
<1>. QED BY <1>1, <1>2, <1>3, CreateStep

LEMMA DeleteClearStep ==
    ASSUME TypeOK, NEW r \in Requests, DeleteClear(r)
    PROVE  LET h == handler[r]  g == handler'[r]
           IN  Kin(g, h) /\ g.pc = "DeleteContainer"
BY Located, GotoKin, Moved DEF DeleteClear, Labels

LEMMA DeleteContainerStep ==
    ASSUME TypeOK, NEW r \in Requests, DeleteContainer(r)
    PROVE  LET h == handler[r]  g == handler'[r]
           IN  /\ Kin(g, h) /\ g.pc = "reply" /\ g.out = {}
               /\ \/ local' = [local EXCEPT ![h.sid] = None]
                  \/ UNCHANGED local /\ ~g.told
<1>. DEFINE h == handler[r]
            u == Untold(h)
<1>1. h \in Locals
  BY Located DEF DeleteContainer
<1>2. \/ local' = [local EXCEPT ![h.sid] = None] /\ handler'[r] = Reply(h, "ok", {})
      \/ UNCHANGED local /\ handler'[r] = Reply(u, "ok", {})
  BY Moved DEF DeleteContainer
<1>3. Kin(u, h) /\ ~u.told
  BY <1>1, UntoldKin
<1>. HIDE DEF u
<1>4. LET g == Reply(u, "ok", {})
      IN  Kin(g, u) /\ g.pc = "reply" /\ g.out = {} /\ g.told = u.told
  BY <1>3, ReplyKin DEF Kin
<1>. QED BY <1>1, <1>2, <1>3, <1>4, ReplyKin, KinTransitive

\* A handler begins at the first label of its route, with what was asked and the view
\* there is.
FirstLabels(op) == CASE op = "get" -> {"GetLoad"}
                     [] op = "list" -> {"ListJeg"}
                     [] op = "post" -> {"PostSpec", "Known", "Find", "PostDefault"}
                     [] op = "patch" -> {"PatchLoad"}
                     [] op = "delete" -> {"DeleteClear"}

LEMMA StartStep ==
    ASSUME ConstantsOK, TypeOK, NEW r \in Requests, NEW c \in Calls, Start(r, c)
    PROVE  LET g == handler'[r]
           IN  /\ g \in Locals /\ g.op = c.op /\ g.sid = c.sid /\ g.path = c.path
               /\ g.was = [s \in Sessions |-> View(s)] /\ g.out = {} /\ (g.told => g.micro)
               /\ g.pc \in FirstLabels(g.op) /\ OnRoute(g.op, g.pc)
<1>1. PICK micro \in BOOLEAN : handler'[r] = Dispatch(Fresh(c, micro))
  BY Moved DEF Start
<1>. DEFINE f == Fresh(c, micro)
<1>2. f \in Locals
  BY FreshType DEF Handler
<1>3. /\ f.op = c.op /\ f.sid = c.sid /\ f.path = c.path /\ f.was = [s \in Sessions |-> View(s)]
      /\ f.out = {} /\ f.told = f.micro
  BY DEF Fresh
<1>. HIDE DEF f
<1>4. f.op \in Ops
  BY <1>2 DEF Locals
<1>5. PICK l \in Labels : Dispatch(f) = Goto(f, l) /\ l \in FirstLabels(f.op) /\ OnRoute(f.op, l)
  <2>1. CASE f.op \in {"get", "list", "patch", "delete"}
    BY <2>1 DEF Dispatch, FirstLabels, OnRoute, GetLabels, ListLabels, LoadLabels, PatchLabels,
                DeleteLabels, Labels
  <2>2. CASE f.op = "post"
    <3>1. PICK l \in ResolveLabels : ResolveKernel(f) = Goto(f, l) /\ OnRoute("post", l)
      BY <1>2, <2>2, ResolveKin DEF ResolveLabels
    <3>2. l \in {"Known", "Find", "PostDefault"}
      BY <3>1 DEF ResolveLabels, OnRoute, PostLabels, BindLabels
    <3>3. Dispatch(f) = Goto(f, "PostSpec") \/ Dispatch(f) = Goto(f, l)
      BY <2>2, <3>1 DEF Dispatch
    <3>. QED BY <2>2, <3>2, <3>3 DEF FirstLabels, OnRoute, PostLabels, BindLabels, Labels
  <2>. QED BY <1>4, <2>1, <2>2 DEF Ops
<1>6. LET g == Goto(f, l) IN Kin(g, f) /\ g.pc = l /\ g.out = f.out /\ g.told = f.told
  BY <1>2, GotoKin
<1>. QED BY <1>1, <1>3, <1>5, <1>6 DEF Kin, f

----------------------------------------------------------------------------
(* First invariant: every handler is on its route, was told nothing without   *)
(* an upstream, and the sessions there are were given out.                    *)

Routed(h, given) ==
    /\ OnRoute(h.op, h.pc)
    /\ h.told => h.micro
    /\ h.op # "list" => h.sid \in given

Placed ==
    /\ \A r \in Requests : handler[r] # None => Routed(handler[r], used)
    /\ \A s \in Sessions : sessionKernelOverrides[s] # None \/ local[s] # None => s \in used

\* The label tells the route.
LEMMA RouteOfLabel ==
    ASSUME NEW op \in Ops, NEW l, OnRoute(op, l)
    PROVE  /\ l \in GetLabels => op = "get"
           /\ l \in ListLabels => op = "list"
           /\ l \in PostLabels => op = "post"
           /\ l \in BindLabels => op \in {"post", "patch"}
           /\ l \in PatchLabels => op = "patch"
           /\ l \in DeleteLabels => op = "delete"
BY DEF OnRoute, Ops, GetLabels, ListLabels, MergeLabels, RangeLabels, PostLabels, BindLabels,
       PatchLabels, LoadLabels, DeleteLabels

\* A handler on the route, at a label of it.
LEMMA OnItsRoute ==
    ASSUME TypeOK, Placed, NEW r \in Requests, NEW l, At(r, l)
    PROVE  LET op == handler[r].op
           IN  /\ op \in Ops /\ OnRoute(op, l)
               /\ l \in GetLabels => op = "get"
               /\ l \in ListLabels => op = "list"
               /\ l \in PostLabels => op = "post"
               /\ l \in BindLabels => op \in {"post", "patch"}
               /\ l \in PatchLabels => op = "patch"
               /\ l \in DeleteLabels => op = "delete"
<1>1. handler[r].op \in Ops /\ handler[r].pc = l /\ handler[r] # None
  BY Located DEF Locals
<1>2. OnRoute(handler[r].op, l)
  BY <1>1 DEF Placed, Routed
<1>. QED BY <1>1, <1>2, RouteOfLabel

\* Only the handler that takes a step moves.
LEMMA OthersStay ==
    ASSUME TypeOK, NEW r \in Requests, Handle(r) \/ \E c \in Calls : Start(r, c)
    PROVE  \A q \in Requests \ {r} : handler'[q] = handler[q]
<1>1. CASE \/ GetLoad(r) \/ GetJeg(r) \/ GetClear(r) \/ GetContainer(r)
  BY <1>1, Moved DEF GetLoad, GetJeg, GetClear, GetContainer
<1>2. CASE \/ ListJeg(r) \/ ListContainer(r) \/ ListMerge(r) \/ ListMergeClear(r)
           \/ ListRange(r) \/ ListRangeClear(r)
  BY <1>2, Moved DEF ListJeg, ListContainer, ListMerge, ListMergeClear, ListRange, ListRangeClear
<1>3. CASE \/ PostSpec(r) \/ findJEGKernelIDByName(r) \/ isKnownJEGKernelID(r) \/ jegHasKernel(r)
           \/ rememberJEGKernelID(r) \/ findJEGKernelNameByID(r) \/ Bind(r)
  BY <1>3, Moved DEF PostSpec, findJEGKernelIDByName, isKnownJEGKernelID, jegHasKernel,
                     rememberJEGKernelID, findJEGKernelNameByID, Bind
<1>4. CASE PostLocal(r) \/ PostDefault(r) \/ PatchCreate(r)
  BY <1>4, Moved DEF PostLocal, PostDefault, PatchCreate, CreateInContainer
<1>5. CASE \/ PatchLoad(r) \/ fetchContainerSessionMetadata(r) \/ PatchTouch(r)
           \/ PatchStore(r) \/ PatchForward(r) \/ PatchRelease(r) \/ PatchSpec(r) \/ PatchDrop(r)
  BY <1>5, Moved DEF PatchLoad, fetchContainerSessionMetadata, PatchTouch, PatchStore,
                     PatchForward, PatchRelease, PatchSpec, PatchDrop
<1>6. CASE DeleteClear(r) \/ DeleteContainer(r) \/ Finish(r) \/ \E c \in Calls : Start(r, c)
  BY <1>6, Moved DEF DeleteClear, DeleteContainer, Finish, Start
<1>. QED BY <1>1, <1>2, <1>3, <1>4, <1>5, <1>6 DEF Handle

\* A step of a handler on its route leaves it there.
LEMMA RouteKept ==
    ASSUME ConstantsOK, TypeOK, Placed, NEW r \in Requests, Handle(r), ~Finish(r)
    PROVE  /\ handler[r] # None
           /\ Kin(handler'[r], handler[r]) /\ OnRoute(handler[r].op, handler'[r].pc)
<1>. DEFINE h == handler[r]
            g == handler'[r]
<1>. USE DEF OnRoute
<1>1. CASE \/ GetLoad(r) \/ GetJeg(r) \/ GetClear(r) \/ GetContainer(r)
  <2>1. h # None /\ h.op = "get"
    BY <1>1, Located, OnItsRoute DEF GetLoad, GetJeg, GetClear, GetContainer, GetLabels
  <2>. QED BY <1>1, <2>1, GetLoadStep, GetJegStep, GetClearStep, GetContainerStep DEF GetLabels
<1>2. CASE \/ ListJeg(r) \/ ListContainer(r) \/ ListMerge(r) \/ ListMergeClear(r)
           \/ ListRange(r) \/ ListRangeClear(r)
  <2>1. h # None /\ h.op = "list"
    BY <1>2, Located, OnItsRoute DEF ListJeg, ListContainer, ListMerge, ListMergeClear, ListRange,
       ListRangeClear, ListLabels, MergeLabels, RangeLabels
  <2>2. Kin(g, h) /\ g.pc \in ListLabels \cup {"reply"}
    <3>. USE DEF ListLabels, MergeLabels, RangeLabels
    <3>1. CASE ListJeg(r) \/ ListContainer(r)
      BY <3>1, ListJegStep, ListContainerStep
    <3>2. CASE ListMerge(r)
      BY <3>2, ListMergeStep
    <3>3. CASE ListMergeClear(r)
      BY <3>3, ListMergeClearStep
    <3>4. CASE ListRange(r) \/ ListRangeClear(r)
      BY <3>4, ListRangeStep, ListRangeClearStep
    <3>. QED BY <1>2, <3>1, <3>2, <3>3, <3>4
  <2>. QED BY <2>1, <2>2
<1>3. CASE PostSpec(r) \/ PostLocal(r) \/ PostDefault(r)
  <2>1. h # None /\ h.op = "post"
    BY <1>3, Located, OnItsRoute DEF PostSpec, PostLocal, PostDefault, PostLabels
  <2>. QED BY <1>3, <2>1, PostSpecStep, PostCreateStep
<1>4. CASE \/ findJEGKernelIDByName(r) \/ isKnownJEGKernelID(r) \/ jegHasKernel(r)
           \/ rememberJEGKernelID(r) \/ findJEGKernelNameByID(r) \/ Bind(r)
  <2>1. h # None /\ h.op \in {"post", "patch"}
    BY <1>4, Located, OnItsRoute DEF findJEGKernelIDByName, isKnownJEGKernelID, jegHasKernel,
       rememberJEGKernelID, findJEGKernelNameByID, Bind, BindLabels
  <2>2. CASE Bind(r)
    BY <2>1, <2>2, BindStep
  <2>3. CASE ~Bind(r)
    BY <1>4, <2>1, <2>3, FindStep
  <2>. QED BY <2>2, <2>3
<1>5. CASE \/ PatchLoad(r) \/ fetchContainerSessionMetadata(r) \/ PatchTouch(r)
           \/ PatchStore(r) \/ PatchForward(r) \/ PatchRelease(r) \/ PatchSpec(r) \/ PatchDrop(r)
           \/ PatchCreate(r)
  <2>1. h # None /\ h.op = "patch"
    BY <1>5, Located, OnItsRoute DEF PatchLoad, fetchContainerSessionMetadata, PatchTouch,
       PatchStore, PatchForward, PatchRelease, PatchSpec, PatchDrop, PatchCreate, PatchLabels,
       LoadLabels
  <2>2. CASE PatchLoad(r) \/ fetchContainerSessionMetadata(r)
    BY <2>1, <2>2, PatchLoadStep, PatchFetchStep DEF PatchLabels, LoadLabels
  <2>3. CASE PatchTouch(r) \/ PatchStore(r) \/ PatchRelease(r) \/ PatchSpec(r) \/ PatchDrop(r)
    BY <2>1, <2>3, PatchTouchStep, PatchStoreStep, PatchReleaseStep, PatchSpecStep, PatchDropStep
    DEF PatchLabels
  <2>4. CASE PatchForward(r) \/ PatchCreate(r)
    BY <2>1, <2>4, PatchForwardStep, PatchCreateStep DEF PatchLabels
  <2>. QED BY <1>5, <2>2, <2>3, <2>4
<1>6. CASE DeleteClear(r) \/ DeleteContainer(r)
  <2>1. h # None /\ h.op = "delete"
    BY <1>6, Located, OnItsRoute DEF DeleteClear, DeleteContainer, DeleteLabels
  <2>. QED BY <1>6, <2>1, DeleteClearStep, DeleteContainerStep DEF DeleteLabels
<1>. QED BY <1>1, <1>2, <1>3, <1>4, <1>5, <1>6 DEF Handle

\* The steps of a handler that write an override, and the step that clears one.
Binders == {"Bind", "PatchStore"}
Clearers == {"GetClear", "ListMergeClear", "ListRangeClear", "PatchRelease", "PatchDrop",
             "DeleteClear"}

LEMMA OverridesMove ==
    ASSUME TypeOK, NEW r \in Requests, Handle(r)
    PROVE  LET h == handler[r]
               aimed == IF h.pc \in {"ListMergeClear", "ListRangeClear"} THEN h.cur ELSE h.sid
           IN  /\ h.pc \notin Binders \cup Clearers => UNCHANGED sessionKernelOverrides
               /\ h.pc \in Clearers => sessionKernelOverrides' =
                      [sessionKernelOverrides EXCEPT ![aimed] = None]
               /\ h.pc = "Bind" => sessionKernelOverrides' =
                      [sessionKernelOverrides EXCEPT ![h.sid] = [kid |-> h.kid, path |-> h.meta]]
               /\ h.pc = "PatchStore" => sessionKernelOverrides' =
                      [sessionKernelOverrides EXCEPT ![h.sid] = [kid |-> h.ov.kid, path |-> h.meta]]
<1>. USE DEF At, Binders, Clearers, clearSessionKernelOverride, setSessionKernelOverride
<1>1. CASE \/ GetLoad(r) \/ GetJeg(r) \/ GetClear(r) \/ GetContainer(r)
  BY <1>1 DEF GetLoad, GetJeg, GetClear, GetContainer
<1>2. CASE \/ ListJeg(r) \/ ListContainer(r) \/ ListMerge(r) \/ ListMergeClear(r)
           \/ ListRange(r) \/ ListRangeClear(r)
  BY <1>2 DEF ListJeg, ListContainer, ListMerge, ListMergeClear, ListRange, ListRangeClear
<1>3. CASE \/ PostSpec(r) \/ findJEGKernelIDByName(r) \/ isKnownJEGKernelID(r) \/ jegHasKernel(r)
           \/ rememberJEGKernelID(r) \/ findJEGKernelNameByID(r) \/ Bind(r)
  BY <1>3 DEF PostSpec, findJEGKernelIDByName, isKnownJEGKernelID, jegHasKernel,
              rememberJEGKernelID, findJEGKernelNameByID, Bind
<1>4. CASE PostLocal(r) \/ PostDefault(r) \/ PatchCreate(r)
  BY <1>4 DEF PostLocal, PostDefault, PatchCreate
<1>5. CASE \/ PatchLoad(r) \/ fetchContainerSessionMetadata(r) \/ PatchTouch(r)
           \/ PatchStore(r) \/ PatchForward(r) \/ PatchRelease(r) \/ PatchSpec(r) \/ PatchDrop(r)
  BY <1>5 DEF PatchLoad, fetchContainerSessionMetadata, PatchTouch, PatchStore,
              PatchForward, PatchRelease, PatchSpec, PatchDrop
<1>6. CASE DeleteClear(r) \/ DeleteContainer(r) \/ Finish(r)
  BY <1>6 DEF DeleteClear, DeleteContainer, Finish
<1>. QED BY <1>1, <1>2, <1>3, <1>4, <1>5, <1>6 DEF Handle

\* The steps of a handler that reach the container's sessions.
Writers == {"PostLocal", "PostDefault", "PatchForward", "PatchCreate", "DeleteContainer"}

LEMMA LocalMoves ==
    ASSUME TypeOK, NEW r \in Requests, Handle(r), handler[r].pc \notin Writers
    PROVE  UNCHANGED <<local, used>>
<1>. USE DEF At, Writers
<1>1. CASE \/ GetLoad(r) \/ GetJeg(r) \/ GetClear(r) \/ GetContainer(r)
  BY <1>1 DEF GetLoad, GetJeg, GetClear, GetContainer
<1>2. CASE \/ ListJeg(r) \/ ListContainer(r) \/ ListMerge(r) \/ ListMergeClear(r)
           \/ ListRange(r) \/ ListRangeClear(r)
  BY <1>2 DEF ListJeg, ListContainer, ListMerge, ListMergeClear, ListRange, ListRangeClear
<1>3. CASE \/ PostSpec(r) \/ findJEGKernelIDByName(r) \/ isKnownJEGKernelID(r) \/ jegHasKernel(r)
           \/ rememberJEGKernelID(r) \/ findJEGKernelNameByID(r) \/ Bind(r)
  BY <1>3 DEF PostSpec, findJEGKernelIDByName, isKnownJEGKernelID, jegHasKernel,
              rememberJEGKernelID, findJEGKernelNameByID, Bind
<1>4. CASE PostLocal(r) \/ PostDefault(r) \/ PatchCreate(r)
  BY <1>4 DEF PostLocal, PostDefault, PatchCreate
<1>5. CASE \/ PatchLoad(r) \/ fetchContainerSessionMetadata(r) \/ PatchTouch(r)
           \/ PatchStore(r) \/ PatchForward(r) \/ PatchRelease(r) \/ PatchSpec(r) \/ PatchDrop(r)
  BY <1>5 DEF PatchLoad, fetchContainerSessionMetadata, PatchTouch, PatchStore,
              PatchForward, PatchRelease, PatchSpec, PatchDrop
<1>6. CASE DeleteClear(r) \/ DeleteContainer(r) \/ Finish(r)
  BY <1>6 DEF DeleteClear, DeleteContainer, Finish
<1>. QED BY <1>1, <1>2, <1>3, <1>4, <1>5, <1>6 DEF Handle

\* The label of a handler is the step it takes.
LEMMA StepAtLabel ==
    ASSUME NEW r \in Requests, Handle(r)
    PROVE  LET l == handler[r].pc
           IN  /\ At(r, l)
               /\ l = "PostLocal" => PostLocal(r)
               /\ l = "PostDefault" => PostDefault(r)
               /\ l = "Bind" => Bind(r)
               /\ l = "PatchStore" => PatchStore(r)
               /\ l = "PatchForward" => PatchForward(r)
               /\ l = "PatchCreate" => PatchCreate(r)
               /\ l = "DeleteContainer" => DeleteContainer(r)
               /\ l = "reply" => Finish(r)
BY DEF Handle, GetLoad, GetJeg, GetClear, GetContainer, ListJeg, ListContainer, ListMerge,
   ListMergeClear, ListRange, ListRangeClear, PostSpec, PostLocal, PostDefault,
   findJEGKernelIDByName, isKnownJEGKernelID, jegHasKernel, rememberJEGKernelID,
   findJEGKernelNameByID, Bind, PatchLoad, fetchContainerSessionMetadata, PatchTouch,
   PatchStore, PatchForward, PatchRelease, PatchSpec, PatchDrop, PatchCreate, DeleteClear,
   DeleteContainer, Finish, At

\* What was given out stays given out, and covers the sessions there are.
LEMMA GivenOut ==
    ASSUME ConstantsOK, TypeOK, Placed, NEW r \in Requests, Handle(r)
    PROVE  /\ used \subseteq used'
           /\ \A s \in Sessions : sessionKernelOverrides'[s] # None \/ local'[s] # None =>
                  s \in used'
<1>. DEFINE h == handler[r]
<1>1. used \subseteq used' /\ \A s \in Sessions : local'[s] # None => s \in used'
  <2>1. CASE h.pc \notin Writers
    BY <2>1, LocalMoves DEF Placed
  <2>2. CASE h.pc \in Writers
    <3>1. h # None /\ h.sid \in Sessions /\ h.sid \in used
      <4>1. At(r, h.pc)
        BY StepAtLabel
      <4>2. h.op # "list"
        BY <2>2, <4>1, OnItsRoute DEF Writers, PostLabels, PatchLabels, DeleteLabels
      <4>. QED BY <4>1, <4>2, Located DEF Placed, Routed
    <3>2. \/ \E s \in Sessions, p \in Paths :
               local' = [local EXCEPT ![s] = p] /\ used' = used \cup {s}
          \/ \E p \in Paths \cup {None} : local' = [local EXCEPT ![h.sid] = p] /\ used' = used
          \/ UNCHANGED <<local, used>>
      <4>1. CASE PostLocal(r) \/ PostDefault(r) \/ PatchCreate(r)
        <5>1. h.meta \in Paths
          BY <4>1, Located DEF PostLocal, PostDefault, PatchCreate
        <5>. QED BY <4>1, <5>1 DEF PostLocal, PostDefault, PatchCreate, CreateInContainer
      <4>2. CASE PatchForward(r)
        <5>1. UNCHANGED used
          BY <4>2 DEF PatchForward
        <5>. QED BY <4>2, <5>1, PatchForwardStep
      <4>3. CASE DeleteContainer(r)
        BY <4>3 DEF DeleteContainer
      <4>. QED BY <2>2, <4>1, <4>2, <4>3, StepAtLabel DEF Writers
    <3>. QED BY <3>1, <3>2 DEF Placed, TypeOK
  <2>. QED BY <2>1, <2>2
<1>2. \A s \in Sessions : sessionKernelOverrides'[s] # None => s \in used'
  <2>1. CASE h.pc \notin Binders
    <3>1. \A s \in Sessions : sessionKernelOverrides'[s] \in {sessionKernelOverrides[s], None}
      BY <2>1, OverridesMove DEF Binders, Clearers, TypeOK
    <3>. QED BY <1>1, <3>1 DEF Placed
  <2>2. CASE h.pc \in Binders
    <3>1. Bind(r) \/ PatchStore(r)
      BY <2>2, StepAtLabel DEF Binders
    <3>2. h # None /\ h.op # "list" /\ h.sid \in used
      BY <3>1, OnItsRoute, Located DEF Bind, PatchStore, BindLabels, PatchLabels, Placed, Routed
    <3>3. \A s \in Sessions \ {h.sid} : sessionKernelOverrides'[s] = sessionKernelOverrides[s]
      BY <3>1 DEF Bind, PatchStore, setSessionKernelOverride, TypeOK
    <3>. QED BY <1>1, <3>2, <3>3 DEF Placed
  <2>. QED BY <2>1, <2>2
<1>. QED BY <1>1, <1>2

LEMMA HandlePlaced ==
    ASSUME ConstantsOK, TypeOK, Placed, NEW r \in Requests, Handle(r)
    PROVE  Placed'
<1>. DEFINE h == handler[r]
            g == handler'[r]
<1>1. ASSUME NEW q \in Requests, handler'[q] # None
      PROVE  Routed(handler'[q], used')
  <2>1. CASE q # r
    <3>1. handler'[q] = handler[q]
      BY <2>1, OthersStay
    <3>. QED BY <1>1, <3>1, GivenOut DEF Placed, Routed
  <2>2. CASE q = r /\ ~Finish(r)
    <3>1. h # None /\ Kin(g, h) /\ OnRoute(h.op, g.pc)
      BY <2>2, RouteKept
    <3>. QED BY <2>2, <3>1, GivenOut DEF Placed, Routed, Kin
  <2>3. CASE q = r /\ Finish(r)
    BY <1>1, <2>3, Moved DEF Finish
  <2>. QED BY <2>1, <2>2, <2>3
<1>. QED BY <1>1, GivenOut DEF Placed

LEMMA StartPlaced ==
    ASSUME ConstantsOK, TypeOK, Placed, NEW r \in Requests, NEW c \in Calls, Start(r, c)
    PROVE  Placed'
<1>1. used \subseteq used' /\ (c.op # "list" => c.sid \in used')
  BY DEF Start
<1>2. ASSUME NEW q \in Requests, handler'[q] # None
      PROVE  Routed(handler'[q], used')
  <2>1. CASE q # r
    <3>1. handler'[q] = handler[q]
      BY <2>1, OthersStay
    <3>. QED BY <1>1, <1>2, <3>1 DEF Placed, Routed
  <2>2. CASE q = r
    BY <1>1, <2>2, StartStep DEF Routed
  <2>. QED BY <2>1, <2>2
<1>. QED BY <1>1, <1>2 DEF Placed, Start

THEOREM HandlersPlaced == Spec => []Placed
<1>1. Init => Placed
  BY DEF Init, Placed
<1>2. TypeOK /\ Placed /\ [Next]_vars => Placed'
  <2>. SUFFICES ASSUME TypeOK, Placed, [Next]_vars PROVE Placed'
    OBVIOUS
  <2>1. ASSUME NEW r \in Requests, Handle(r) PROVE Placed'
    BY <2>1, ConstantsOK, HandlePlaced
  <2>2. ASSUME NEW r \in Requests, NEW c \in Calls, Start(r, c) PROVE Placed'
    BY <2>2, ConstantsOK, StartPlaced
  <2>3. CASE Environment
    BY <2>3 DEF Environment, Launch, Die, EvictKnown, EvictOverride, ProxyRestart,
       ContainerRestart, clearSessionKernelOverride, Placed, TypeOK, Routed
  <2>4. CASE UNCHANGED vars
    BY <2>4 DEF vars, Placed, Routed
  <2>. QED BY <2>1, <2>2, <2>3, <2>4 DEF Next
<1>. QED BY <1>1, <1>2, TypeCorrect, PTL DEF Spec

----------------------------------------------------------------------------
(* Second invariant: what a handler that nothing races with has read, listed  *)
(* and done so far, against the view there is.                                *)

Changes == {"post", "patch", "delete"}

GetAccurate(h) ==
    /\ h.pc = "GetJeg" => h.ov = sessionKernelOverrides[h.sid]
    /\ h.pc = "GetContainer" => sessionKernelOverrides[h.sid] = None
    /\ h.op = "get" /\ h.pc = "reply" /\ h.told => h.out = {View(h.sid)} \ {None}

\* A listing shows a session without an override once it is merged, one with an
\* override once Range is past it.
Pending(h) == IF h.pc \in MergeLabels THEN Sessions
              ELSE IF h.pc = "ListRangeClear" THEN h.todo \cup {h.cur}
              ELSE h.todo

Shown(h, s) == IF sessionKernelOverrides[s] = None
               THEN s \in Here /\ LocalEntry(s) \notin h.cont
               ELSE s \notin Pending(h)

\* Merged sessions keep only overrides that are alive, so Range drops none of theirs.
ListsSoFar(h) ==
    /\ \A e \in h.cont : e.sid \in Here /\ e = LocalEntry(e.sid)
    /\ h.pc \in RangeLabels => h.cont = {}
    /\ \A s \in Sessions : Shown(h, s) => View(s) \in h.out
    /\ \A e \in h.out : e.sid \in Sessions /\ Shown(h, e.sid) /\ e = View(e.sid)
    /\ \A s \in Here : sessionKernelOverrides[s] # None /\ LocalEntry(s) \notin h.cont =>
           sessionKernelOverrides[s].kid \in h.snap
    /\ h.pc = "ListMergeClear" => h.cur \in Here /\ LocalEntry(h.cur) \in h.cont
    /\ h.pc = "ListRangeClear" => h.cur \in Sessions \ Here

ListAccurate(h) ==
    /\ h.pc \in {"ListJeg", "ListContainer"} => h.out = {}
    /\ h.pc \in MergeLabels \cup RangeLabels /\ h.told => ListsSoFar(h)
    /\ h.op = "list" /\ h.pc = "reply" /\ h.told => h.out = {View(s) : s \in Sessions} \ {None}

\* What a change may have done to the view when it is at a label.
Touched(h) == IF h.op = "post" \/ h.pc \in LoadLabels \cup {"DeleteClear"} THEN {} ELSE {h.sid}

Faithful(h) ==
    /\ \A e \in h.out : View(e.sid) = e
    /\ h.op = "delete" => View(h.sid) = None
    /\ \A s \in Sessions \ ({e.sid : e \in h.out} \cup (IF h.op = "post" THEN {} ELSE {h.sid})) :
           View(s) = h.was[s]

ChangeAccurate(h) ==
    h.op \in Changes /\ h.told =>
        /\ h.pc = "reply" => Faithful(h)
        /\ h.pc # "reply" => \A s \in Sessions \ Touched(h) : View(s) = h.was[s]
        /\ h.pc = "PatchFetch" => sessionKernelOverrides[h.sid] = None
        /\ h.pc = "PatchRelease" => h.sid \in Here /\ h.out = {LocalEntry(h.sid)}
        /\ h.pc = "DeleteContainer" => sessionKernelOverrides[h.sid] = None

\* A PATCH that omits the path has picked up the one there was.
PathKept(h) ==
    h.op = "patch" /\ h.told /\ h.path = None /\ h.was[h.sid] # None =>
        /\ h.pc \notin LoadLabels \cup {"reply"} => h.meta = h.was[h.sid].path
        /\ h.pc = "reply" => \A e \in h.out : e.kid # None => e.path = h.was[h.sid].path

Accurate ==
    \A r \in Requests : handler[r] # None =>
        /\ GetAccurate(handler[r]) /\ ListAccurate(handler[r])
        /\ ChangeAccurate(handler[r]) /\ PathKept(handler[r])

LEMMA ViewType ==
    ASSUME ConstantsOK, NoneIsNoRecord, TypeOK, NEW s \in Sessions
    PROVE  /\ sessionKernelOverrides[s] # None =>
                 /\ View(s) = buildSessionCompatResponse(s, sessionKernelOverrides[s])
                 /\ View(s) \in Entry /\ View(s) # None /\ View(s).sid = s
           /\ sessionKernelOverrides[s] = None /\ local[s] # None =>
                 /\ View(s) = LocalEntry(s) /\ View(s) \in Entry /\ View(s) # None
                 /\ View(s).sid = s
           /\ sessionKernelOverrides[s] = None /\ local[s] = None => View(s) = None
<1>1. sessionKernelOverrides[s] \in Override \cup {None}
  BY DEF TypeOK
<1>2. ASSUME sessionKernelOverrides[s] # None
      PROVE  /\ View(s) = buildSessionCompatResponse(s, sessionKernelOverrides[s])
             /\ View(s) \in Entry /\ View(s).sid = s
  BY <1>1, <1>2, EntryTypes DEF View, buildSessionCompatResponse
<1>3. ASSUME sessionKernelOverrides[s] = None, local[s] # None
      PROVE  View(s) = LocalEntry(s) /\ View(s) \in Entry /\ View(s).sid = s
  BY <1>3, EntryTypes DEF View, LocalEntry
<1>4. \A e \in Entry : e # None
  BY DEF NoneIsNoRecord
<1>5. sessionKernelOverrides[s] = None /\ local[s] = None => View(s) = None
  BY DEF View
<1>. QED BY <1>2, <1>3, <1>4, <1>5

\* A session neither of whose halves changes looks the same.
LEMMA ViewStays ==
    ASSUME NEW s, sessionKernelOverrides'[s] = sessionKernelOverrides[s], local'[s] = local[s]
    PROVE  View(s)' = View(s) /\ LocalEntry(s)' = LocalEntry(s)
BY DEF View, LocalEntry, buildSessionCompatResponse

LEMMA GetAccuracy ==
    ASSUME ConstantsOK, NoneIsNoRecord, TypeOK, Placed, Accurate, NEW r \in Requests,
           GetLoad(r) \/ GetJeg(r) \/ GetClear(r) \/ GetContainer(r)
    PROVE  GetAccurate(handler[r])'
<1>. DEFINE h == handler[r]
            g == handler'[r]
<1>1. h # None /\ h.sid \in Sessions /\ GetAccurate(h) /\ (h.told => h.micro)
  BY Located DEF GetLoad, GetJeg, GetClear, GetContainer, Accurate, Placed, Routed
<1>2. CASE GetLoad(r)
  <2>1. UNCHANGED sessionKernelOverrides
    BY <1>2 DEF GetLoad
  <2>. QED BY <1>2, <2>1, GetLoadStep DEF GetAccurate, Kin
<1>3. CASE GetJeg(r)
  <2>1. UNCHANGED <<sessionKernelOverrides, local>> /\ h.pc = "GetJeg"
    BY <1>3 DEF GetJeg, At
  <2>2. h.ov = sessionKernelOverrides[h.sid] /\ h.ov # None
    BY <1>1, <1>3, <2>1, AtType DEF GetJeg, GetAccurate, At, Handler, NeedsOverride
  <2>3. {View(h.sid)} \ {None} = {buildSessionCompatResponse(h.sid, h.ov)}
    BY <1>1, <2>2, ViewType
  <2>4. \A s \in Sessions : View(s)' = View(s)
    BY <2>1, ViewStays
  <2>5. Kin(g, h) /\ \/ g.pc = "reply" /\ g.out = {buildSessionCompatResponse(h.sid, h.ov)}
                     \/ g.pc = "GetClear"
    BY <1>3, GetJegStep
  <2>. QED BY <1>1, <2>3, <2>4, <2>5 DEF GetAccurate, Kin
<1>4. CASE GetClear(r)
  <2>1. sessionKernelOverrides'[h.sid] = None
    BY <1>1, <1>4 DEF GetClear, clearSessionKernelOverride, TypeOK
  <2>. QED BY <1>4, <2>1, GetClearStep DEF GetAccurate, Kin
<1>5. CASE GetContainer(r)
  <2>1. UNCHANGED <<sessionKernelOverrides, local>> /\ h.pc = "GetContainer"
    BY <1>5 DEF GetContainer, At
  <2>2. sessionKernelOverrides[h.sid] = None
    BY <1>1, <2>1 DEF GetAccurate
  <2>3. \A s \in Sessions : View(s)' = View(s)
    BY <2>1, ViewStays
  <2>4. /\ local[h.sid] # None => {View(h.sid)} \ {None} = {LocalEntry(h.sid)}
        /\ local[h.sid] = None => {View(h.sid)} \ {None} = {}
    BY <1>1, <2>2, ViewType
  <2>5. /\ Kin(g, h) /\ g.pc = "reply"
        /\ g.told => g.out = {View(h.sid)} \ {None}
    BY <1>1, <1>5, <2>4, GetContainerStep DEF Kin
  <2>. QED BY <1>1, <2>3, <2>5 DEF GetAccurate, Kin
<1>. QED BY <1>2, <1>3, <1>4, <1>5

LEMMA ListAccuracy ==
    ASSUME ConstantsOK, NoneIsNoRecord, TypeOK, Placed, Accurate, NEW r \in Requests,
           \/ ListJeg(r) \/ ListContainer(r) \/ ListMerge(r) \/ ListMergeClear(r)
           \/ ListRange(r) \/ ListRangeClear(r)
    PROVE  ListAccurate(handler[r])'
<1>. DEFINE h == handler[r]
            g == handler'[r]
<1>1. h # None /\ ListAccurate(h) /\ (h.told => h.micro) /\ h.out \in SUBSET Entry
  BY Located DEF ListJeg, ListContainer, ListMerge, ListMergeClear, ListRange, ListRangeClear,
                 Accurate, Placed, Routed
<1>2. UNCHANGED local
  BY DEF ListJeg, ListContainer, ListMerge, ListMergeClear, ListRange, ListRangeClear
<1>3. Here' = Here /\ \A s : LocalEntry(s)' = LocalEntry(s)
  BY <1>2 DEF Here, LocalEntry
<1>4. CASE ListJeg(r)
  <2>1. h.pc = "ListJeg"
    BY <1>4 DEF ListJeg, At
  <2>2. g.pc = "ListContainer" /\ g.out = {}
    BY <1>1, <1>4, <2>1, ListJegStep DEF ListAccurate
  <2>. QED BY <2>2 DEF ListAccurate, MergeLabels, RangeLabels
<1>5. CASE ListContainer(r)
  <2>1. UNCHANGED sessionKernelOverrides /\ h.pc = "ListContainer"
    BY <1>5 DEF ListContainer, At
  <2>2. /\ g.out = {} /\ g.pc \in {"ListMerge", "ListRange"}
        /\ g.pc = "ListRange" <=> g.cont = {}
        /\ g.cont = {} => g.todo = Sessions
        /\ g.told => g.cont = LocalEntries
    BY <1>1, <1>5, <2>1, ListContainerStep DEF ListAccurate, Kin
  <2>3. ASSUME g.told PROVE ListsSoFar(handler[r])'
    <3>1. \A e \in g.cont : e.sid \in Here /\ e = LocalEntry(e.sid)
      BY <2>2, <2>3 DEF LocalEntries, LocalEntry
    <3>2. \A s \in Here : LocalEntry(s) \in g.cont
      BY <2>2, <2>3 DEF LocalEntries
    <3>3. \A s \in Sessions : ~Shown(handler[r], s)'
      BY <1>3, <2>2, <3>2 DEF Shown, Pending, MergeLabels
    <3>. QED BY <1>3, <2>2, <3>1, <3>2, <3>3 DEF ListsSoFar, RangeLabels
  <2>. QED BY <2>2, <2>3 DEF ListAccurate
<1>. USE DEF MergeLabels, RangeLabels
<1>6. CASE ListMerge(r)
  <2>1. UNCHANGED sessionKernelOverrides /\ h.pc = "ListMerge"
    BY <1>6 DEF ListMerge, At
  <2>2. PICK e \in h.cont :
          LET ov == sessionKernelOverrides[e.sid]
          IN  \/ /\ ov = None \/ ov.kid \in h.snap
                 /\ g.cont = h.cont \ {e}
                 /\ g.out = IF ov = None THEN h.out \cup {e} ELSE h.out
                 /\ g.pc = IF g.cont = {} THEN "ListRange" ELSE "ListMerge"
                 /\ g.cont = {} => g.todo = Sessions
              \/ /\ ov # None /\ ov.kid \notin h.snap
                 /\ g.pc = "ListMergeClear" /\ g.cur = e.sid
                 /\ g.cont = h.cont /\ g.out = h.out
    BY <1>6, ListMergeStep
  <2>3. g.told = h.told /\ g.snap = h.snap
    BY <1>6, ListMergeStep
  <2>4. ASSUME g.told PROVE ListsSoFar(handler[r])'
    <3>1. ListsSoFar(h) /\ e.sid \in Here /\ e = LocalEntry(e.sid)
      BY <1>1, <2>1, <2>3, <2>4 DEF ListAccurate, ListsSoFar
    <3>2. \A s \in Sessions : View(s)' = View(s)
      BY <1>2, <2>1, ViewStays
    <3>3. ASSUME NEW s \in Sessions
          PROVE  Shown(handler[r], s)' <=>
                    Shown(h, s) \/ (s = e.sid /\ sessionKernelOverrides[s] = None)
      <4>1. g.pc = "ListRange" => g.todo = Sessions
        BY <2>2
      <4>2. \A t \in Here : LocalEntry(t) = e => t = e.sid
        BY <3>1 DEF LocalEntry
      <4>. QED BY <1>3, <2>1, <2>2, <3>1, <4>1, <4>2 DEF Shown, Pending
    <3>4. sessionKernelOverrides[e.sid] = None => View(e.sid) = e
      BY <3>1 DEF View, Here
    <3>5. e.sid \in Sessions
      BY <3>1 DEF Here
    <3>6. \A t \in Here : LocalEntry(t) = e => t = e.sid
      BY <3>1 DEF LocalEntry
    <3>7. \A s \in Sessions : Shown(handler[r], s)' => View(s)' \in g.out
      BY <2>2, <3>1, <3>2, <3>3, <3>4 DEF ListsSoFar
    <3>8. \A x \in g.out : x.sid \in Sessions /\ Shown(handler[r], x.sid)' /\ x = View(x.sid)
      BY <2>2, <3>1, <3>3, <3>4, <3>5 DEF ListsSoFar
    <3>. QED BY <1>3, <2>1, <2>2, <2>3, <3>1, <3>2, <3>6, <3>7, <3>8 DEF ListsSoFar
  <2>5. g.pc \in {"ListMerge", "ListRange", "ListMergeClear"}
    BY <2>2
  <2>. QED BY <2>4, <2>5 DEF ListAccurate
<1>7. CASE ListMergeClear(r)
  <2>. DEFINE done == {e \in h.cont : e.sid = h.cur}
  <2>1. h.pc = "ListMergeClear"
    BY <1>7 DEF ListMergeClear, At
  <2>2. /\ g.told = h.told /\ g.snap = h.snap
        /\ g.cont = h.cont \ done /\ g.out = h.out \cup done
        /\ g.pc = IF g.cont = {} THEN "ListRange" ELSE "ListMerge"
        /\ g.cont = {} => g.todo = Sessions
    BY <1>7, ListMergeClearStep
  <2>3. ASSUME g.told PROVE ListsSoFar(handler[r])'
    <3>1. ListsSoFar(h) /\ h.cur \in Here /\ LocalEntry(h.cur) \in h.cont /\ h.cur \in Sessions
      BY <1>1, <2>1, <2>2, <2>3 DEF ListAccurate, ListsSoFar, Here
    <3>2. done = {LocalEntry(h.cur)}
      BY <3>1 DEF ListsSoFar, LocalEntry
    <3>3. sessionKernelOverrides' = [sessionKernelOverrides EXCEPT ![h.cur] = None]
      BY <1>7 DEF ListMergeClear, clearSessionKernelOverride
    <3>4. /\ sessionKernelOverrides'[h.cur] = None
          /\ \A s \in Sessions \ {h.cur} : sessionKernelOverrides'[s] = sessionKernelOverrides[s]
      BY <3>1, <3>3 DEF TypeOK
    <3>5. \A s \in Sessions \ {h.cur} : View(s)' = View(s)
      BY <1>2, <3>4, ViewStays
    <3>6. \A s \in Sessions : s = h.cur => View(s)' = LocalEntry(s)
      BY <1>2, <3>1, <3>4 DEF View, LocalEntry, Here
    <3>7. \A s, t \in Here : LocalEntry(s) = LocalEntry(t) => s = t
      BY DEF LocalEntry
    <3>. HIDE DEF done
    <3>8. ASSUME NEW s \in Sessions
          PROVE  Shown(handler[r], s)' <=> Shown(h, s) \/ s = h.cur
      <4>1. g.pc = "ListRange" => g.todo = Sessions
        BY <2>2
      <4>2. CASE s = h.cur
        BY <1>3, <2>2, <3>1, <3>2, <3>4, <4>2 DEF Shown
      <4>3. CASE s # h.cur
        <5>1. /\ s \in Here => (LocalEntry(s) \in g.cont <=> LocalEntry(s) \in h.cont)
          BY <2>2, <3>1, <3>2, <3>7, <4>3
        <5>. QED BY <1>3, <2>1, <2>2, <3>4, <4>1, <4>3, <5>1 DEF Shown, Pending
      <4>. QED BY <4>2, <4>3
    <3>9. ~Shown(h, h.cur)
      BY <2>1, <3>1 DEF Shown, Pending
    <3>10. \A s \in Sessions : Shown(handler[r], s)' => View(s)' \in g.out
      BY <2>2, <3>1, <3>2, <3>5, <3>6, <3>8 DEF ListsSoFar
    <3>11. \A e \in g.out : e.sid \in Sessions /\ Shown(handler[r], e.sid)' /\ e = View(e.sid)'
      <4>1. ASSUME NEW e \in h.out
            PROVE  e.sid \in Sessions /\ Shown(handler[r], e.sid)' /\ e = View(e.sid)'
        <5>1. e.sid \in Sessions /\ Shown(h, e.sid) /\ e = View(e.sid) /\ e.sid # h.cur
          BY <3>1, <3>9 DEF ListsSoFar
        <5>. QED BY <3>5, <3>8, <5>1
      <4>2. LocalEntry(h.cur).sid = h.cur
        BY DEF LocalEntry
      <4>. QED BY <2>2, <3>1, <3>2, <3>6, <3>8, <4>1, <4>2
    <3>12. \A e \in g.cont : e.sid \in Here /\ e = LocalEntry(e.sid)
      BY <2>2, <3>1 DEF ListsSoFar
    <3>13. \A s \in Here : sessionKernelOverrides'[s] # None /\ LocalEntry(s) \notin g.cont =>
               sessionKernelOverrides'[s].kid \in g.snap
      <4>1. \A s \in Here : s \in Sessions
        BY DEF Here
      <4>. QED BY <2>2, <3>1, <3>2, <3>4, <3>7, <4>1 DEF ListsSoFar
    <3>. QED BY <1>3, <2>2, <3>10, <3>11, <3>12, <3>13 DEF ListsSoFar
  <2>4. g.pc \in {"ListMerge", "ListRange"}
    BY <2>2
  <2>. QED BY <2>3, <2>4 DEF ListAccurate
<1>8. CASE ListRange(r)
  <2>1. UNCHANGED sessionKernelOverrides /\ h.pc = "ListRange" /\ h # None
    BY <1>8 DEF ListRange, At
  <2>2. Kin(g, h) /\ g.told = h.told /\ g.snap = h.snap /\ h.op \in Ops
    BY <1>8, ListRangeStep, Located DEF ListRange, Locals
  <2>3. \A s \in Sessions : View(s)' = View(s)
    BY <1>2, <2>1, ViewStays
  <2>4. h.told => ListsSoFar(h) /\ h.cont = {}
    BY <1>1, <2>1 DEF ListAccurate, ListsSoFar
  <2>5. CASE h.todo = {} /\ g.pc = "reply" /\ g.out = h.out
    <3>1. ASSUME g.told PROVE g.out = {View(s) : s \in Sessions} \ {None}
      <4>1. \A s \in Sessions : Shown(h, s) <=> View(s) # None
        BY <2>1, <2>2, <2>4, <2>5, <3>1, ViewType DEF Shown, Pending, Here
      <4>. QED BY <2>2, <2>4, <2>5, <3>1, <4>1 DEF ListsSoFar
    <3>2. g.told => g.out = {View(s) : s \in Sessions}' \ {None}
      BY <2>3, <3>1
    <3>. QED BY <2>5, <3>2 DEF ListAccurate
  <2>6. ASSUME NEW s \in h.todo,
               LET ov == sessionKernelOverrides[s]
               IN  /\ g.todo = h.todo \ {s} /\ g.cont = h.cont
                   /\ \/ ov = None /\ g.pc = "ListRange" /\ g.out = h.out
                      \/ /\ ov # None /\ ov.kid \in h.snap /\ g.pc = "ListRange"
                         /\ g.out = h.out \cup {buildSessionCompatResponse(s, ov)}
                      \/ /\ ov # None /\ ov.kid \notin h.snap
                         /\ g.pc = "ListRangeClear" /\ g.cur = s /\ g.out = h.out
        PROVE  ListAccurate(handler[r])'
    <3>. DEFINE ov == sessionKernelOverrides[s]
    <3>1. s \in Sessions
      BY <1>8, Located DEF ListRange
    <3>2. ASSUME g.told PROVE ListsSoFar(handler[r])'
      <4>1. ListsSoFar(h) /\ h.cont = {} /\ g.cont = {}
        BY <2>2, <2>4, <2>6, <3>2
      <4>2. ASSUME NEW t \in Sessions
            PROVE  Shown(handler[r], t)' <=>
                      Shown(h, t) \/ (t = s /\ ov # None /\ ov.kid \in h.snap)
        BY <1>3, <2>1, <2>6, <4>1 DEF Shown, Pending
      <4>3. ov # None => View(s) = buildSessionCompatResponse(s, ov) /\ View(s).sid = s
        BY <3>1, ViewType
      <4>4. \A t \in Sessions : Shown(handler[r], t)' => View(t)' \in g.out
        BY <2>3, <2>6, <4>1, <4>2, <4>3 DEF ListsSoFar
      <4>5. \A e \in g.out : e.sid \in Sessions /\ Shown(handler[r], e.sid)' /\ e = View(e.sid)
        BY <2>6, <3>1, <4>1, <4>2, <4>3 DEF ListsSoFar
      <4>6. s \in Here /\ ov # None => ov.kid \in h.snap
        BY <4>1 DEF ListsSoFar
      <4>. QED BY <1>3, <2>1, <2>2, <2>3, <2>6, <3>1, <4>1, <4>4, <4>5, <4>6 DEF ListsSoFar
    <3>3. g.pc \in {"ListRange", "ListRangeClear"}
      BY <2>6
    <3>. QED BY <3>2, <3>3 DEF ListAccurate
  <2>. QED BY <1>8, <2>5, <2>6, ListRangeStep
<1>9. CASE ListRangeClear(r)
  <2>1. h.pc = "ListRangeClear"
    BY <1>9 DEF ListRangeClear, At
  <2>2. /\ g.pc = "ListRange" /\ g.told = h.told /\ g.snap = h.snap
        /\ g.out = h.out /\ g.cont = h.cont /\ g.todo = h.todo
    BY <1>9, ListRangeClearStep
  <2>3. ASSUME g.told PROVE ListsSoFar(handler[r])'
    <3>1. ListsSoFar(h) /\ h.cont = {} /\ h.cur \in Sessions \ Here
      BY <1>1, <2>1, <2>2, <2>3 DEF ListAccurate, ListsSoFar
    <3>2. sessionKernelOverrides' = [sessionKernelOverrides EXCEPT ![h.cur] = None]
      BY <1>9 DEF ListRangeClear, clearSessionKernelOverride
    <3>3. /\ sessionKernelOverrides'[h.cur] = None
          /\ \A s \in Sessions \ {h.cur} : sessionKernelOverrides'[s] = sessionKernelOverrides[s]
      BY <3>1, <3>2 DEF TypeOK
    <3>4. \A s \in Sessions \ {h.cur} : View(s)' = View(s)
      BY <1>2, <3>3, ViewStays
    <3>5. \A s \in Sessions : Shown(handler[r], s)' <=> Shown(h, s)
      BY <1>3, <2>1, <2>2, <3>1, <3>3 DEF Shown, Pending
    <3>6. ~Shown(h, h.cur)
      BY <2>1, <3>1 DEF Shown, Pending
    <3>7. \A s \in Sessions : Shown(handler[r], s)' => View(s)' \in g.out
      BY <2>2, <3>1, <3>4, <3>5, <3>6 DEF ListsSoFar
    <3>8. \A e \in g.out : e.sid \in Sessions /\ Shown(handler[r], e.sid)' /\ e = View(e.sid)'
      <4>1. ASSUME NEW e \in h.out
            PROVE  e.sid \in Sessions /\ Shown(handler[r], e.sid)' /\ e = View(e.sid)'
        <5>1. e.sid \in Sessions /\ Shown(h, e.sid) /\ e = View(e.sid) /\ e.sid # h.cur
          BY <3>1, <3>6 DEF ListsSoFar
        <5>. QED BY <3>4, <3>5, <5>1
      <4>. QED BY <2>2, <4>1
    <3>9. \A s \in Here : sessionKernelOverrides'[s] # None => sessionKernelOverrides'[s].kid \in g.snap
      <4>1. \A s \in Here : s \in Sessions \ {h.cur}
        BY <3>1 DEF Here
      <4>. QED BY <2>2, <3>1, <3>3, <4>1 DEF ListsSoFar
    <3>. QED BY <1>3, <2>2, <3>1, <3>7, <3>8, <3>9 DEF ListsSoFar
  <2>. QED BY <2>2, <2>3 DEF ListAccurate
<1>. QED BY <1>4, <1>5, <1>6, <1>7, <1>8, <1>9

\* The steps of a change, by what they do to the view of the session asked for.
ChangeSteps(r) ==
    \/ PostSpec(r) \/ PostLocal(r) \/ PostDefault(r)
    \/ findJEGKernelIDByName(r) \/ isKnownJEGKernelID(r) \/ jegHasKernel(r)
    \/ rememberJEGKernelID(r) \/ findJEGKernelNameByID(r) \/ Bind(r)
    \/ PatchLoad(r) \/ fetchContainerSessionMetadata(r) \/ PatchTouch(r)
    \/ PatchStore(r) \/ PatchForward(r) \/ PatchRelease(r) \/ PatchSpec(r)
    \/ PatchDrop(r) \/ PatchCreate(r)
    \/ DeleteClear(r) \/ DeleteContainer(r)

LEMMA Changing ==
    ASSUME ConstantsOK, TypeOK, Placed, NEW r \in Requests, ChangeSteps(r)
    PROVE  LET h == handler[r]
           IN  /\ Handle(r) /\ ~Finish(r) /\ h # None /\ h \in Locals /\ h.sid \in Sessions
               /\ h.op \in Changes /\ (h.told => h.micro) /\ h.pc # "reply"
               /\ Kin(handler'[r], h) /\ OnRoute(h.op, handler'[r].pc)
<1>1. Handle(r)
  BY DEF ChangeSteps, Handle
<1>2. PICK l \in PostLabels \cup BindLabels \cup PatchLabels \cup DeleteLabels : At(r, l)
  BY DEF ChangeSteps, PostSpec, PostLocal, PostDefault,
     findJEGKernelIDByName, isKnownJEGKernelID, jegHasKernel, rememberJEGKernelID,
     findJEGKernelNameByID, Bind, PatchLoad, fetchContainerSessionMetadata, PatchTouch,
     PatchStore, PatchForward, PatchRelease, PatchSpec, PatchDrop, PatchCreate, DeleteClear,
     DeleteContainer, PostLabels, BindLabels, PatchLabels, LoadLabels, DeleteLabels
<1>3. l # "reply"
  BY DEF PostLabels, BindLabels, PatchLabels, LoadLabels, DeleteLabels
<1>4. ~Finish(r)
  BY <1>2, <1>3 DEF Finish, At
<1>. QED BY <1>1, <1>2, <1>3, <1>4, Located, OnItsRoute, RouteKept DEF Changes, Placed, Routed

\* A change under way that only looks.
LEMMA LooksOnly ==
    ASSUME ConstantsOK, TypeOK, Placed, Accurate, NEW r \in Requests, ChangeSteps(r),
           UNCHANGED <<sessionKernelOverrides, local>>,
           handler'[r].pc \notin {"reply", "PatchFetch", "PatchRelease", "DeleteContainer",
                                  "PatchLoad", "DeleteClear"}
    PROVE  ChangeAccurate(handler[r])'
<1>. DEFINE h == handler[r]
            g == handler'[r]
<1>1. /\ h # None /\ h.pc # "reply" /\ h.sid \in Sessions /\ Kin(g, h) /\ ChangeAccurate(h)
      /\ h.op \in Changes
  BY Changing DEF Accurate
<1>2. \A s \in Sessions : View(s)' = View(s)
  BY ViewStays
<1>3. Touched(h) \subseteq Touched(handler[r])'
  BY <1>1 DEF Touched, Kin, LoadLabels
<1>. QED BY <1>1, <1>2, <1>3 DEF ChangeAccurate, Kin

\* A change that fails, with no effect that the client does not know of.
LEMMA FailsOnly ==
    ASSUME ConstantsOK, TypeOK, Placed, Accurate, NEW r \in Requests, ChangeSteps(r),
           UNCHANGED <<sessionKernelOverrides, local>>,
           handler[r].op # "delete", handler'[r].pc = "reply", handler'[r].out = {}
    PROVE  ChangeAccurate(handler[r])'
<1>. DEFINE h == handler[r]
            g == handler'[r]
<1>1. /\ h # None /\ h.pc # "reply" /\ h.sid \in Sessions /\ Kin(g, h) /\ ChangeAccurate(h)
      /\ h.op \in Changes
  BY Changing DEF Accurate
<1>2. \A s \in Sessions : View(s)' = View(s)
  BY ViewStays
<1>3. Touched(h) \subseteq (IF h.op = "post" THEN {} ELSE {h.sid})
  BY DEF Touched
<1>4. g.told => Faithful(handler[r])'
  BY <1>1, <1>2, <1>3 DEF ChangeAccurate, Faithful, Kin
<1>. QED BY <1>1, <1>4 DEF ChangeAccurate, Kin

\* A change answered with the session it made of s, and of s only.
LEMMA AnswersOnly ==
    ASSUME ConstantsOK, TypeOK, Placed, Accurate, NEW r \in Requests, ChangeSteps(r),
           NEW s \in Sessions, NEW e, e.sid = s, View(s)' = e,
           \A t \in Sessions \ {s} : View(t)' = View(t),
           handler[r].op # "delete", handler'[r].pc = "reply", handler'[r].out = {e}
    PROVE  ChangeAccurate(handler[r])'
<1>. DEFINE h == handler[r]
            g == handler'[r]
<1>1. /\ h # None /\ h.pc # "reply" /\ h.sid \in Sessions /\ Kin(g, h) /\ ChangeAccurate(h)
      /\ h.op \in Changes
  BY Changing DEF Accurate
<1>3. Touched(h) \subseteq (IF h.op = "post" THEN {} ELSE {h.sid})
  BY DEF Touched
<1>4. g.told => Faithful(handler[r])'
  BY <1>1, <1>3 DEF ChangeAccurate, Faithful, Kin
<1>. QED BY <1>1, <1>4 DEF ChangeAccurate, Kin

\* A session the container makes has no override: its id is new.
LEMMA MadeView ==
    ASSUME ConstantsOK, TypeOK, Placed, NEW s \in Sessions \ used, NEW p \in Paths,
           UNCHANGED sessionKernelOverrides, local' = [local EXCEPT ![s] = p]
    PROVE  /\ View(s)' = [sid |-> s, kid |-> None, path |-> p]
           /\ \A t \in Sessions \ {s} : View(t)' = View(t)
<1>1. sessionKernelOverrides'[s] = None /\ local'[s] = p /\ p # None
  BY DEF Placed, TypeOK, ConstantsOK
<1>2. \A t \in Sessions \ {s} : local'[t] = local[t]
  BY DEF TypeOK
<1>. QED BY <1>1, <1>2, ViewStays DEF View, LocalEntry

LEMMA BindingView ==
    ASSUME ConstantsOK, NoneIsNoRecord, TypeOK, NEW s \in Sessions, NEW k \in Kernels,
           NEW p \in Paths, UNCHANGED local,
           sessionKernelOverrides' = [sessionKernelOverrides EXCEPT ![s] = [kid |-> k, path |-> p]]
    PROVE  /\ View(s)' = [sid |-> s, kid |-> k, path |-> p]
           /\ \A t \in Sessions \ {s} : View(t)' = View(t)
<1>. DEFINE ov == [kid |-> k, path |-> p]
<1>1. ov \in Override /\ ov # None
  BY DEF Override, NoneIsNoRecord
<1>2. ov.kid = k /\ ov.path = p
  OBVIOUS
<1>. HIDE DEF ov
<1>3. sessionKernelOverrides' = [sessionKernelOverrides EXCEPT ![s] = ov]
  BY DEF ov
<1>4. sessionKernelOverrides'[s] = ov
  BY <1>3 DEF TypeOK
<1>5. \A t \in Sessions \ {s} : sessionKernelOverrides'[t] = sessionKernelOverrides[t]
  BY <1>3 DEF TypeOK
<1>. QED BY <1>1, <1>2, <1>4, <1>5, ViewStays DEF View, buildSessionCompatResponse

LEMMA ChangeAccuracy ==
    ASSUME ConstantsOK, NoneIsNoRecord, TypeOK, Placed, Accurate, NEW r \in Requests,
           ChangeSteps(r)
    PROVE  ChangeAccurate(handler[r])'
<1>. DEFINE h == handler[r]
            g == handler'[r]
<1>1. /\ h # None /\ h \in Locals /\ h.sid \in Sessions /\ h.op \in Changes /\ h.pc # "reply"
      /\ (h.told => h.micro) /\ Kin(g, h) /\ OnRoute(h.op, g.pc) /\ ChangeAccurate(h)
      /\ Handle(r)
  BY Changing DEF Accurate
<1>2. \A l \in ResolveLabels \cup {"PostLocal", "PatchStore", "PatchSpec", "Own", "Remember",
                                   "Name", "Bind"} :
         l \notin {"reply", "PatchFetch", "PatchRelease", "DeleteContainer", "PatchLoad",
                   "DeleteClear"}
  BY DEF ResolveLabels
<1>4. CASE PostSpec(r)
  <2>1. h.op = "post" /\ UNCHANGED <<sessionKernelOverrides, local>>
    BY <1>4, OnItsRoute DEF PostSpec, PostLabels
  <2>. QED BY <1>2, <1>4, <2>1, PostSpecStep, LooksOnly
<1>5. CASE PostLocal(r) \/ PostDefault(r)
  <2>1. h.op = "post" /\ UNCHANGED sessionKernelOverrides /\ h.meta \in Paths
    BY <1>5, OnItsRoute, Located DEF PostLocal, PostDefault, PostLabels
  <2>2. CASE UNCHANGED local /\ (g.pc = "reply" => g.out = {}) /\ g.pc \in ResolveLabels \cup {"reply"}
    BY <1>2, <2>1, <2>2, LooksOnly, FailsOnly
  <2>3. ASSUME NEW s \in Sessions \ used, local' = [local EXCEPT ![s] = h.meta], g.told,
               g.pc = "reply", g.out = {[sid |-> s, kid |-> None, path |-> h.meta]}
        PROVE  ChangeAccurate(handler[r])'
    <3>. DEFINE e == [sid |-> s, kid |-> None, path |-> h.meta]
    <3>1. View(s)' = e /\ \A t \in Sessions \ {s} : View(t)' = View(t)
      BY <2>1, <2>3, MadeView
    <3>2. e.sid = s
      OBVIOUS
    <3>. HIDE DEF e
    <3>. QED BY <2>1, <2>3, <3>1, <3>2, AnswersOnly DEF e
  <2>4. ~g.told => ChangeAccurate(handler[r])'
    BY DEF ChangeAccurate
  <2>. QED BY <1>5, <2>1, <2>2, <2>3, <2>4, PostCreateStep
<1>6. CASE \/ findJEGKernelIDByName(r) \/ isKnownJEGKernelID(r) \/ jegHasKernel(r)
           \/ rememberJEGKernelID(r) \/ findJEGKernelNameByID(r)
  <2>1. h.op \in {"post", "patch"} /\ UNCHANGED <<sessionKernelOverrides, local>>
    BY <1>6, OnItsRoute DEF findJEGKernelIDByName, isKnownJEGKernelID, jegHasKernel,
       rememberJEGKernelID, findJEGKernelNameByID, BindLabels
  <2>. QED BY <1>2, <1>6, <2>1, FindStep, LooksOnly
<1>7. CASE Bind(r)
  <2>1. h.op \in {"post", "patch"} /\ h.meta \in Paths /\ UNCHANGED local
    BY <1>7, OnItsRoute, Located DEF Bind, BindLabels
  <2>. DEFINE e == [sid |-> h.sid, kid |-> h.kid, path |-> h.meta]
  <2>2. g.pc = "reply" /\ h.kid \in Kernels /\ g.out = {e}
    BY <1>7, BindStep
  <2>3. sessionKernelOverrides' = [sessionKernelOverrides EXCEPT
            ![h.sid] = [kid |-> h.kid, path |-> h.meta]]
    BY <1>7 DEF Bind, setSessionKernelOverride
  <2>4. \A s \in Sessions : s = h.sid =>
            View(s)' = e /\ \A t \in Sessions \ {s} : View(t)' = View(t)
    BY <1>1, <2>1, <2>2, <2>3, BindingView
  <2>5. e.sid = h.sid
    OBVIOUS
  <2>. HIDE DEF e
  <2>. QED BY <1>1, <2>1, <2>2, <2>4, <2>5, AnswersOnly
<1>8. CASE PatchLoad(r)
  <2>1. h.op = "patch" /\ UNCHANGED <<sessionKernelOverrides, local>> /\ h.pc = "PatchLoad"
    BY <1>8, OnItsRoute DEF PatchLoad, PatchLabels, LoadLabels, At
  <2>2. CASE sessionKernelOverrides[h.sid] = None /\ g.pc = "PatchFetch"
    <3>1. \A s \in Sessions : View(s)' = View(s)
      BY <2>1, ViewStays
    <3>2. g.told => \A s \in Sessions : View(s)' = g.was[s]
      BY <1>1, <2>1, <3>1 DEF ChangeAccurate, Touched, LoadLabels, Kin
    <3>. QED BY <1>1, <2>1, <2>2, <3>2 DEF ChangeAccurate, Kin
  <2>3. CASE g.pc \in ResolveLabels
    BY <1>2, <2>1, <2>3, LooksOnly
  <2>. QED BY <1>8, <2>1, <2>2, <2>3, PatchLoadStep
<1>9. CASE fetchContainerSessionMetadata(r)
  <2>1. h.op = "patch" /\ UNCHANGED <<sessionKernelOverrides, local>>
    BY <1>9, OnItsRoute DEF fetchContainerSessionMetadata, PatchLabels, LoadLabels
  <2>. QED BY <1>2, <1>9, <2>1, PatchFetchStep, LooksOnly
<1>10. CASE PatchTouch(r)
  <2>1. UNCHANGED <<sessionKernelOverrides, local>>
    BY <1>10 DEF PatchTouch
  <2>. QED BY <1>2, <1>10, <2>1, PatchTouchStep, LooksOnly DEF ResolveLabels
<1>11. CASE PatchStore(r)
  <2>1. h.op = "patch" /\ h.meta \in Paths /\ UNCHANGED local
    BY <1>11, OnItsRoute, Located DEF PatchStore, PatchLabels
  <2>. DEFINE e == [sid |-> h.sid, kid |-> h.ov.kid, path |-> h.meta]
  <2>2. g.pc = "reply" /\ h.ov.kid \in Kernels /\ g.out = {e}
    BY <1>11, PatchStoreStep DEF Override
  <2>3. sessionKernelOverrides' = [sessionKernelOverrides EXCEPT
            ![h.sid] = [kid |-> h.ov.kid, path |-> h.meta]]
    BY <1>11 DEF PatchStore, setSessionKernelOverride
  <2>4. \A s \in Sessions : s = h.sid =>
            View(s)' = e /\ \A t \in Sessions \ {s} : View(t)' = View(t)
    BY <1>1, <2>1, <2>2, <2>3, BindingView
  <2>5. e.sid = h.sid
    OBVIOUS
  <2>. HIDE DEF e
  <2>. QED BY <1>1, <2>1, <2>2, <2>4, <2>5, AnswersOnly
<1>12. CASE PatchForward(r)
  <2>1. h.op = "patch" /\ UNCHANGED sessionKernelOverrides /\ h.pc = "PatchForward"
    BY <1>12, OnItsRoute DEF PatchForward, PatchLabels, At
  <2>. DEFINE p == applySessionMetadataPatch(local[h.sid], h.path)
  <2>2. CASE UNCHANGED local /\ (g.pc = "PatchSpec" \/ (g.pc = "reply" /\ g.out = {}))
    BY <1>2, <2>1, <2>2, LooksOnly, FailsOnly
  <2>3. CASE ~g.told
    BY <2>3 DEF ChangeAccurate
  <2>4. CASE /\ g.told /\ local' = [local EXCEPT ![h.sid] = p] /\ p \in Paths
             /\ g.pc = "PatchRelease" /\ g.out = {[sid |-> h.sid, kid |-> None, path |-> p]}
    <3>1. \A s \in Sessions \ {h.sid} : View(s)' = View(s) /\ View(s) = h.was[s]
      <4>1. \A s \in Sessions \ {h.sid} : local'[s] = local[s]
        BY <2>4 DEF TypeOK
      <4>2. \A s \in Sessions \ {h.sid} : View(s) = h.was[s]
        BY <1>1, <2>1, <2>4 DEF ChangeAccurate, Touched, LoadLabels, Kin
      <4>. QED BY <2>1, <4>1, <4>2, ViewStays
    <3>2. local'[h.sid] = p /\ p # None
      BY <1>1, <2>4 DEF TypeOK, ConstantsOK
    <3>. HIDE DEF p
    <3>3. Touched(handler[r])' = {h.sid}
      BY <1>1, <2>1, <2>4 DEF Touched, Kin, LoadLabels
    <3>4. \A s \in Sessions : s = h.sid =>
              s \in Here' /\ LocalEntry(s)' = [sid |-> h.sid, kid |-> None, path |-> p]
      BY <3>2 DEF Here, LocalEntry
    <3>. QED BY <1>1, <2>1, <2>4, <3>1, <3>3, <3>4 DEF ChangeAccurate, Kin
  <2>5. \/ /\ local' = [local EXCEPT ![h.sid] = p] /\ p \in Paths
           /\ \/ g.pc = "PatchRelease" /\ g.out = {[sid |-> h.sid, kid |-> None, path |-> p]}
              \/ ~g.told
        \/ UNCHANGED local /\ (g.pc = "PatchSpec" \/ (g.pc = "reply" /\ g.out = {}))
    BY <1>12, PatchForwardStep
  <2>. HIDE DEF p
  <2>. QED BY <2>2, <2>3, <2>4, <2>5
<1>13. CASE PatchRelease(r)
  <2>1. h.op = "patch" /\ UNCHANGED local /\ h.pc = "PatchRelease"
    BY <1>13, OnItsRoute DEF PatchRelease, PatchLabels, At
  <2>2. ASSUME h.told PROVE ChangeAccurate(handler[r])'
    <3>1. h.sid \in Here /\ g.pc = "reply" /\ g.out = {LocalEntry(h.sid)}
      BY <1>1, <1>13, <2>1, <2>2, PatchReleaseStep DEF ChangeAccurate
    <3>2. sessionKernelOverrides' = [sessionKernelOverrides EXCEPT ![h.sid] = None]
      BY <1>13 DEF PatchRelease, clearSessionKernelOverride
    <3>3. sessionKernelOverrides'[h.sid] = None
      BY <1>1, <3>2 DEF TypeOK
    <3>4. \A t \in Sessions \ {h.sid} : View(t)' = View(t)
      BY <2>1, <3>2, ViewStays DEF TypeOK
    <3>5. \A s \in Sessions : s = h.sid => View(s)' = LocalEntry(s) /\ LocalEntry(s).sid = s
      BY <2>1, <3>1, <3>3 DEF View, LocalEntry, Here
    <3>. QED BY <1>1, <2>1, <3>1, <3>4, <3>5, AnswersOnly
  <2>3. ~h.told => ChangeAccurate(handler[r])'
    BY <1>1 DEF ChangeAccurate, Kin
  <2>. QED BY <2>2, <2>3
<1>14. CASE PatchSpec(r)
  <2>1. h.op = "patch" /\ UNCHANGED <<sessionKernelOverrides, local>>
    BY <1>14, OnItsRoute DEF PatchSpec, PatchLabels
  <2>. QED BY <1>14, <2>1, PatchSpecStep, LooksOnly, FailsOnly
<1>15. CASE PatchDrop(r)
  <2>1. h.op = "patch" /\ UNCHANGED local /\ h.pc = "PatchDrop" /\ g.pc = "PatchCreate"
    BY <1>15, OnItsRoute, PatchDropStep DEF PatchDrop, PatchLabels, At
  <2>2. sessionKernelOverrides' = [sessionKernelOverrides EXCEPT ![h.sid] = None]
    BY <1>15 DEF PatchDrop, clearSessionKernelOverride
  <2>3. \A t \in Sessions \ {h.sid} : View(t)' = View(t)
    BY <2>1, <2>2, ViewStays DEF TypeOK
  <2>4. g.told => \A t \in Sessions \ {h.sid} : View(t) = h.was[t]
    BY <1>1, <2>1 DEF ChangeAccurate, Touched, LoadLabels, Kin
  <2>5. Touched(handler[r])' = {h.sid}
    BY <1>1, <2>1 DEF Touched, Kin, LoadLabels
  <2>. QED BY <1>1, <2>1, <2>3, <2>4, <2>5 DEF ChangeAccurate, Kin
<1>16. CASE PatchCreate(r)
  <2>1. h.op = "patch" /\ UNCHANGED sessionKernelOverrides /\ h.meta \in Paths
    BY <1>16, OnItsRoute, Located DEF PatchCreate, PatchLabels
  <2>2. CASE UNCHANGED local /\ g.pc = "reply" /\ g.out = {}
    BY <2>1, <2>2, FailsOnly
  <2>3. ASSUME NEW s \in Sessions \ used, local' = [local EXCEPT ![s] = h.meta],
               g.pc = "reply", g.out = {[sid |-> s, kid |-> None, path |-> h.meta]}
        PROVE  ChangeAccurate(handler[r])'
    <3>. DEFINE e == [sid |-> s, kid |-> None, path |-> h.meta]
    <3>1. View(s)' = e /\ \A t \in Sessions \ {s} : View(t)' = View(t)
      BY <2>1, <2>3, MadeView
    <3>2. e.sid = s
      OBVIOUS
    <3>. HIDE DEF e
    <3>. QED BY <2>1, <2>3, <3>1, <3>2, AnswersOnly DEF e
  <2>4. ~g.told => ChangeAccurate(handler[r])'
    BY DEF ChangeAccurate
  <2>. QED BY <1>16, <2>2, <2>3, <2>4, PatchCreateStep
<1>17. CASE DeleteClear(r)
  <2>1. h.op = "delete" /\ UNCHANGED local /\ h.pc = "DeleteClear" /\ g.pc = "DeleteContainer"
    BY <1>17, OnItsRoute, DeleteClearStep DEF DeleteClear, DeleteLabels, At
  <2>2. sessionKernelOverrides' = [sessionKernelOverrides EXCEPT ![h.sid] = None]
    BY <1>17 DEF DeleteClear, clearSessionKernelOverride
  <2>3. \A t \in Sessions \ {h.sid} : View(t)' = View(t)
    BY <2>1, <2>2, ViewStays DEF TypeOK
  <2>4. g.told => \A t \in Sessions : View(t) = h.was[t]
    BY <1>1, <2>1 DEF ChangeAccurate, Touched, Kin
  <2>5. Touched(handler[r])' = {h.sid}
    BY <1>1, <2>1 DEF Touched, Kin, LoadLabels
  <2>6. sessionKernelOverrides'[h.sid] = None
    BY <1>1, <2>2 DEF TypeOK
  <2>. QED BY <1>1, <2>1, <2>3, <2>4, <2>5, <2>6 DEF ChangeAccurate, Kin
<1>18. CASE DeleteContainer(r)
  <2>1. h.op = "delete" /\ UNCHANGED sessionKernelOverrides /\ h.pc = "DeleteContainer"
    BY <1>18, OnItsRoute DEF DeleteContainer, DeleteLabels, At
  <2>2. ASSUME g.told PROVE Faithful(handler[r])'
    <3>1. g.out = {} /\ local' = [local EXCEPT ![h.sid] = None]
      BY <1>18, <2>2, DeleteContainerStep
    <3>2. sessionKernelOverrides'[h.sid] = None
      BY <1>1, <2>1, <2>2 DEF ChangeAccurate, Kin
    <3>3. \A s \in Sessions : s = h.sid => View(s)' = None
      BY <1>1, <3>1, <3>2 DEF View, TypeOK
    <3>4. \A s \in Sessions \ {h.sid} : View(s)' = h.was[s]
      <4>1. \A s \in Sessions \ {h.sid} : local'[s] = local[s]
        BY <3>1 DEF TypeOK
      <4>2. \A s \in Sessions \ {h.sid} : View(s) = h.was[s]
        BY <1>1, <2>1, <2>2 DEF ChangeAccurate, Touched, LoadLabels, Kin
      <4>. QED BY <2>1, <4>1, <4>2, ViewStays
    <3>. QED BY <1>1, <2>1, <3>1, <3>3, <3>4 DEF Faithful, Kin
  <2>. QED BY <1>18, <2>2, DeleteContainerStep DEF ChangeAccurate
<1>. QED BY <1>4, <1>5, <1>6, <1>7, <1>8, <1>9, <1>10, <1>11, <1>12, <1>13, <1>14, <1>15, <1>16,
         <1>17, <1>18 DEF ChangeSteps

\* What a PATCH has picked up, it keeps until it answers with it.
LEMMA PathAccuracy ==
    ASSUME ConstantsOK, TypeOK, Placed, Accurate, NEW r \in Requests,
           ChangeSteps(r)
    PROVE  PathKept(handler[r])'
<1>. DEFINE h == handler[r]
            g == handler'[r]
            was == h.was[h.sid]
<1>1. /\ h # None /\ h \in Locals /\ h.sid \in Sessions /\ h.pc # "reply"
      /\ (h.told => h.micro) /\ Kin(g, h) /\ ChangeAccurate(h) /\ PathKept(h)
  BY Changing DEF Accurate
<1>. SUFFICES ASSUME h.op = "patch", g.told, h.path = None, was # None
              PROVE  /\ g.pc \notin LoadLabels \cup {"reply"} => g.meta = was.path
                     /\ g.pc = "reply" => \A e \in g.out : e.kid # None => e.path = was.path
  BY <1>1 DEF PathKept, Kin
<1>2. h.told /\ h.micro
  BY <1>1 DEF Kin
<1>3. h.pc \notin LoadLabels => h.meta = was.path
  BY <1>1, <1>2 DEF PathKept
<1>4. ~PostSpec(r) /\ ~PostLocal(r) /\ ~PostDefault(r) /\ ~DeleteClear(r) /\ ~DeleteContainer(r)
  BY OnItsRoute DEF PostSpec, PostLocal, PostDefault, DeleteClear, DeleteContainer, PostLabels,
                    DeleteLabels
<1>5. h.pc \in LoadLabels => View(h.sid) = was
  BY <1>1, <1>2 DEF ChangeAccurate, Touched, Changes, LoadLabels
<1>6. CASE PatchLoad(r)
  <2>1. h.pc = "PatchLoad" /\ h.pc \in LoadLabels
    BY <1>6 DEF PatchLoad, At, LoadLabels
  <2>2. sessionKernelOverrides[h.sid] # None => was.path = sessionKernelOverrides[h.sid].path
    BY <1>5, <2>1 DEF View, buildSessionCompatResponse
  <2>3. "PatchFetch" \in LoadLabels /\ "reply" \notin ResolveLabels
    BY DEF LoadLabels, ResolveLabels
  <2>. QED BY <1>6, <2>2, <2>3, PatchLoadStep DEF applySessionMetadataPatch
<1>7. CASE fetchContainerSessionMetadata(r)
  <2>1. h.pc = "PatchFetch" /\ h.pc \in LoadLabels
    BY <1>7 DEF fetchContainerSessionMetadata, At, LoadLabels
  <2>2. sessionKernelOverrides[h.sid] = None
    BY <1>1, <1>2, <2>1 DEF ChangeAccurate, Changes
  <2>3. local[h.sid] # None /\ was.path = local[h.sid]
    BY <1>5, <2>1, <2>2 DEF View, LocalEntry
  <2>4. "reply" \notin ResolveLabels
    BY DEF ResolveLabels
  <2>. QED BY <1>2, <1>7, <2>3, <2>4, PatchFetchStep DEF applySessionMetadataPatch
<1>8. CASE \/ findJEGKernelIDByName(r) \/ isKnownJEGKernelID(r) \/ jegHasKernel(r)
           \/ rememberJEGKernelID(r) \/ findJEGKernelNameByID(r)
  <2>1. h.pc \notin LoadLabels
    BY <1>8 DEF findJEGKernelIDByName, isKnownJEGKernelID, jegHasKernel, rememberJEGKernelID,
                findJEGKernelNameByID, At, LoadLabels
  <2>. QED BY <1>3, <1>8, <2>1, FindStep DEF ResolveLabels
<1>9. CASE Bind(r)
  BY <1>3, <1>9, BindStep DEF Bind, At, LoadLabels
<1>10. CASE PatchTouch(r)
  BY <1>3, <1>10, PatchTouchStep DEF PatchTouch, At, LoadLabels
<1>11. CASE PatchStore(r)
  <2>1. h.meta = was.path
    BY <1>3, <1>11 DEF PatchStore, At, LoadLabels
  <2>2. g.pc = "reply" /\ \A e \in g.out : e.path = h.meta
    BY <1>11, PatchStoreStep
  <2>. QED BY <2>1, <2>2
<1>12. CASE PatchForward(r)
  <2>1. h.meta = was.path
    BY <1>3, <1>12 DEF PatchForward, At, LoadLabels
  <2>2. \/ g.pc \in {"PatchRelease", "PatchSpec"} /\ g.meta = h.meta
        \/ g.pc = "reply" /\ g.out = {}
    BY <1>12, PatchForwardStep
  <2>. QED BY <2>1, <2>2
<1>13. CASE PatchRelease(r)
  <2>1. h.out = {LocalEntry(h.sid)}
    BY <1>1, <1>2, <1>13 DEF PatchRelease, At, ChangeAccurate, Changes
  <2>. QED BY <1>13, <2>1, PatchReleaseStep DEF LocalEntry
<1>14. CASE PatchSpec(r)
  BY <1>3, <1>14, PatchSpecStep DEF PatchSpec, At, LoadLabels
<1>15. CASE PatchDrop(r)
  BY <1>3, <1>15, PatchDropStep DEF PatchDrop, At, LoadLabels
<1>16. CASE PatchCreate(r)
  <2>1. g.pc = "reply" /\ \A e \in g.out : e.kid = None
    BY <1>16, PatchCreateStep
  <2>. QED BY <2>1
<1>. QED BY <1>4, <1>6, <1>7, <1>8, <1>9, <1>10, <1>11, <1>12, <1>13, <1>14, <1>15, <1>16
         DEF ChangeSteps

\* Nothing is promised at the labels of another route.
LEMMA ForeignLabels ==
    ASSUME NEW r \in Requests, handler'[r].op \in Ops, OnRoute(handler'[r].op, handler'[r].pc)
    PROVE  LET op == handler'[r].op
           IN  /\ op # "get" => GetAccurate(handler[r])'
               /\ op # "list" => ListAccurate(handler[r])'
               /\ op \notin Changes => ChangeAccurate(handler[r])' /\ PathKept(handler[r])'
<1>. DEFINE g == handler'[r]
<1>1. ASSUME g.op # "get" PROVE GetAccurate(handler[r])'
  <2>1. g.pc \notin {"GetJeg", "GetContainer"}
    BY <1>1, RouteOfLabel DEF GetLabels
  <2>. QED BY <1>1, <2>1 DEF GetAccurate
<1>2. ASSUME g.op # "list" PROVE ListAccurate(handler[r])'
  <2>1. g.pc \notin ListLabels
    BY <1>2, RouteOfLabel
  <2>. QED BY <1>2, <2>1 DEF ListAccurate, ListLabels
<1>3. ASSUME g.op \notin Changes PROVE ChangeAccurate(handler[r])' /\ PathKept(handler[r])'
  BY <1>3 DEF ChangeAccurate, PathKept, Changes
<1>. QED BY <1>1, <1>2, <1>3

LEMMA StartAccurate ==
    ASSUME ConstantsOK, TypeOK, Placed, Accurate, NEW r \in Requests, NEW c \in Calls, Start(r, c)
    PROVE  Accurate'
<1>1. UNCHANGED <<sessionKernelOverrides, local>>
  BY DEF Start
<1>2. \A s : View(s)' = View(s) /\ LocalEntry(s)' = LocalEntry(s)
  BY <1>1 DEF View, LocalEntry, buildSessionCompatResponse
<1>3. ASSUME NEW q \in Requests \ {r}, handler'[q] # None
      PROVE  /\ GetAccurate(handler[q])' /\ ListAccurate(handler[q])'
             /\ ChangeAccurate(handler[q])' /\ PathKept(handler[q])'
  <2>1. handler'[q] = handler[q]
    BY OthersStay
  <2>2. /\ GetAccurate(handler[q]) /\ ListAccurate(handler[q])
        /\ ChangeAccurate(handler[q]) /\ PathKept(handler[q])
    BY <1>3, <2>1 DEF Accurate
  <2>3. GetAccurate(handler[q])'
    BY <1>1, <1>2, <2>1, <2>2 DEF GetAccurate
  <2>4. ListAccurate(handler[q])'
    <3>1. Here' = Here
      BY <1>1 DEF Here
    <3>2. \A s \in Sessions : Shown(handler[q], s)' <=> Shown(handler[q], s)
      BY <1>1, <1>2, <2>1, <3>1 DEF Shown, Pending
    <3>3. ListsSoFar(handler[q]) => ListsSoFar(handler[q])'
      BY <1>1, <1>2, <2>1, <3>1, <3>2 DEF ListsSoFar
    <3>. QED BY <1>2, <2>1, <2>2, <3>3 DEF ListAccurate
  <2>5. ChangeAccurate(handler[q])'
    BY <1>1, <1>2, <2>1, <2>2 DEF ChangeAccurate, Touched, Faithful, Here
  <2>6. PathKept(handler[q])'
    BY <2>1, <2>2 DEF PathKept
  <2>. QED BY <2>3, <2>4, <2>5, <2>6
<1>4. /\ GetAccurate(handler[r])' /\ ListAccurate(handler[r])'
      /\ ChangeAccurate(handler[r])' /\ PathKept(handler[r])'
  <2>. DEFINE g == handler'[r]
  <2>1. /\ g \in Locals /\ g.was = [s \in Sessions |-> View(s)] /\ g.out = {}
        /\ g.pc \in FirstLabels(g.op) /\ OnRoute(g.op, g.pc) /\ g.op \in Ops
    BY StartStep DEF Locals
  <2>2. g.pc \notin {"GetJeg", "GetContainer", "reply", "PatchFetch", "PatchRelease",
                     "DeleteContainer", "ListContainer"} \cup MergeLabels \cup RangeLabels
    BY <2>1 DEF FirstLabels, Ops, MergeLabels, RangeLabels
  <2>3. GetAccurate(handler[r])'
    BY <2>2 DEF GetAccurate
  <2>4. ListAccurate(handler[r])'
    BY <2>1, <2>2 DEF ListAccurate
  <2>5. ChangeAccurate(handler[r])'
    BY <1>2, <2>1, <2>2 DEF ChangeAccurate
  <2>6. PathKept(handler[r])'
    <3>1. g.op = "patch" => g.pc \in LoadLabels
      BY <2>1 DEF FirstLabels, LoadLabels
    <3>. QED BY <2>2, <3>1 DEF PathKept
  <2>. QED BY <2>3, <2>4, <2>5, <2>6
<1>. QED BY <1>3, <1>4 DEF Accurate

\* A handler that is alone keeps what it knows true.
LEMMA HandleAccurate ==
    ASSUME ConstantsOK, NoneIsNoRecord, TypeOK, Placed, Alone, Accurate, NEW r \in Requests,
           Handle(r)
    PROVE  Accurate'
<1>1. handler[r] # None
  BY StepAtLabel DEF At
<1>2. \A q \in Requests \ {r} : handler'[q] = None
  BY <1>1, OthersStay DEF Alone
<1>3. CASE Finish(r)
  <2>1. handler'[r] = None
    BY <1>3, Moved DEF Finish
  <2>. QED BY <1>2, <2>1 DEF Accurate
<1>4. CASE ~Finish(r)
  <2>. DEFINE h == handler[r]
              g == handler'[r]
  <2>1. Kin(g, h) /\ OnRoute(g.op, g.pc) /\ g.op \in Ops
    BY <1>4, RouteKept DEF Kin, Locals
  <2>2. CASE GetLoad(r) \/ GetJeg(r) \/ GetClear(r) \/ GetContainer(r)
    <3>1. g.op = "get"
      BY <2>1, <2>2, OnItsRoute DEF GetLoad, GetJeg, GetClear, GetContainer, GetLabels, Kin
    <3>. QED BY <1>2, <2>1, <2>2, <3>1, GetAccuracy, ForeignLabels DEF Accurate, Changes
  <2>3. CASE \/ ListJeg(r) \/ ListContainer(r) \/ ListMerge(r) \/ ListMergeClear(r)
             \/ ListRange(r) \/ ListRangeClear(r)
    <3>1. g.op = "list"
      BY <2>1, <2>3, OnItsRoute DEF ListJeg, ListContainer, ListMerge, ListMergeClear, ListRange,
         ListRangeClear, ListLabels, MergeLabels, RangeLabels, Kin
    <3>. QED BY <1>2, <2>1, <2>3, <3>1, ListAccuracy, ForeignLabels DEF Accurate, Changes
  <2>4. CASE ChangeSteps(r)
    <3>1. g.op \in Changes
      BY <2>1, <2>4, Changing DEF Kin
    <3>. QED BY <1>2, <2>1, <2>4, <3>1, ChangeAccuracy, PathAccuracy, ForeignLabels
             DEF Accurate, Changes
  <2>. QED BY <1>4, <2>2, <2>3, <2>4 DEF Handle, ChangeSteps
<1>. QED BY <1>3, <1>4

\* With nothing evicted or restarted, only kernels move around the handlers.
LEMMA KeptAround ==
    ASSUME Kept, Environment
    PROVE  /\ UNCHANGED <<sessionKernelOverrides, local, used, handler>>
           /\ UNCHANGED kernels \/ \E k \in Kernels : Launch(k) \/ Die(k)
BY DEF Kept, Environment, Launch, Die, EvictKnown, EvictOverride, ProxyRestart, ContainerRestart

LEMMA SameAccurate ==
    ASSUME Accurate, UNCHANGED <<sessionKernelOverrides, local, handler>>
    PROVE  Accurate'
<1>1. \A s : View(s)' = View(s) /\ LocalEntry(s)' = LocalEntry(s)
  BY DEF View, LocalEntry, buildSessionCompatResponse
<1>2. Here' = Here
  BY DEF Here
<1>3. ASSUME NEW q \in Requests
      PROVE  /\ GetAccurate(handler[q]) => GetAccurate(handler[q])'
             /\ ListAccurate(handler[q]) => ListAccurate(handler[q])'
             /\ ChangeAccurate(handler[q]) => ChangeAccurate(handler[q])'
             /\ PathKept(handler[q]) => PathKept(handler[q])'
  <2>1. \A s \in Sessions : Shown(handler[q], s)' <=> Shown(handler[q], s)
    BY <1>1, <1>2 DEF Shown, Pending
  <2>2. ListsSoFar(handler[q]) => ListsSoFar(handler[q])'
    BY <1>1, <1>2, <2>1 DEF ListsSoFar
  <2>3. GetAccurate(handler[q]) => GetAccurate(handler[q])'
    BY <1>1 DEF GetAccurate
  <2>4. ListAccurate(handler[q]) => ListAccurate(handler[q])'
    BY <1>1, <2>2 DEF ListAccurate
  <2>5. ChangeAccurate(handler[q]) => ChangeAccurate(handler[q])'
    BY <1>1, <1>2 DEF ChangeAccurate, Touched, Faithful
  <2>6. PathKept(handler[q]) => PathKept(handler[q])'
    BY DEF PathKept
  <2>. QED BY <2>2, <2>3, <2>4, <2>5, <2>6
<1>. QED BY <1>3 DEF Accurate

\* The invariant behind the three results that follow.
THEOREM AloneAccurate ==
    ASSUME Kept
    PROVE  Spec /\ []Alone => []Accurate
<1>1. Init => Accurate
  BY DEF Init, Accurate
<1>2. TypeOK /\ Placed /\ Alone /\ Accurate /\ [Next]_vars => Accurate'
  <2>. SUFFICES ASSUME TypeOK, Placed, Alone, Accurate, [Next]_vars PROVE Accurate'
    OBVIOUS
  <2>1. ASSUME NEW r \in Requests, Handle(r) PROVE Accurate'
    BY <2>1, ConstantsOK, NoneIsNoRecord, HandleAccurate
  <2>2. ASSUME NEW r \in Requests, NEW c \in Calls, Start(r, c) PROVE Accurate'
    BY <2>2, ConstantsOK, StartAccurate
  <2>3. CASE Environment
    BY <2>3, KeptAround, SameAccurate
  <2>4. CASE UNCHANGED vars
    BY <2>4, SameAccurate DEF vars
  <2>. QED BY <2>1, <2>2, <2>3, <2>4 DEF Next
<1>. QED BY <1>1, <1>2, TypeCorrect, HandlersPlaced, PTL DEF Spec

\* With requests that do not overlap and nothing evicted or restarted, a poll shows
\* every session exactly once, as it is (proxy.go:116-119, 167, 199), whether JEG and
\* the container answer each call or not.
THEOREM PollsShowTheView ==
    ASSUME Kept
    PROVE  Spec /\ []Alone => []PollIsView
<1>1. Accurate => PollIsView
  BY DEF Accurate, GetAccurate, ListAccurate, PollIsView, Told, At
<1>. QED BY <1>1, AloneAccurate, PTL

\* Under the same hypotheses the answer to a change may be believed (proxy.go:264-267,
\* 328, 439-510, 514-532).
THEOREM AnswersHold ==
    ASSUME Kept
    PROVE  Spec /\ []Alone => []ChangeAsAnswered
<1>1. Accurate => ChangeAsAnswered
  BY DEF Accurate, ChangeAccurate, Faithful, ChangeAsAnswered, Changes, Told, At
<1>. QED BY <1>1, AloneAccurate, PTL

\* Under the same hypotheses a PATCH that does not mention the path binds the session
\* with the path it had (proxy.go:374-375).
THEOREM BindingsKeepPaths ==
    ASSUME Kept
    PROVE  Spec /\ []Alone => []BindingKeepsPath
<1>1. Accurate => BindingKeepsPath
  BY DEF Accurate, PathKept, BindingKeepsPath, KeepsPath, Told, At
<1>. QED BY <1>1, AloneAccurate, PTL

----------------------------------------------------------------------------
(* Third invariant: while polls overlap with polls only and JEG answers, a    *)
(* poll that is about to clear an override clears one whose kernel is dead.    *)

Reapable(s) == sessionKernelOverrides[s] # None => sessionKernelOverrides[s].kid \in Dead

PollSafe(h) ==
    /\ h.pc = "GetJeg" => sessionKernelOverrides[h.sid] \in {h.ov, None}
    /\ h.pc = "GetClear" => Reapable(h.sid)
    /\ h.pc \in ListLabels \ {"ListJeg"} => \A s \in Sessions :
           sessionKernelOverrides[s] # None => sessionKernelOverrides[s].kid \in h.snap \cup Dead
    /\ h.pc \in {"ListMergeClear", "ListRangeClear"} => Reapable(h.cur)

Calmly == \A r \in Requests : handler[r] # None => PollSafe(handler[r])

LEMMA CalmKept == Calm => Kept /\ listJEGKernels = {Running}
BY DEF Calm, Kept, listJEGKernels

\* A handler that does not move stays safe while overrides only go and kernels only die.
LEMMA SafeStays ==
    ASSUME TypeOK, NEW q \in Requests, handler[q] # None, handler'[q] = handler[q],
           PollSafe(handler[q]), Dead \subseteq Dead',
           \A s \in Sessions : sessionKernelOverrides'[s] \in {sessionKernelOverrides[s], None}
    PROVE  PollSafe(handler[q])'
<1>. DEFINE h == handler[q]
<1>1. /\ h.sid \in Sessions
      /\ h.pc \in {"ListMergeClear", "ListRangeClear"} => h.cur \in Sessions
  BY AtType DEF TypeOK, Handler, Locals, NeedsCurrent
<1>2. \A s \in Sessions : Reapable(s) => Reapable(s)'
  BY DEF Reapable
<1>. QED BY <1>1, <1>2 DEF PollSafe

\* Nothing is asked of a poll at the labels of a change.
LEMMA ChangesSafe ==
    ASSUME NEW q \in Requests, handler'[q].op \in Changes,
           OnRoute(handler'[q].op, handler'[q].pc)
    PROVE  PollSafe(handler[q])'
<1>1. handler'[q].pc \notin GetLabels \cup ListLabels
  BY RouteOfLabel DEF Changes, Ops
<1>. QED BY <1>1 DEF PollSafe, GetLabels, ListLabels, MergeLabels, RangeLabels

PollSteps(r) ==
    \/ GetLoad(r) \/ GetJeg(r) \/ GetClear(r) \/ GetContainer(r)
    \/ ListJeg(r) \/ ListContainer(r) \/ ListMerge(r) \/ ListMergeClear(r)
    \/ ListRange(r) \/ ListRangeClear(r)

LEMMA Polling ==
    ASSUME ConstantsOK, TypeOK, Placed, NEW r \in Requests, PollSteps(r)
    PROVE  LET h == handler[r]
           IN  /\ Handle(r) /\ ~Finish(r) /\ h # None /\ h \in Handler /\ h.op \in Polls
               /\ h.pc \notin Binders \cup Writers /\ UNCHANGED kernels
<1>1. PICK l \in PollLabels \ {"reply"} : At(r, l)
  BY DEF PollSteps, GetLoad, GetJeg, GetClear, GetContainer, ListJeg, ListContainer, ListMerge,
     ListMergeClear, ListRange, ListRangeClear, PollLabels
<1>2. handler[r] \in Handler /\ handler[r] # None /\ handler[r].pc = l /\ ~Finish(r)
  BY <1>1, AtType DEF At, Finish
<1>3. l \in GetLabels \cup ListLabels
  BY DEF PollLabels, GetLabels, ListLabels, MergeLabels, RangeLabels
<1>4. handler[r].op \in Polls
  BY <1>1, <1>3, OnItsRoute DEF Polls
<1>5. Handle(r) /\ UNCHANGED kernels
  BY DEF PollSteps, Handle, GetLoad, GetJeg, GetClear, GetContainer, ListJeg, ListContainer,
     ListMerge, ListMergeClear, ListRange, ListRangeClear
<1>6. l \notin Binders \cup Writers
  BY DEF PollLabels, Binders, Writers
<1>. QED BY <1>2, <1>4, <1>5, <1>6

\* A poll only takes overrides away.
LEMMA PollClears ==
    ASSUME ConstantsOK, TypeOK, Placed, NEW r \in Requests, PollSteps(r)
    PROVE  \A s \in Sessions : sessionKernelOverrides'[s] \in {sessionKernelOverrides[s], None}
<1>1. Handle(r) /\ handler[r].pc \notin Binders
  BY Polling
<1>. QED BY <1>1, OverridesMove DEF TypeOK, Clearers

LEMMA PollKeepsSafe ==
    ASSUME ConstantsOK, TypeOK, Placed, Sound, Calm, Calmly, NEW r \in Requests, PollSteps(r)
    PROVE  PollSafe(handler[r])'
<1>. DEFINE h == handler[r]
            g == handler'[r]
<1>1. /\ h # None /\ h.sid \in Sessions /\ PollSafe(h) /\ UNCHANGED kernels
      /\ h.cont \in SUBSET Entry /\ h.todo \in SUBSET Sessions
  BY Polling DEF Calmly, Handler, Locals
<1>2. \A s \in Sessions : sessionKernelOverrides'[s] \in {sessionKernelOverrides[s], None}
  BY PollClears
<1>3. Dead' = Dead
  BY <1>1 DEF Dead
<1>4. \A s \in Sessions : sessionKernelOverrides[s] # None =>
          sessionKernelOverrides[s].kid \in Running \cup Dead
  BY DEF Sound, BoundToLaunched, Launched
<1>5. CASE GetLoad(r)
  <2>1. UNCHANGED sessionKernelOverrides
    BY <1>5 DEF GetLoad
  <2>. QED BY <1>5, <2>1, GetLoadStep DEF PollSafe, Kin, ListLabels, MergeLabels, RangeLabels
<1>6. CASE GetJeg(r)
  <2>1. UNCHANGED sessionKernelOverrides /\ sessionKernelOverrides[h.sid] \in {h.ov, None}
    BY <1>1, <1>6 DEF GetJeg, At, PollSafe
  <2>2. Kin(g, h) /\ \/ g.pc = "reply"
                     \/ h.ov.kid \notin Running /\ g.pc = "GetClear"
    BY <1>6, GetJegStep, CalmKept
  <2>3. g.pc = "GetClear" => Reapable(h.sid)
    BY <1>1, <1>4, <2>1, <2>2 DEF Reapable
  <2>4. \A s \in Sessions : Reapable(s)' <=> Reapable(s)
    BY <1>3, <2>1 DEF Reapable
  <2>. QED BY <1>1, <2>2, <2>3, <2>4 DEF PollSafe, Kin, ListLabels, MergeLabels, RangeLabels
<1>7. CASE GetClear(r) \/ GetContainer(r)
  <2>1. g.pc \in {"GetContainer", "reply"}
    BY <1>7, GetClearStep, GetContainerStep
  <2>. QED BY <2>1 DEF PollSafe, ListLabels, MergeLabels, RangeLabels
<1>8. CASE ListJeg(r)
  <2>1. UNCHANGED sessionKernelOverrides
    BY <1>8 DEF ListJeg
  <2>2. g.pc = "ListContainer" /\ g.snap = Running
    BY <1>8, ListJegStep, CalmKept
  <2>. QED BY <1>3, <1>4, <2>1, <2>2 DEF PollSafe
<1>9. CASE \/ ListContainer(r) \/ ListMerge(r) \/ ListMergeClear(r)
           \/ ListRange(r) \/ ListRangeClear(r)
  <2>1. \A s \in Sessions : sessionKernelOverrides[s] # None =>
            sessionKernelOverrides[s].kid \in h.snap \cup Dead
    BY <1>1, <1>9 DEF PollSafe, ListLabels, MergeLabels, RangeLabels, ListContainer, ListMerge,
       ListMergeClear, ListRange, ListRangeClear, At
  <2>2. /\ g.snap = h.snap
        /\ g.pc \in {"ListMerge", "ListRange", "reply"} \/
              /\ g.pc \in {"ListMergeClear", "ListRangeClear"} /\ UNCHANGED sessionKernelOverrides
              /\ g.cur \in Sessions /\ sessionKernelOverrides[g.cur].kid \notin h.snap
    <3>1. CASE ListContainer(r) \/ ListMergeClear(r) \/ ListRangeClear(r)
      BY <3>1, ListContainerStep, ListMergeClearStep, ListRangeClearStep
    <3>2. CASE ListMerge(r)
      <4>1. \A e \in h.cont : e.sid \in Sessions
        BY <1>1 DEF Entry
      <4>2. UNCHANGED sessionKernelOverrides
        BY <3>2 DEF ListMerge
      <4>. QED BY <3>2, <4>1, <4>2, ListMergeStep
    <3>3. CASE ListRange(r)
      <4>1. UNCHANGED sessionKernelOverrides
        BY <3>3 DEF ListRange
      <4>. QED BY <1>1, <3>3, <4>1, ListRangeStep
    <3>. QED BY <1>9, <3>1, <3>2, <3>3
  <2>3. \A s \in Sessions : sessionKernelOverrides'[s] # None =>
            sessionKernelOverrides'[s].kid \in g.snap \cup Dead'
    BY <1>2, <1>3, <2>1, <2>2
  <2>4. g.pc \in {"ListMergeClear", "ListRangeClear"} => Reapable(handler[r].cur)'
    BY <1>3, <2>1, <2>2 DEF Reapable
  <2>5. g.pc \notin {"GetJeg", "GetClear"}
    BY <2>2
  <2>. QED BY <2>3, <2>4, <2>5 DEF PollSafe
<1>. QED BY <1>5, <1>6, <1>7, <1>8, <1>9 DEF PollSteps

LEMMA CalmHandle ==
    ASSUME ConstantsOK, TypeOK, Placed, Sound, Calm, PollsApart, Calmly, NEW r \in Requests,
           Handle(r)
    PROVE  Calmly'
<1>. DEFINE h == handler[r]
            g == handler'[r]
<1>1. CASE PollSteps(r)
  <2>1. ASSUME NEW q \in Requests \ {r}, handler'[q] # None PROVE PollSafe(handler[q])'
    <3>1. handler'[q] = handler[q]
      BY OthersStay
    <3>2. Dead' = Dead
      BY <1>1, Polling DEF Dead
    <3>. QED BY <1>1, <2>1, <3>1, <3>2, PollClears, SafeStays DEF Calmly
  <2>. QED BY <1>1, <2>1, PollKeepsSafe DEF Calmly
<1>2. CASE ChangeSteps(r)
  <2>1. h # None /\ h.op \in Changes /\ Kin(g, h) /\ OnRoute(h.op, g.pc)
    BY <1>2, Changing
  <2>2. ASSUME NEW q \in Requests \ {r}, handler'[q] # None PROVE PollSafe(handler[q])'
    <3>1. handler'[q] = handler[q]
      BY OthersStay
    <3>2. handler[q].op \notin Polls
      BY <2>1, <2>2, <3>1 DEF PollsApart, Polls, Changes
    <3>3. handler[q].op \in Changes /\ OnRoute(handler[q].op, handler[q].pc)
      BY <2>2, <3>1, <3>2 DEF Placed, Routed, TypeOK, Handler, Locals, Ops, Polls, Changes
    <3>. QED BY <3>1, <3>3, ChangesSafe
  <2>3. PollSafe(handler[r])'
    BY <2>1, ChangesSafe DEF Kin
  <2>. QED BY <2>2, <2>3 DEF Calmly
<1>3. CASE Finish(r)
  <2>1. handler'[r] = None /\ UNCHANGED <<sessionKernelOverrides, kernels>>
    BY <1>3, Moved DEF Finish
  <2>2. ASSUME NEW q \in Requests \ {r}, handler'[q] # None PROVE PollSafe(handler[q])'
    <3>1. handler'[q] = handler[q]
      BY OthersStay
    <3>2. Dead' = Dead
      BY <2>1 DEF Dead
    <3>. QED BY <2>1, <2>2, <3>1, <3>2, SafeStays DEF Calmly
  <2>. QED BY <2>1, <2>2 DEF Calmly
<1>. QED BY <1>1, <1>2, <1>3 DEF Handle, PollSteps, ChangeSteps

LEMMA CalmStart ==
    ASSUME ConstantsOK, TypeOK, Calmly, NEW r \in Requests, NEW c \in Calls, Start(r, c)
    PROVE  Calmly'
<1>1. UNCHANGED <<sessionKernelOverrides, kernels>> /\ Dead' = Dead
  BY DEF Start, Dead
<1>2. ASSUME NEW q \in Requests \ {r}, handler'[q] # None PROVE PollSafe(handler[q])'
  <2>1. handler'[q] = handler[q]
    BY OthersStay
  <2>. QED BY <1>1, <1>2, <2>1, SafeStays DEF Calmly
<1>3. handler'[r].pc \in {"GetLoad", "ListJeg"} \cup PostLabels \cup BindLabels \cup PatchLabels
                           \cup DeleteLabels
  <2>1. handler'[r].op \in Ops /\ handler'[r].pc \in FirstLabels(handler'[r].op)
    BY StartStep DEF Locals
  <2>. QED BY <2>1 DEF FirstLabels, Ops, PostLabels, BindLabels, PatchLabels, LoadLabels,
           DeleteLabels
<1>4. PollSafe(handler[r])'
  BY <1>3 DEF PollSafe, ListLabels, MergeLabels, RangeLabels, PostLabels, BindLabels, PatchLabels,
     LoadLabels, DeleteLabels
<1>. QED BY <1>2, <1>4 DEF Calmly

LEMMA CalmAround ==
    ASSUME TypeOK, Calmly, UNCHANGED <<sessionKernelOverrides, handler>>, Dead \subseteq Dead'
    PROVE  Calmly'
BY SafeStays DEF Calmly

\* The invariant behind the refinement.
THEOREM PollsCalm ==
    ASSUME Calm
    PROVE  Spec /\ []PollsApart => []Calmly
<1>1. Init => Calmly
  BY DEF Init, Calmly
<1>2. TypeOK /\ Placed /\ Sound /\ PollsApart /\ Calmly /\ [Next]_vars => Calmly'
  <2>. SUFFICES ASSUME TypeOK, Placed, Sound, PollsApart, Calmly, [Next]_vars PROVE Calmly'
    OBVIOUS
  <2>1. ASSUME NEW r \in Requests, Handle(r) PROVE Calmly'
    BY <2>1, ConstantsOK, CalmHandle
  <2>2. ASSUME NEW r \in Requests, NEW c \in Calls, Start(r, c) PROVE Calmly'
    BY <2>2, ConstantsOK, CalmStart
  <2>3. CASE Environment
    <3>1. UNCHANGED <<sessionKernelOverrides, handler>>
      BY <2>3, CalmKept, KeptAround
    <3>2. Dead \subseteq Dead'
      <4>1. CASE UNCHANGED kernels
        BY <4>1 DEF Dead
      <4>2. ASSUME NEW k \in Kernels, Launch(k) \/ Die(k) PROVE Dead \subseteq Dead'
        BY <4>2, KernelsMove
      <4>. QED BY <2>3, <4>1, <4>2, CalmKept, KeptAround
    <3>. QED BY <3>1, <3>2, CalmAround
  <2>4. CASE UNCHANGED vars
    <3>1. UNCHANGED <<sessionKernelOverrides, handler>> /\ Dead' = Dead
      BY <2>4 DEF vars, Dead
    <3>. QED BY <3>1, CalmAround
  <2>. QED BY <2>1, <2>2, <2>3, <2>4 DEF Next
<1>. QED BY <1>1, <1>2, TypeCorrect, HandlersPlaced, HandlersSound, PTL DEF Spec

----------------------------------------------------------------------------
(* The routes implement SessionBinding: a step that changes the binding of a  *)
(* session is of a request that asked for it, or follows the kernel's death.  *)

Asking(h) == h # None /\ h.op \in {"post", "patch", "delete"}

LEMMA AskedIs ==
    ASSUME NEW s
    PROVE  s \in Asked <=> \E r \in Requests : Asking(handler[r]) /\ handler[r].sid = s
BY DEF Asked, Asking

LEMMA AskedNext ==
    ASSUME NEW s
    PROVE  s \in Asked' <=> \E r \in Requests : Asking(handler'[r]) /\ handler'[r].sid = s
BY DEF Asked, Asking

LEMMA AskedStays ==
    ASSUME ConstantsOK, NoneIsNoRecord, TypeOK, Placed, NEW r \in Requests, Handle(r), ~Finish(r)
    PROVE  Asked' = Asked
<1>1. handler[r] # None /\ handler'[r] # None /\ handler'[r].op = handler[r].op
      /\ handler'[r].sid = handler[r].sid
  BY RouteKept DEF Kin, NoneIsNoRecord
<1>2. \A q \in Requests : /\ Asking(handler'[q]) <=> Asking(handler[q])
                          /\ Asking(handler[q]) => handler'[q].sid = handler[q].sid
  BY <1>1, OthersStay DEF Asking
<1>. QED BY <1>2, AskedIs, AskedNext

LEMMA AskedMoves ==
    ASSUME ConstantsOK, NoneIsNoRecord, TypeOK, NEW r \in Requests,
           Finish(r) \/ \E c \in Calls : Start(r, c)
    PROVE  \/ Asked' = Asked
           \/ \E s \in Sessions : Asked' = Asked \cup {s}
           \/ \E s \in Sessions : Asked' = Asked \ {s}
<1>1. \A q \in Requests \ {r} : handler'[q] = handler[q]
  BY OthersStay DEF Handle
<1>2. ASSUME NEW c \in Calls, Start(r, c)
      PROVE  Asked' = Asked \/ \E s \in Sessions : Asked' = Asked \cup {s}
  <2>1. handler[r] = None /\ ~Asking(handler[r])
    BY <1>2 DEF Start, Asking
  <2>2. handler'[r].sid \in Sessions
    BY <1>2, StartStep DEF Locals
  <2>3. CASE Asking(handler'[r])
    <3>1. \A s : s \in Asked' <=> s \in Asked \/ s = handler'[r].sid
      BY <1>1, <2>1, <2>3, AskedIs, AskedNext
    <3>. QED BY <2>2, <3>1
  <2>4. CASE ~Asking(handler'[r])
    <3>1. \A s : s \in Asked' <=> s \in Asked
      BY <1>1, <2>1, <2>4, AskedIs, AskedNext
    <3>2. Asked' = Asked
      BY <3>1
    <3>. QED BY <3>2
  <2>. QED BY <2>3, <2>4
<1>3. CASE Finish(r)
  <2>. DEFINE s == handler[r].sid
  <2>1. handler'[r] = None /\ ~Asking(handler'[r]) /\ s \in Sessions
    BY <1>3, Moved, Located DEF Finish, Asking
  <2>2. CASE \E q \in Requests \ {r} : Asking(handler[q]) /\ handler[q].sid = s
    <3>1. \A t : t \in Asked' <=> t \in Asked
      BY <1>1, <2>1, <2>2, AskedIs, AskedNext
    <3>. QED BY <3>1
  <2>3. CASE ~\E q \in Requests \ {r} : Asking(handler[q]) /\ handler[q].sid = s
    <3>1. \A t : t \in Asked' <=> t \in Asked /\ t # s
      BY <1>1, <2>1, <2>3, AskedIs, AskedNext
    <3>2. Asked' = Asked \ {s}
      BY <3>1
    <3>. QED BY <2>1, <3>2
  <2>. QED BY <2>2, <2>3
<1>. QED BY <1>2, <1>3

\* How a handler changes the overrides.
LEMMA HandleBinds ==
    ASSUME ConstantsOK, TypeOK, Placed, Sound, Calmly, NEW r \in Requests, Handle(r)
    PROVE  \/ UNCHANGED sessionKernelOverrides
           \/ \E s \in Sessions :
                /\ sessionKernelOverrides' = [sessionKernelOverrides EXCEPT ![s] = None]
                /\ s \in Asked \/ Reapable(s)
           \/ \E s \in Sessions, ov \in Override :
                /\ sessionKernelOverrides' = [sessionKernelOverrides EXCEPT ![s] = ov]
                /\ s \in Asked /\ ov.kid \in Launched
<1>. DEFINE h == handler[r]
<1>1. At(r, h.pc) /\ h # None /\ h \in Handler /\ h.sid \in Sessions /\ PollSafe(h) /\ Honest(h)
  BY StepAtLabel, AtType, Located DEF At, Calmly, Sound
<1>2. h.op \in Changes => h.sid \in Asked
  BY <1>1, AskedIs DEF Changes, Asking
<1>3. CASE h.pc \notin Binders \cup Clearers
  BY <1>3, OverridesMove
<1>4. CASE h.pc \in {"GetClear", "PatchRelease", "PatchDrop", "DeleteClear"}
  <2>1. sessionKernelOverrides' = [sessionKernelOverrides EXCEPT ![h.sid] = None]
    BY <1>4, OverridesMove DEF Clearers
  <2>2. h.sid \in Asked \/ Reapable(h.sid)
    <3>1. h.pc # "GetClear" => h.op \in Changes
      BY <1>1, <1>4, OnItsRoute DEF PatchLabels, DeleteLabels, Changes
    <3>. QED BY <1>1, <1>2, <3>1 DEF PollSafe
  <2>. QED BY <1>1, <2>1, <2>2
<1>5. CASE h.pc \in {"ListMergeClear", "ListRangeClear"}
  <2>1. sessionKernelOverrides' = [sessionKernelOverrides EXCEPT ![h.cur] = None]
    BY <1>5, OverridesMove DEF Clearers
  <2>2. Reapable(h.cur) /\ h.cur \in Sessions
    BY <1>1, <1>5 DEF PollSafe, Handler, Locals, NeedsCurrent
  <2>. QED BY <2>1, <2>2
<1>6. CASE h.pc = "Bind"
  <2>. DEFINE ov == [kid |-> h.kid, path |-> h.meta]
  <2>1. sessionKernelOverrides' = [sessionKernelOverrides EXCEPT ![h.sid] = ov]
    BY <1>6, OverridesMove
  <2>2. h.kid \in Launched /\ h.meta \in Paths
    BY <1>1, <1>6 DEF Honest, BoundLabels, Handler, Locals
  <2>3. ov \in Override /\ ov.kid \in Launched
    BY <2>2 DEF Override, Launched, Running, Dead
  <2>4. h.op \in Changes
    BY <1>1, <1>6, OnItsRoute DEF BindLabels, Changes
  <2>. HIDE DEF ov
  <2>. QED BY <1>1, <1>2, <2>1, <2>3, <2>4
<1>7. CASE h.pc = "PatchStore"
  <2>. DEFINE ov == [kid |-> h.ov.kid, path |-> h.meta]
  <2>1. sessionKernelOverrides' = [sessionKernelOverrides EXCEPT ![h.sid] = ov]
    BY <1>7, OverridesMove
  <2>2. h.ov.kid \in Launched /\ h.meta \in Paths
    BY <1>1, <1>7 DEF Honest, NeedsOverride, Handler, Locals
  <2>3. ov \in Override /\ ov.kid \in Launched
    BY <2>2 DEF Override, Launched, Running, Dead
  <2>4. h.op \in Changes
    BY <1>1, <1>7, OnItsRoute DEF PatchLabels, Changes
  <2>. HIDE DEF ov
  <2>. QED BY <1>1, <1>2, <2>1, <2>3, <2>4
<1>. QED BY <1>3, <1>4, <1>5, <1>6, <1>7 DEF Binders, Clearers

\* No handler launches or ends a kernel.
LEMMA KernelsStay ==
    ASSUME NEW r \in Requests, Handle(r) \/ \E c \in Calls : Start(r, c)
    PROVE  UNCHANGED kernels
BY DEF Handle, Start, GetLoad, GetJeg, GetClear, GetContainer, ListJeg, ListContainer, ListMerge,
   ListMergeClear, ListRange, ListRangeClear, PostSpec, PostLocal, PostDefault,
   findJEGKernelIDByName, isKnownJEGKernelID, jegHasKernel, rememberJEGKernelID,
   findJEGKernelNameByID, Bind, PatchLoad, fetchContainerSessionMetadata, PatchTouch,
   PatchStore, PatchForward, PatchRelease, PatchSpec, PatchDrop, PatchCreate, DeleteClear,
   DeleteContainer, Finish

\* The kernel each session is bound to.
Bound == [s \in Sessions |-> IF sessionKernelOverrides[s] = None THEN None
                             ELSE sessionKernelOverrides[s].kid]

LEMMA BoundFrees ==
    ASSUME TypeOK, NEW s \in Sessions,
           sessionKernelOverrides' = [sessionKernelOverrides EXCEPT ![s] = None]
    PROVE  Bound' = [Bound EXCEPT ![s] = None]
BY DEF TypeOK, Bound

LEMMA BoundSwitches ==
    ASSUME NoneIsNoRecord, TypeOK, NEW s \in Sessions, NEW ov \in Override,
           sessionKernelOverrides' = [sessionKernelOverrides EXCEPT ![s] = ov]
    PROVE  Bound' = [Bound EXCEPT ![s] = ov.kid]
<1>1. ov # None
  BY DEF NoneIsNoRecord
<1>. QED BY <1>1 DEF TypeOK, Bound

LEMMA BindingStep ==
    ASSUME ConstantsOK, NoneIsNoRecord, TypeOK, Placed, Sound, Calm, Calmly, [Next]_vars
    PROVE  Binding!Next \/ UNCHANGED <<Bound, kernels, Asked>>
<1>1. ASSUME NEW r \in Requests, Handle(r), ~Finish(r)
      PROVE  Binding!Next \/ UNCHANGED <<Bound, kernels, Asked>>
  <2>1. UNCHANGED <<kernels, Asked>>
    BY <1>1, AskedStays, KernelsStay
  <2>2. CASE UNCHANGED sessionKernelOverrides
    BY <2>1, <2>2 DEF Bound
  <2>3. ASSUME NEW s \in Sessions, s \in Asked \/ Reapable(s),
               sessionKernelOverrides' = [sessionKernelOverrides EXCEPT ![s] = None]
        PROVE  Binding!Next \/ UNCHANGED <<Bound, kernels, Asked>>
    <3>1. Bound' = [Bound EXCEPT ![s] = None]
      BY <2>3, BoundFrees
    <3>2. CASE s \in Asked
      BY <2>1, <3>1, <3>2 DEF Binding!Next, Binding!Release, Bound
    <3>3. CASE sessionKernelOverrides[s] = None
      <4>1. Bound' = Bound
        BY <2>3, <3>3 DEF TypeOK, Bound
      <4>. QED BY <2>1, <4>1
    <3>4. CASE sessionKernelOverrides[s] # None /\ Reapable(s)
      <4>1. Bound[s] \in Dead
        BY <3>4 DEF Bound, Reapable
      <4>2. Bound[s] # None /\ kernels[Bound[s]] = "dead"
        BY <4>1 DEF Dead, ConstantsOK
      <4>. QED BY <2>1, <3>1, <4>2 DEF Binding!Next, Binding!Reap, Bound
    <3>. QED BY <2>3, <3>2, <3>3, <3>4
  <2>4. ASSUME NEW s \in Sessions, NEW ov \in Override, s \in Asked, ov.kid \in Launched,
               sessionKernelOverrides' = [sessionKernelOverrides EXCEPT ![s] = ov]
        PROVE  Binding!Next
    <3>1. Bound' = [Bound EXCEPT ![s] = ov.kid]
      BY <2>4, BoundSwitches
    <3>2. ov.kid \in Kernels /\ kernels[ov.kid] # "unborn"
      BY <2>4 DEF Launched, Running, Dead
    <3>3. Binding!Switch(s, ov.kid)
      BY <2>1, <2>4, <3>1, <3>2 DEF Binding!Switch, Bound
    <3>. QED BY <3>2, <3>3 DEF Binding!Next
  <2>. QED BY <1>1, <2>2, <2>3, <2>4, HandleBinds
<1>2. ASSUME NEW r \in Requests, Finish(r) \/ \E c \in Calls : Start(r, c)
      PROVE  Binding!Next \/ UNCHANGED <<Bound, kernels, Asked>>
  <2>1. UNCHANGED <<Bound, kernels>>
    BY <1>2 DEF Finish, Start, Bound
  <2>2. \A s \in Sessions : /\ Asked' = Asked \cup {s} => Binding!Ask(s)
                            /\ Asked' = Asked \ {s} => Binding!Answer(s)
    BY <2>1 DEF Binding!Ask, Binding!Answer, Bound
  <2>. QED BY <1>2, <2>1, <2>2, AskedMoves DEF Binding!Next
<1>3. CASE Environment
  <2>1. UNCHANGED <<Bound, Asked>>
    BY <1>3, CalmKept, KeptAround DEF Bound, Asked
  <2>2. \A k \in Kernels : /\ Launch(k) => Binding!Launch(k)
                           /\ Die(k) => Binding!Die(k)
    BY <2>1 DEF Launch, Die, Binding!Launch, Binding!Die, Bound
  <2>. QED BY <1>3, <2>1, <2>2, CalmKept, KeptAround DEF Binding!Next
<1>4. CASE UNCHANGED vars
  BY <1>4 DEF vars, Bound, Asked
<1>. QED BY <1>1, <1>2, <1>3, <1>4 DEF Next

\* While JEG answers, nothing is evicted or restarted and no poll overlaps with a
\* change, the session routes implement SessionBinding (jeg.go:155-156), with any
\* number of polls, or of changes, at the same time.
THEOREM RoutesImplementBinding ==
    ASSUME Calm
    PROVE  Spec /\ []PollsApart => BindingSpec
<1>1. Init => Binding!Init
  BY DEF Init, Binding!Init, Asked
<1>2. TypeOK /\ Placed /\ Sound /\ Calmly /\ [Next]_vars => [Binding!Next]_(Binding!vars)
  BY ConstantsOK, NoneIsNoRecord, BindingStep DEF Bound, Binding!vars
<1>. QED BY <1>1, <1>2, TypeCorrect, HandlersPlaced, HandlersSound, PollsCalm, PTL
         DEF Spec, Binding!Spec, BindingSpec

\* Under the same hypotheses polling does not revert a session to a local kernel: one
\* bound to a running kernel stays bound until a client posts, patches or deletes it
\* (jeg.go:155-156).
THEOREM LiveBindingsKept ==
    ASSUME Calm
    PROVE  Spec /\ []PollsApart => LiveBindingKept
<1>1. TypeOK /\ Placed /\ Sound /\ Calmly /\ [Next]_vars =>
          [\A s \in Sessions : LosesLiveBinding(s) => s \in Asked]_vars
  <2>. SUFFICES ASSUME TypeOK, Placed, Sound, Calmly, [Next]_vars,
                       NEW s \in Sessions, LosesLiveBinding(s)
                PROVE  s \in Asked
    OBVIOUS
  <2>1. ~UNCHANGED sessionKernelOverrides /\ ~Reapable(s)
    BY DEF LosesLiveBinding, Reapable, Running, Dead
  <2>2. PICK r \in Requests : Handle(r)
    BY <2>1, CalmKept, KeptAround DEF Next, vars, Start
  <2>3. CASE \E t \in Sessions :
               /\ sessionKernelOverrides' = [sessionKernelOverrides EXCEPT ![t] = None]
               /\ t \in Asked \/ Reapable(t)
    BY <2>1, <2>3 DEF LosesLiveBinding, TypeOK
  <2>4. CASE \E t \in Sessions, ov \in Override :
               /\ sessionKernelOverrides' = [sessionKernelOverrides EXCEPT ![t] = ov]
               /\ t \in Asked /\ ov.kid \in Launched
    BY <2>4 DEF LosesLiveBinding, TypeOK
  <2>. QED BY <2>1, <2>2, <2>3, <2>4, ConstantsOK, HandleBinds
<1>. QED BY <1>1, TypeCorrect, HandlersPlaced, HandlersSound, PollsCalm, PTL
         DEF Spec, LiveBindingKept
=============================================================================
