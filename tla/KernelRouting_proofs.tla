--------------------------- MODULE KernelRouting_proofs ---------------------------
(***************************************************************************)
(* Proofs about KernelRouting: its type invariant, that requests reach the     *)
(* side that owns a kernel, that lists are complete and show nothing gone,      *)
(* that a deleted kernel is gone, and that no id of a live kernel of JEG is     *)
(* forgotten without need.                                                     *)
(*                                                                          *)
(* None of these is inductive: an answer rests on what the handler saw before, *)
(* so the invariant says of a handler at each label what it has found out.      *)
(***************************************************************************)
EXTENDS KernelRouting, TLAPS

----------------------------------------------------------------------------
\* The requests that name a kernel, and the labels each operation goes through.
Targeted == {"channels", "get", "delete", "panelDelete"}

Steps(op) ==
    CASE op = "channels" -> {"override", "reroute", "known", "own", "forget", "ask", "reply"}
      [] op = "get" -> {"own", "ask", "getJeg", "getContainer", "getFallback", "forget", "reply"}
      [] op = "delete" -> {"own", "ask", "deleteJeg", "deleteContainer", "reply"}
      [] op = "panelDelete" -> {"deleteJeg", "reply"}
      [] op = "list" -> {"listJeg", "listContainer", "reply"}
      [] op = "launch" -> {"launch", "launchInContainer", "reply"}
      [] OTHER -> {op, "reply"}

\* Kernels start somewhere and stop there; they do not move.
Onward(p, q) == p = q \/ p = "unborn" \/ q = "gone"

\* The kernel has been there since the handler began, ...
Stayed(h, k, where) == h.was[k] = where /\ place[k] = where

\* ... which a handler has ruled out unless that side failed it.
RuledOut(h, where) == where \notin h.missed => ~Stayed(h, h.kid, where)

Ready(h) ==
    /\ h.pc \in Steps(h.op)
    /\ h.op \in Targeted => h.kid \in Kernels
    /\ h.kid # None => place[h.kid] # "unborn"
    /\ ~h.micro => "container" \in h.missed
    /\ \A k \in Kernels : Onward(h.was[k], place[k])

Listing(h) ==
    /\ \A k \in h.snap : h.was[k] # "gone"
    /\ h.pc = "listContainer" /\ "jeg" \notin h.missed =>
          \A k \in Kernels : Stayed(h, k, "jeg") => k \in h.snap
    /\ h.pc = "reply" /\ h.op \in {"list", "panelList"} =>
          \A where \in Sides :
             where \notin h.missed /\ (where = "jeg" \/ h.op = "list") =>
                \A k \in Kernels : Stayed(h, k, where) => k \in h.snap

Routing(h) ==
    /\ h.pc \in {"forget", "ask", "getContainer", "getFallback"} => RuledOut(h, "jeg")
    /\ h.pc \in {"getJeg", "getFallback"} => RuledOut(h, "container")
    /\ h.pc = "forget" /\ h.op = "get" => RuledOut(h, "container")
    /\ h.pc = "reply" /\ h.op \in {"channels", "get"} =>
          \A where \in Sides :
             Stayed(h, h.kid, where) /\ where \notin h.missed => h.to = where /\ h.status = "ok"

Deleting(h) ==
    /\ h.pc = "deleteJeg" /\ h.op = "delete" /\ "container" \notin h.missed =>
          place[h.kid] # "container"
    /\ h.pc = "reply" /\ h.op = "delete" /\ h.status = "ok" /\ "container" \notin h.missed =>
          place[h.kid] = "gone"

Forgetting(h) ==
    h.pc = "forget" => place[h.kid] # "jeg" \/ (h.op = "channels" /\ "jeg" \in h.missed)

Good(h) == Ready(h) /\ Listing(h) /\ Routing(h) /\ Deleting(h) /\ Forgetting(h)

Sound ==
    /\ TypeOK
    /\ override # None => place[override] # "unborn"
    /\ \A r \in Requests : request[r] # None => Good(request[r])

----------------------------------------------------------------------------
(* What the control operators change.                                        *)

\* The fields that no step after the first changes.
Same(g, h) == /\ g.op = h.op /\ g.kid = h.kid /\ g.spec = h.spec
              /\ g.micro = h.micro /\ g.was = h.was

LEMMA GotoFields ==
    ASSUME NEW h \in Locals, NEW l \in Labels
    PROVE  /\ Goto(h, l) \in Locals /\ Same(Goto(h, l), h) /\ Goto(h, l).pc = l
           /\ Goto(h, l).snap = h.snap /\ Goto(h, l).missed = h.missed
BY DEF Goto, Locals, Same

LEMMA AnswerFields ==
    ASSUME NEW h \in Locals, NEW to \in Sides \cup {"none"},
           NEW status \in {"ok", "missing", "failed", "forbidden"}
    PROVE  /\ Answer(h, to, status) \in Locals /\ Same(Answer(h, to, status), h)
           /\ Answer(h, to, status).pc = "reply"
           /\ Answer(h, to, status).to = to /\ Answer(h, to, status).status = status
           /\ Answer(h, to, status).snap = h.snap /\ Answer(h, to, status).missed = h.missed
BY DEF Answer, Locals, Same, Labels, Sides

LEMMA MissedFields ==
    ASSUME NEW h \in Locals, NEW side \in Sides, NEW failed \in BOOLEAN
    PROVE  /\ Missed(h, side, failed) \in Locals /\ Same(Missed(h, side, failed), h)
           /\ Missed(h, side, failed).pc = h.pc /\ Missed(h, side, failed).snap = h.snap
           /\ Missed(h, side, failed).known = h.known
           /\ Missed(h, side, failed).missed = IF failed THEN h.missed \cup {side} ELSE h.missed
<1>1. CASE failed
  BY <1>1 DEF Missed, Locals, Same, Sides
<1>2. CASE ~failed
  BY <1>2 DEF Missed, Locals, Same, Sides
<1>. QED BY <1>1, <1>2

LEMMA KnownFields ==
    ASSUME NEW h \in Locals, NEW known \in BOOLEAN
    PROVE  /\ [h EXCEPT !.known = known] \in Locals /\ Same([h EXCEPT !.known = known], h)
           /\ [h EXCEPT !.known = known].snap = h.snap
           /\ [h EXCEPT !.known = known].missed = h.missed
BY DEF Locals, Same

LEMMA SnapFields ==
    ASSUME NEW h \in Locals, NEW ks \in SUBSET Kernels
    PROVE  /\ [h EXCEPT !.snap = ks] \in Locals /\ Same([h EXCEPT !.snap = ks], h)
           /\ [h EXCEPT !.snap = ks].pc = h.pc /\ [h EXCEPT !.snap = ks].snap = ks
           /\ [h EXCEPT !.snap = ks].missed = h.missed
BY DEF Locals, Same

----------------------------------------------------------------------------
(* How a step carries the invariant over.                                    *)

Moved == /\ place \in [Kernels -> Places] /\ place' \in [Kernels -> Places]
         /\ \A k \in Kernels : Onward(place[k], place'[k])

NeedsKernel(h) ==
    \/ h.pc \in {"override", "reroute", "known", "own", "forget", "ask", "getContainer",
                "getFallback", "getJeg", "deleteJeg", "deleteContainer"}
    \/ h.pc = "reply" /\ h.op \in {"channels", "get", "delete"}

LEMMA KernelNamed ==
    ASSUME NEW h \in Locals, Ready(h), NeedsKernel(h)
    PROVE  h.kid \in Kernels /\ h.op \in Targeted
<1>1. h.op \in Ops
  BY DEF Locals
<1>2. CASE h.op \in Targeted
  BY <1>2 DEF Ready
<1>3. CASE h.op \notin Targeted
  BY <1>1, <1>3 DEF Ready, Steps, NeedsKernel, Targeted, Ops
<1>. QED BY <1>2, <1>3

\* What a handler has found out stays true while kernels come and go.
LEMMA GoodStays ==
    ASSUME RoutingConstants, NEW h \in Locals, Good(h), Moved
    PROVE  Good(h)'
<1>1. h.kid \in Kernels \cup {None} /\ h.snap \in SUBSET Kernels /\ h.was \in [Kernels -> Places]
  BY DEF Locals
<1>2. \A k \in Kernels, where \in Sides : Stayed(h, k, where)' => Stayed(h, k, where)
  <2>. SUFFICES ASSUME NEW k \in Kernels, NEW where \in Sides, Stayed(h, k, where)'
                PROVE  Stayed(h, k, where)
    OBVIOUS
  <2>1. Onward(h.was[k], place[k]) /\ Onward(place[k], place'[k])
    BY DEF Good, Ready, Moved
  <2>. QED BY <2>1 DEF Stayed, Onward, Sides
<1>3. h.kid \in Kernels => /\ place'[h.kid] # "unborn"
                          /\ place'[h.kid] \in {place[h.kid], "gone"}
  <2>. SUFFICES ASSUME h.kid \in Kernels PROVE place[h.kid] # "unborn" /\ Onward(place[h.kid], place'[h.kid])
    BY DEF Onward
  <2>. QED BY DEF Good, Ready, RoutingConstants, Moved
<1>4. Ready(h)'
  <2>1. \A k \in Kernels : Onward(h.was[k], place'[k])
    BY DEF Good, Ready, Moved, Onward
  <2>. QED BY <1>1, <1>3, <2>1 DEF Good, Ready
<1>5. Listing(h)'
  BY <1>2 DEF Good, Listing, Sides
<1>6. NeedsKernel(h) => h.kid \in Kernels
  BY KernelNamed DEF Good
<1>7. Routing(h)'
  BY <1>2, <1>6 DEF Good, Routing, RuledOut, Sides, NeedsKernel
<1>8. Deleting(h)' /\ Forgetting(h)'
  BY <1>3, <1>6 DEF Good, Deleting, Forgetting, NeedsKernel
<1>. QED BY <1>4, <1>5, <1>7, <1>8 DEF Good

\* A handler's step keeps the invariant if its new locals are good.
LEMMA StepSound ==
    ASSUME RoutingConstants, Sound, NEW r \in Requests, NEW g \in Locals, Become(r, g),
           Moved, Good(g)', knownJEGKernelIDs' \subseteq Kernels, UNCHANGED override
    PROVE  Sound'
<1>1. \A q \in Requests : request'[q] = IF q = r THEN g ELSE request[q]
  BY DEF Sound, TypeOK, Become
<1>2. ASSUME NEW q \in Requests, request'[q] # None PROVE Good(request[q])'
  <2>1. PICK h \in Locals : h = request'[q] /\ (h = g \/ h = request[q])
    BY <1>1, <1>2 DEF Sound, TypeOK
  <2>2. h = request[q] => Good(h)
    BY <1>2, <2>1 DEF Sound
  <2>3. Good(h)'
    BY <2>1, <2>2, GoodStays
  <2>. QED BY <2>1, <2>3 DEF Good, Ready, Listing, Routing, Deleting, Forgetting, RuledOut, Stayed
<1>3. override' # None => place'[override'] # "unborn"
  BY DEF Sound, TypeOK, Moved, Onward
<1>4. TypeOK'
  BY DEF Sound, TypeOK, Moved, Become
<1>. QED BY <1>2, <1>3, <1>4 DEF Sound

LEMMA PlainStep ==
    ASSUME RoutingConstants, Sound, NEW r \in Requests, NEW g \in Locals, Become(r, g),
           Good(g), knownJEGKernelIDs' \subseteq Kernels, UNCHANGED <<override, place>>
    PROVE  Sound'
<1>1. Moved
  BY DEF Sound, TypeOK, Moved, Onward
<1>2. Good(g)'
  BY <1>1, GoodStays
<1>. QED BY <1>1, <1>2, StepSound

LEMMA AtGood ==
    ASSUME Sound, NEW r \in Requests, NEW l, At(r, l)
    PROVE  request[r] \in Locals /\ Good(request[r]) /\ request[r].pc = l
BY DEF Sound, TypeOK, At

\* Locals that go on with the same request are ready, ...
LEMMA ReadyOn ==
    ASSUME NEW h \in Locals, NEW g \in Locals, Ready(h), Same(g, h),
           h.missed \subseteq g.missed, g.pc \in Steps(h.op)
    PROVE  Ready(g)
BY DEF Ready, Same

\* ... and before a handler has asked anyone there is nothing more to show.
Quiet(g) ==
    \/ g.pc \in {"override", "reroute", "known", "own", "deleteContainer", "listJeg", "launch",
                 "launchInContainer", "contents", "panelList", "panelLaunch"}
    \/ g.pc = "reply" /\ g.op \in {"launch", "contents", "panelLaunch", "panelDelete"}
    \/ g.pc = "deleteJeg" /\ g.op = "panelDelete"

LEMMA QuietGood ==
    ASSUME NEW g \in Locals, Ready(g), Quiet(g), \A k \in g.snap : g.was[k] # "gone"
    PROVE  Good(g)
BY DEF Good, Quiet, Listing, Routing, Deleting, Forgetting

LEMMA SnapKept ==
    ASSUME NEW h \in Locals, NEW g \in Locals, Good(h), Same(g, h), g.snap = h.snap
    PROVE  \A k \in g.snap : g.was[k] # "gone"
BY DEF Good, Listing, Same

\* Which operation a handler is at.
LEMMA OpAt ==
    ASSUME NEW h \in Locals, Ready(h)
    PROVE  /\ h.pc \in {"override", "reroute", "known"} => h.op = "channels"
           /\ h.pc \in {"own", "ask"} => h.op \in {"channels", "get", "delete"}
           /\ h.pc = "forget" => h.op \in {"channels", "get"}
           /\ h.pc \in {"getJeg", "getContainer", "getFallback"} => h.op = "get"
           /\ h.pc = "deleteJeg" => h.op \in {"delete", "panelDelete"}
           /\ h.pc = "deleteContainer" => h.op = "delete"
           /\ h.pc \in {"listJeg", "listContainer"} => h.op = "list"
           /\ h.pc \in {"launch", "launchInContainer"} => h.op = "launch"
           /\ h.pc \in {"contents", "panelList", "panelLaunch"} => h.op = h.pc
<1>1. h.op \in Ops /\ h.pc \in Steps(h.op)
  BY DEF Locals, Ready
<1>. QED BY <1>1 DEF Ops, Steps

LEMMA Listable ==
    ASSUME NEW ks \in listJEGKernels
    PROVE  ks \in SUBSET Kernels /\ \A k \in ks : place[k] = "jeg"
BY DEF listJEGKernels, Running

----------------------------------------------------------------------------
(* The channels route, and what GET and DELETE share with it.                *)

LEMMA ChannelsSound ==
    ASSUME RoutingConstants, Sound, NEW r \in Requests,
           ChannelsOverride(r) \/ ChannelsReroute(r) \/ ChannelsKnown(r)
    PROVE  Sound'
<1>. DEFINE h == request[r]
<1>1. /\ h \in Locals /\ Good(h) /\ h.pc \in {"override", "reroute", "known"}
      /\ h.op = "channels" /\ h.kid \in Kernels
  <2>1. h \in Locals /\ Good(h) /\ h.pc \in {"override", "reroute", "known"}
    BY AtGood DEF ChannelsOverride, ChannelsReroute, ChannelsKnown
  <2>. QED BY <2>1, OpAt, KernelNamed DEF Good, NeedsKernel
<1>2. \A l \in {"known", "own"} : Goto(h, l) \in Locals /\ Good(Goto(h, l))
  <2>. SUFFICES ASSUME NEW l \in {"known", "own"} PROVE Goto(h, l) \in Locals /\ Good(Goto(h, l))
    OBVIOUS
  <2>1. /\ Goto(h, l) \in Locals /\ Same(Goto(h, l), h) /\ Goto(h, l).pc = l
        /\ Goto(h, l).snap = h.snap /\ Goto(h, l).missed = h.missed
    BY <1>1, GotoFields DEF Labels
  <2>2. Ready(Goto(h, l))
    BY <1>1, <2>1, ReadyOn DEF Steps, Good
  <2>. QED BY <1>1, <2>1, <2>2, QuietGood, SnapKept DEF Quiet
<1>3. knownJEGKernelIDs \subseteq Kernels /\ override \in Kernels \cup {None}
  BY DEF Sound, TypeOK
<1>4. CASE ChannelsOverride(r)
  <2>1. CASE override \in {None, h.kid}
    BY <1>2, <1>3, <1>4, <2>1, PlainStep DEF ChannelsOverride
  <2>2. CASE override \notin {None, h.kid}
    <3>. DEFINE f == [h EXCEPT !.kid = override]
                g == Goto(f, "reroute")
    <3>1. /\ f \in Locals /\ f.kid = override /\ f.op = h.op /\ f.micro = h.micro /\ f.was = h.was
          /\ f.snap = h.snap /\ f.missed = h.missed
      BY <1>1, <1>3 DEF Locals
    <3>. HIDE DEF f
    <3>2. /\ g \in Locals /\ g.pc = "reroute" /\ g.kid = override /\ g.op = h.op
          /\ g.micro = h.micro /\ g.was = h.was /\ g.snap = h.snap /\ g.missed = h.missed
      BY <3>1, GotoFields DEF Labels, Same
    <3>3. Become(r, g)
      BY <1>4, <2>2 DEF ChannelsOverride, f
    <3>. HIDE DEF g
    <3>4. Ready(g)
      BY <1>1, <1>3, <2>2, <3>2 DEF Good, Ready, Steps, Targeted, Sound
    <3>5. Good(g)
      BY <1>1, <3>2, <3>4, QuietGood DEF Quiet, Good, Listing
    <3>. QED BY <1>3, <1>4, <3>2, <3>3, <3>5, PlainStep DEF ChannelsOverride
  <2>. QED BY <2>1, <2>2
<1>5. CASE ChannelsReroute(r)
  BY <1>1, <1>2, <1>3, <1>5, PlainStep DEF ChannelsReroute
<1>6. CASE ChannelsKnown(r)
  <2>. DEFINE f == [h EXCEPT !.known = h.kid \in knownJEGKernelIDs]
              g == Goto(f, "own")
  <2>1. /\ f \in Locals /\ Same(f, h) /\ f.snap = h.snap /\ f.missed = h.missed
    <3>. DEFINE known == h.kid \in knownJEGKernelIDs
    <3>1. known \in BOOLEAN
      OBVIOUS
    <3>. HIDE DEF known
    <3>2. LET e == [h EXCEPT !.known = known]
          IN  /\ e \in Locals /\ Same(e, h) /\ e.snap = h.snap /\ e.missed = h.missed
      BY <1>1, <3>1, KnownFields
    <3>. QED BY <3>2 DEF known
  <2>2. Become(r, g)
    BY <1>6 DEF ChannelsKnown
  <2>. HIDE DEF f
  <2>3. /\ g \in Locals /\ g.pc = "own" /\ Same(g, h) /\ g.snap = h.snap /\ g.missed = h.missed
    BY <2>1, GotoFields DEF Labels, Same
  <2>. HIDE DEF g
  <2>4. Ready(g)
    BY <1>1, <2>3, ReadyOn DEF Steps, Good
  <2>5. Good(g)
    BY <1>1, <2>3, <2>4, QuietGood, SnapKept DEF Quiet
  <2>. QED BY <1>3, <1>6, <2>2, <2>3, <2>5, PlainStep DEF ChannelsKnown
<1>. QED BY <1>4, <1>5, <1>6

\* Whatever a handler goes on to, once it has looked at JEG's list or asked the
\* container, is good if what the label stands for has been found out.
LEMMA Found ==
    ASSUME NEW h \in Locals, Good(h), NEW g \in Locals, Same(g, h), g.snap = h.snap,
           h.missed \subseteq g.missed, h.op \in {"channels", "get", "delete"},
           g.pc \in Steps(h.op) \ {"reply"}, Routing(g), Deleting(g), Forgetting(g)
    PROVE  Good(g)
<1>1. Ready(g)
  BY ReadyOn DEF Good
<1>2. g.pc # "listContainer" /\ g.pc # "reply"
  BY DEF Steps
<1>3. Listing(g)
  BY <1>2, SnapKept DEF Listing
<1>. QED BY <1>1, <1>3 DEF Good

\* So is an answer.
LEMMA Answered ==
    ASSUME NEW h \in Locals, Good(h), NEW g \in Locals, Same(g, h), g.snap = h.snap,
           h.missed \subseteq g.missed, h.op \in {"channels", "get", "delete"},
           g.pc = "reply", Routing(g), Deleting(g)
    PROVE  Good(g)
<1>1. "reply" \in Steps(h.op)
  BY DEF Steps
<1>2. Ready(g)
  BY <1>1, ReadyOn DEF Good
<1>3. Listing(g) /\ Forgetting(g)
  BY SnapKept DEF Listing, Forgetting, Same
<1>. QED BY <1>2, <1>3 DEF Good

LEMMA OwnSound ==
    ASSUME RoutingConstants, Sound, NEW r \in Requests, Own(r)
    PROVE  Sound'
<1>. DEFINE h == request[r]
<1>1. /\ h \in Locals /\ Good(h) /\ h.pc = "own"
      /\ h.op \in {"channels", "get", "delete"} /\ h.kid \in Kernels
  <2>1. h \in Locals /\ Good(h) /\ h.pc = "own"
    BY AtGood DEF Own
  <2>. QED BY <2>1, OpAt, KernelNamed DEF Good, NeedsKernel
<1>2. PICK ks \in listJEGKernels :
        /\ knownJEGKernelIDs' = knownJEGKernelIDs \cup ks
        /\ Become(r, Owned(Missed(h, "jeg", ks # Running("jeg")), h.kid \in ks))
  BY DEF Own
<1>. DEFINE f == Missed(h, "jeg", ks # Running("jeg"))
<1>3. /\ f \in Locals /\ Same(f, h) /\ f.snap = h.snap /\ h.missed \subseteq f.missed
      /\ ks # Running("jeg") => "jeg" \in f.missed
  BY <1>1, MissedFields DEF Sides
<1>4. knownJEGKernelIDs' \subseteq Kernels
  BY <1>2, Listable DEF Sound, TypeOK
<1>5. h.kid \in ks => place[h.kid] = "jeg"
  BY <1>2, Listable
<1>6. h.kid \notin ks => RuledOut(f, "jeg")
  BY <1>1, <1>3 DEF RuledOut, Stayed, Running, Same
<1>7. Become(r, Owned(f, h.kid \in ks))
  BY <1>2
<1>. HIDE DEF f
<1>8. ASSUME NEW l \in {"forget", "ask"}, h.kid \notin ks,
             l = "forget" => h.op = "channels"
      PROVE  Goto(f, l) \in Locals /\ Good(Goto(f, l))
  <2>. DEFINE g == Goto(f, l)
  <2>1. /\ g \in Locals /\ Same(g, h) /\ g.pc = l /\ g.snap = h.snap /\ g.missed = f.missed
    BY <1>3, GotoFields DEF Labels, Same
  <2>. HIDE DEF g
  <2>2. RuledOut(g, "jeg")
    BY <1>3, <1>6, <1>8, <2>1 DEF RuledOut, Same, Stayed
  <2>3. Forgetting(g)
    BY <1>1, <1>3, <1>8, <2>1 DEF Forgetting, Same, Running
  <2>4. Routing(g) /\ Deleting(g)
    BY <1>8, <2>1, <2>2 DEF Routing, Deleting, Same
  <2>5. l \in Steps(h.op)
    BY <1>1, <1>8 DEF Steps
  <2>6. Good(g)
    BY <1>1, <1>3, <2>1, <2>3, <2>4, <2>5, Found
  <2>. QED BY <2>1, <2>6 DEF g
<1>9. ASSUME h.kid \in ks
      PROVE  /\ Answer(f, "jeg", "ok") \in Locals
             /\ h.op = "channels" => Good(Answer(f, "jeg", "ok"))
  <2>. DEFINE g == Answer(f, "jeg", "ok")
  <2>1. /\ g \in Locals /\ Same(g, h) /\ g.pc = "reply" /\ g.snap = h.snap
        /\ g.missed = f.missed /\ g.to = "jeg" /\ g.status = "ok"
    BY <1>3, AnswerFields DEF Same, Sides
  <2>. HIDE DEF g
  <2>2. h.op = "channels" => Routing(g) /\ Deleting(g)
    BY <1>5, <1>9, <2>1 DEF Routing, Deleting, Same, Stayed, Sides
  <2>3. h.op = "channels" => Good(g)
    BY <1>1, <1>3, <2>1, <2>2, Answered
  <2>. QED BY <2>1, <2>3 DEF g
<1>10. ASSUME h.kid \in ks, NEW l \in {"getJeg", "deleteJeg"},
              l = "getJeg" => h.op = "get", l = "deleteJeg" => h.op = "delete"
       PROVE  Goto(f, l) \in Locals /\ Good(Goto(f, l))
  <2>. DEFINE g == Goto(f, l)
  <2>1. /\ g \in Locals /\ Same(g, h) /\ g.pc = l /\ g.snap = h.snap /\ g.missed = f.missed
    BY <1>3, GotoFields DEF Labels, Same
  <2>. HIDE DEF g
  <2>2. Routing(g) /\ Deleting(g) /\ Forgetting(g)
    BY <1>5, <1>10, <2>1 DEF Routing, RuledOut, Deleting, Forgetting, Same, Stayed
  <2>3. l \in Steps(h.op)
    BY <1>10 DEF Steps
  <2>4. Good(g)
    BY <1>1, <1>3, <1>10, <2>1, <2>2, <2>3, Found
  <2>. QED BY <2>1, <2>4 DEF g
<1>11. \E g \in Locals : Good(g) /\ Become(r, g)
  <2>1. f.op = h.op
    BY <1>3 DEF Same
  <2>2. CASE h.kid \in ks
    BY <1>1, <1>7, <1>9, <1>10, <2>1, <2>2 DEF Owned
  <2>3. CASE h.kid \notin ks
    BY <1>1, <1>7, <1>8, <2>1, <2>3 DEF Owned
  <2>. QED BY <2>2, <2>3
<1>. QED BY <1>4, <1>11, PlainStep DEF Own

LEMMA ForgetSound ==
    ASSUME RoutingConstants, Sound, NEW r \in Requests, Forget(r)
    PROVE  Sound'
<1>. DEFINE h == request[r]
<1>1. /\ h \in Locals /\ Good(h) /\ h.pc = "forget"
      /\ h.op \in {"channels", "get"} /\ h.kid \in Kernels
  <2>1. h \in Locals /\ Good(h) /\ h.pc = "forget"
    BY AtGood DEF Forget
  <2>. QED BY <2>1, OpAt, KernelNamed DEF Good, NeedsKernel
<1>2. Answer(h, "jeg", "missing") \in Locals /\ (h.op = "get" => Good(Answer(h, "jeg", "missing")))
  <2>. DEFINE g == Answer(h, "jeg", "missing")
  <2>1. /\ g \in Locals /\ Same(g, h) /\ g.pc = "reply" /\ g.snap = h.snap /\ g.missed = h.missed
    BY <1>1, AnswerFields DEF Sides
  <2>. HIDE DEF g
  <2>2. h.op = "get" => Routing(g) /\ Deleting(g)
    BY <1>1, <2>1 DEF Good, Routing, RuledOut, Deleting, Same, Stayed, Sides
  <2>3. h.op = "get" => Good(g)
    BY <1>1, <2>1, <2>2, Answered
  <2>. QED BY <2>1, <2>3 DEF g
<1>3. Goto(h, "ask") \in Locals /\ (h.op = "channels" => Good(Goto(h, "ask")))
  <2>. DEFINE g == Goto(h, "ask")
  <2>1. /\ g \in Locals /\ Same(g, h) /\ g.pc = "ask" /\ g.snap = h.snap /\ g.missed = h.missed
    BY <1>1, GotoFields DEF Labels
  <2>. HIDE DEF g
  <2>2. Routing(g) /\ Deleting(g) /\ Forgetting(g)
    BY <1>1, <2>1 DEF Good, Routing, RuledOut, Deleting, Forgetting, Same, Stayed
  <2>3. h.op = "channels" => Good(g)
    BY <1>1, <2>1, <2>2, Found DEF Steps
  <2>. QED BY <2>1, <2>3 DEF g
<1>4. \E g \in Locals : Good(g) /\ Become(r, g)
  BY <1>1, <1>2, <1>3 DEF Forget
<1>. QED BY <1>4, PlainStep DEF Forget, Sound, TypeOK

LEMMA AskSound ==
    ASSUME RoutingConstants, Sound, NEW r \in Requests, Ask(r)
    PROVE  Sound'
<1>. DEFINE h == request[r]
            f == Missed(h, "container", place[h.kid] = "container")
<1>1. /\ h \in Locals /\ Good(h) /\ h.pc = "ask"
      /\ h.op \in {"channels", "get", "delete"} /\ h.kid \in Kernels
  <2>1. h \in Locals /\ Good(h) /\ h.pc = "ask"
    BY AtGood DEF Ask
  <2>. QED BY <2>1, OpAt, KernelNamed DEF Good, NeedsKernel
<1>2. RuledOut(h, "jeg")
  BY <1>1 DEF Good, Routing
<1>3. /\ f \in Locals /\ Same(f, h) /\ f.snap = h.snap /\ h.missed \subseteq f.missed
      /\ place[h.kid] = "container" => "container" \in f.missed
  BY <1>1, MissedFields DEF Sides
<1>4. \/ Become(r, CASE h.op = "channels" -> Answer(h, "container", "ok")
                     [] h.op = "get" -> Goto(h, "getContainer")
                     [] OTHER -> Goto(h, "deleteContainer"))
      \/ Become(r, CASE h.op = "channels" -> Answer(f, "jeg", "ok")
                     [] h.op = "get" -> Goto(f, "getFallback")
                     [] OTHER -> Goto(f, "deleteJeg"))
  BY DEF Ask
<1>. HIDE DEF f
<1>5. RuledOut(f, "jeg") /\ RuledOut(f, "container")
  BY <1>2, <1>3 DEF RuledOut, Stayed, Same
<1>6. Answer(h, "container", "ok") \in Locals
      /\ (h.op = "channels" => Good(Answer(h, "container", "ok")))
  <2>. DEFINE g == Answer(h, "container", "ok")
  <2>1. /\ g \in Locals /\ Same(g, h) /\ g.pc = "reply" /\ g.snap = h.snap
        /\ g.missed = h.missed /\ g.to = "container" /\ g.status = "ok"
    BY <1>1, AnswerFields DEF Sides
  <2>. HIDE DEF g
  <2>2. h.op = "channels" => Routing(g) /\ Deleting(g)
    BY <1>2, <2>1 DEF Routing, RuledOut, Deleting, Same, Stayed, Sides
  <2>3. h.op = "channels" => Good(g)
    BY <1>1, <2>1, <2>2, Answered
  <2>. QED BY <2>1, <2>3 DEF g
<1>7. Answer(f, "jeg", "ok") \in Locals /\ (h.op = "channels" => Good(Answer(f, "jeg", "ok")))
  <2>. DEFINE g == Answer(f, "jeg", "ok")
  <2>1. /\ g \in Locals /\ Same(g, h) /\ g.pc = "reply" /\ g.snap = h.snap
        /\ g.missed = f.missed /\ g.to = "jeg" /\ g.status = "ok"
    BY <1>3, AnswerFields DEF Sides, Same
  <2>. HIDE DEF g
  <2>2. h.op = "channels" => Routing(g) /\ Deleting(g)
    BY <1>3, <1>5, <2>1 DEF Routing, RuledOut, Deleting, Same, Stayed, Sides
  <2>3. h.op = "channels" => Good(g)
    BY <1>1, <1>3, <2>1, <2>2, Answered
  <2>. QED BY <2>1, <2>3 DEF g
<1>8. ASSUME NEW l \in {"getContainer", "deleteContainer"},
             h.op = (IF l = "getContainer" THEN "get" ELSE "delete")
      PROVE  Goto(h, l) \in Locals /\ Good(Goto(h, l))
  <2>. DEFINE g == Goto(h, l)
  <2>1. /\ g \in Locals /\ Same(g, h) /\ g.pc = l /\ g.snap = h.snap /\ g.missed = h.missed
    BY <1>1, GotoFields DEF Labels
  <2>. HIDE DEF g
  <2>2. Routing(g) /\ Deleting(g) /\ Forgetting(g)
    BY <1>2, <1>8, <2>1 DEF Routing, RuledOut, Deleting, Forgetting, Same, Stayed
  <2>3. l \in Steps(h.op) \ {"reply"}
    BY <1>8 DEF Steps
  <2>4. Good(g)
    BY <1>1, <2>1, <2>2, <2>3, Found
  <2>. QED BY <2>1, <2>4 DEF g
<1>9. ASSUME NEW l \in {"getFallback", "deleteJeg"},
             h.op = (IF l = "getFallback" THEN "get" ELSE "delete")
      PROVE  Goto(f, l) \in Locals /\ Good(Goto(f, l))
  <2>. DEFINE g == Goto(f, l)
  <2>1. /\ g \in Locals /\ Same(g, h) /\ g.pc = l /\ g.snap = h.snap /\ g.missed = f.missed
    BY <1>3, GotoFields DEF Labels, Same
  <2>. HIDE DEF g
  <2>2. Routing(g) /\ Deleting(g) /\ Forgetting(g)
    BY <1>3, <1>5, <1>9, <2>1 DEF Routing, RuledOut, Deleting, Forgetting, Same, Stayed
  <2>3. l \in Steps(h.op) \ {"reply"}
    BY <1>9 DEF Steps
  <2>4. Good(g)
    BY <1>1, <1>3, <2>1, <2>2, <2>3, Found
  <2>. QED BY <2>1, <2>4 DEF g
<1>10. \E g \in Locals : Good(g) /\ Become(r, g)
  <2>1. CASE h.op = "channels"
    BY <1>4, <1>6, <1>7, <2>1
  <2>2. CASE h.op = "get"
    BY <1>4, <1>8, <1>9, <2>2
  <2>3. CASE h.op = "delete"
    BY <1>4, <1>8, <1>9, <2>3
  <2>. QED BY <1>1, <2>1, <2>2, <2>3
<1>. QED BY <1>10, PlainStep DEF Ask, Sound, TypeOK

----------------------------------------------------------------------------
(* GET and DELETE of a kernel.                                               *)

LEMMA GetSound ==
    ASSUME RoutingConstants, Sound, NEW r \in Requests, GetJeg(r) \/ GetContainer(r)
    PROVE  Sound'
<1>. DEFINE h == request[r]
<1>1. /\ h \in Locals /\ Good(h) /\ h.pc \in {"getJeg", "getFallback", "getContainer"}
      /\ h.op = "get" /\ h.kid \in Kernels
  <2>1. h \in Locals /\ Good(h) /\ h.pc \in {"getJeg", "getFallback", "getContainer"}
    BY AtGood DEF GetJeg, GetContainer
  <2>. QED BY <2>1, OpAt, KernelNamed DEF Good, NeedsKernel
\* An answer is good if it comes from the side that has the kernel, or none has it.
<1>2. ASSUME NEW f \in Locals, Same(f, h), f.snap = h.snap, h.missed \subseteq f.missed,
             NEW to \in Sides, NEW status \in {"ok", "missing", "failed"},
             \A where \in Sides : RuledOut(f, where) \/ (to = where /\ status = "ok")
      PROVE  Answer(f, to, status) \in Locals /\ Good(Answer(f, to, status))
  <2>. DEFINE g == Answer(f, to, status)
  <2>1. /\ g \in Locals /\ Same(g, h) /\ g.pc = "reply" /\ g.snap = h.snap
        /\ g.missed = f.missed /\ g.to = to /\ g.status = status
    <3>1. /\ to \in Sides \cup {"none"}
          /\ status \in {"ok", "missing", "failed", "forbidden"}
      OBVIOUS
    <3>2. /\ g \in Locals /\ Same(g, f) /\ g.pc = "reply" /\ g.to = to /\ g.status = status
          /\ g.snap = f.snap /\ g.missed = f.missed
      BY <3>1, AnswerFields DEF Sides
    <3>. QED BY <1>2, <3>2 DEF Same
  <2>. HIDE DEF g
  <2>2. Routing(g) /\ Deleting(g)
    BY <1>1, <1>2, <2>1 DEF Routing, RuledOut, Deleting, Same, Stayed
  <2>3. Good(g)
    BY <1>1, <1>2, <2>1, <2>2, Answered
  <2>. QED BY <2>1, <2>3 DEF g
<1>3. CASE GetJeg(r)
  <2>1. h.pc \in {"getJeg", "getFallback"} /\ RuledOut(h, "container")
    BY <1>1, <1>3 DEF GetJeg, At, Good, Routing
  <2>2. CASE place[h.kid] = "jeg" /\ Become(r, Answer(h, "jeg", "ok"))
    <3>1. \A where \in Sides : RuledOut(h, where) \/ ("jeg" = where /\ "ok" = "ok")
      BY <2>1 DEF Sides
    <3>2. Answer(h, "jeg", "ok") \in Locals /\ Good(Answer(h, "jeg", "ok"))
      BY <1>1, <1>2, <3>1 DEF Same, Sides
    <3>. QED BY <1>3, <2>2, <3>2, PlainStep DEF GetJeg, Sound, TypeOK
  <2>3. CASE place[h.kid] # "jeg" /\ h.pc = "getFallback" /\ Become(r, Goto(h, "forget"))
    <3>. DEFINE g == Goto(h, "forget")
    <3>1. /\ g \in Locals /\ Same(g, h) /\ g.pc = "forget" /\ g.snap = h.snap /\ g.missed = h.missed
      BY <1>1, GotoFields DEF Labels
    <3>2. Become(r, g)
      BY <2>3
    <3>. HIDE DEF g
    <3>3. Routing(g) /\ Deleting(g) /\ Forgetting(g)
      BY <2>1, <2>3, <3>1 DEF Routing, RuledOut, Deleting, Forgetting, Same, Stayed
    <3>4. Good(g)
      BY <1>1, <3>1, <3>3, Found DEF Steps
    <3>. QED BY <1>3, <3>1, <3>2, <3>4, PlainStep DEF GetJeg, Sound, TypeOK
  <2>4. CASE place[h.kid] # "jeg" /\ Become(r, Answer(h, "jeg", "missing"))
    <3>1. \A where \in Sides : RuledOut(h, where)
      BY <2>1, <2>4 DEF Sides, RuledOut, Stayed
    <3>2. Answer(h, "jeg", "missing") \in Locals /\ Good(Answer(h, "jeg", "missing"))
      BY <1>1, <1>2, <3>1 DEF Same, Sides
    <3>. QED BY <1>3, <2>4, <3>2, PlainStep DEF GetJeg, Sound, TypeOK
  <2>5. CASE Become(r, Answer(Missed(h, "jeg", TRUE), "jeg", "failed"))
    <3>. DEFINE f == Missed(h, "jeg", TRUE)
    <3>1. /\ f \in Locals /\ Same(f, h) /\ f.snap = h.snap /\ h.missed \subseteq f.missed
          /\ "jeg" \in f.missed
      BY <1>1, MissedFields DEF Sides
    <3>2. Become(r, Answer(f, "jeg", "failed"))
      BY <2>5
    <3>. HIDE DEF f
    <3>3. \A where \in Sides : RuledOut(f, where)
      BY <2>1, <3>1 DEF Sides, RuledOut, Stayed, Same
    <3>4. Answer(f, "jeg", "failed") \in Locals /\ Good(Answer(f, "jeg", "failed"))
      BY <1>1, <1>2, <3>1, <3>3 DEF Sides
    <3>. QED BY <1>3, <3>2, <3>4, PlainStep DEF GetJeg, Sound, TypeOK
  <2>. QED BY <1>3, <2>1, <2>2, <2>3, <2>4, <2>5 DEF GetJeg
<1>4. CASE GetContainer(r)
  <2>1. RuledOut(h, "jeg")
    BY <1>1, <1>4 DEF GetContainer, At, Good, Routing
  <2>2. CASE Become(r, Answer(h, "container", "ok"))
    <3>1. \A where \in Sides : RuledOut(h, where) \/ ("container" = where /\ "ok" = "ok")
      BY <2>1 DEF Sides
    <3>2. Answer(h, "container", "ok") \in Locals /\ Good(Answer(h, "container", "ok"))
      BY <1>1, <1>2, <3>1 DEF Same, Sides
    <3>. QED BY <1>4, <2>2, <3>2, PlainStep DEF GetContainer, Sound, TypeOK
  <2>3. CASE LET g == Missed(h, "container", place[h.kid] = "container")
             IN  Become(r, Answer(g, "container", "missing"))
    <3>. DEFINE f == Missed(h, "container", place[h.kid] = "container")
    <3>1. /\ f \in Locals /\ Same(f, h) /\ f.snap = h.snap /\ h.missed \subseteq f.missed
          /\ place[h.kid] = "container" => "container" \in f.missed
      BY <1>1, MissedFields DEF Sides
    <3>2. Become(r, Answer(f, "container", "missing"))
      BY <2>3
    <3>. HIDE DEF f
    <3>3. \A where \in Sides : RuledOut(f, where)
      BY <2>1, <3>1 DEF Sides, RuledOut, Stayed, Same
    <3>4. Answer(f, "container", "missing") \in Locals /\ Good(Answer(f, "container", "missing"))
      BY <1>1, <1>2, <3>1, <3>3 DEF Sides
    <3>. QED BY <1>4, <3>2, <3>4, PlainStep DEF GetContainer, Sound, TypeOK
  <2>. QED BY <1>4, <2>2, <2>3 DEF GetContainer
<1>. QED BY <1>3, <1>4

\* Kernels that start or are gone move on, whichever step does it.
LEMMA PlaceMoves ==
    ASSUME TypeOK, NEW k \in Kernels, NEW p \in Places,
           place[k] = "unborn" \/ p = "gone", place' = [place EXCEPT ![k] = p]
    PROVE  Moved /\ place'[k] = p
BY DEF TypeOK, Moved, Onward, Places

LEMMA StillMoves ==
    ASSUME TypeOK, place' = place
    PROVE  Moved
BY DEF TypeOK, Moved, Onward

\* A step of a handler that has nothing to show moves kernels as well.
LEMMA MovingStep ==
    ASSUME RoutingConstants, Sound, NEW r \in Requests, NEW g \in Locals, Become(r, g),
           Good(g), Moved, UNCHANGED <<knownJEGKernelIDs, override>>
    PROVE  Sound'
<1>1. Good(g)'
  BY GoodStays
<1>. QED BY <1>1, StepSound DEF Sound, TypeOK

LEMMA DeleteSound ==
    ASSUME RoutingConstants, Sound, NEW r \in Requests, DeleteJeg(r) \/ DeleteContainer(r)
    PROVE  Sound'
<1>0. PICK l \in {"deleteJeg", "deleteContainer"} : At(r, l)
  BY DEF DeleteJeg, DeleteContainer
<1>. PICK h \in Locals : h = request[r] /\ Good(h) /\ h.pc \in {"deleteJeg", "deleteContainer"}
  BY <1>0, AtGood
<1>1. h.op \in {"delete", "panelDelete"} /\ h.kid \in Kernels
  BY OpAt, KernelNamed DEF Good, NeedsKernel
\* What is answered is good if success means that the kernel is gone.
<1>2. ASSUME NEW to \in Sides, NEW status \in {"ok", "missing", "failed"}, Moved,
             Become(r, Answer(h, to, status)), UNCHANGED <<knownJEGKernelIDs, override>>,
             h.op = "delete" /\ status = "ok" /\ "container" \notin h.missed =>
                 place'[h.kid] = "gone"
      PROVE  Sound'
  <2>. DEFINE g == Answer(h, to, status)
  <2>1. /\ g \in Locals /\ Same(g, h) /\ g.pc = "reply" /\ g.snap = h.snap
        /\ g.missed = h.missed /\ g.status = status
    <3>1. /\ to \in Sides \cup {"none"}
          /\ status \in {"ok", "missing", "failed", "forbidden"}
      OBVIOUS
    <3>2. /\ g \in Locals /\ Same(g, h) /\ g.pc = "reply" /\ g.status = status
          /\ g.snap = h.snap /\ g.missed = h.missed
      BY <3>1, AnswerFields DEF Sides
    <3>. QED BY <3>2
  <2>2. Become(r, g)
    BY <1>2
  <2>. HIDE DEF g
  <2>3. Ready(h)' /\ Listing(h)'
    BY <1>2, GoodStays DEF Good
  <2>4. Ready(g)'
    BY <1>1, <2>1, <2>3 DEF Ready, Same, Steps
  <2>5. Listing(g)'
    BY <1>1, <2>1, <2>3 DEF Listing, Same
  <2>6. Routing(g)' /\ Deleting(g)' /\ Forgetting(g)'
    BY <1>1, <1>2, <2>1 DEF Routing, Deleting, Forgetting, Same
  <2>7. Good(g)'
    BY <2>4, <2>5, <2>6 DEF Good
  <2>. QED BY <1>2, <2>1, <2>2, <2>7, StepSound DEF Sound, TypeOK
<1>3. CASE DeleteJeg(r)
  <2>. DEFINE deleted == IF place[h.kid] = "jeg" THEN [place EXCEPT ![h.kid] = "gone"] ELSE place
  <2>1. place' \in {place, deleted} => Moved
    BY <1>1, PlaceMoves, StillMoves DEF Sound, Places
  <2>2. h.op = "delete" /\ "container" \notin h.missed /\ place' = deleted => place'[h.kid] = "gone"
    <3>1. h.op = "delete" /\ "container" \notin h.missed => place[h.kid] \in {"jeg", "gone"}
      <4>1. place[h.kid] \in Places /\ place[h.kid] # "unborn" /\ h.pc = "deleteJeg"
        BY <1>1, <1>3 DEF Good, Ready, RoutingConstants, Sound, TypeOK, DeleteJeg, At
      <4>. QED BY <4>1 DEF Good, Deleting, Places
    <3>. QED BY <1>1, <3>1, PlaceMoves DEF Sound, TypeOK
  <2>3. UNCHANGED <<knownJEGKernelIDs, override>>
    BY <1>3 DEF DeleteJeg
  <2>4. \/ place' = deleted /\ Become(r, Answer(h, "jeg", "ok"))
        \/ place' \in {place, deleted} /\ Become(r, Answer(h, "jeg", "failed"))
    BY <1>3 DEF DeleteJeg
  <2>. HIDE DEF deleted
  <2>. QED BY <1>2, <2>1, <2>2, <2>3, <2>4 DEF Sides
<1>4. CASE DeleteContainer(r)
  <2>1. UNCHANGED <<knownJEGKernelIDs, override>>
    BY <1>4 DEF DeleteContainer
  <2>2. CASE /\ place' = [place EXCEPT ![h.kid] = "gone"]
             /\ Become(r, Answer(h, "container", "ok"))
    <3>1. Moved /\ place'[h.kid] = "gone"
      BY <1>1, <2>2, PlaceMoves DEF Sound, Places
    <3>. QED BY <1>2, <2>1, <2>2, <3>1 DEF Sides
  <2>3. CASE place' = place /\ Become(r, Answer(h, "container", "missing"))
    BY <1>2, <2>1, <2>3, StillMoves DEF Sides, Sound
  <2>. QED BY <1>4, <2>2, <2>3 DEF DeleteContainer
<1>. QED BY <1>3, <1>4

----------------------------------------------------------------------------
(* The lists.                                                                *)

LEMMA ListJegSound ==
    ASSUME RoutingConstants, Sound, NEW r \in Requests, ListJeg(r)
    PROVE  Sound'
<1>. DEFINE h == request[r]
<1>1. h \in Locals /\ Good(h) /\ h.op = "list"
  <2>1. h \in Locals /\ Good(h) /\ h.pc = "listJeg"
    BY AtGood DEF ListJeg
  <2>. QED BY <2>1, OpAt DEF Good
<1>2. PICK ks \in listJEGKernels :
        /\ knownJEGKernelIDs' = knownJEGKernelIDs \cup ks
        /\ LET f == Missed(h, "jeg", ks # Running("jeg"))
           IN  Become(r, Goto([f EXCEPT !.snap = ks], "listContainer"))
  BY DEF ListJeg
<1>3. ks \in SUBSET Kernels /\ \A k \in ks : place[k] = "jeg"
  BY <1>2, Listable
<1>. DEFINE f == Missed(h, "jeg", ks # Running("jeg"))
            e == [f EXCEPT !.snap = ks]
            g == Goto(e, "listContainer")
<1>4. /\ f \in Locals /\ Same(f, h) /\ h.missed \subseteq f.missed
      /\ ks # Running("jeg") => "jeg" \in f.missed
  BY <1>1, MissedFields DEF Sides
<1>5. Become(r, g)
  BY <1>2
<1>. HIDE DEF f
<1>6. e \in Locals /\ Same(e, f) /\ e.snap = ks /\ e.missed = f.missed
  BY <1>3, <1>4, SnapFields
<1>. HIDE DEF e
<1>7. /\ g \in Locals /\ Same(g, h) /\ g.pc = "listContainer" /\ g.snap = ks
      /\ h.missed \subseteq g.missed
      /\ ks # Running("jeg") => "jeg" \in g.missed
  BY <1>4, <1>6, GotoFields DEF Labels, Same
<1>. HIDE DEF g
<1>8. Ready(g)
  BY <1>1, <1>7, ReadyOn DEF Good, Steps
<1>9. Listing(g)
  <2>1. \A k \in ks : g.was[k] # "gone"
    BY <1>3, <1>8 DEF Ready, Onward
  <2>. QED BY <1>7, <2>1 DEF Listing, Stayed, Running
<1>10. Routing(g) /\ Deleting(g) /\ Forgetting(g)
  BY <1>7 DEF Routing, Deleting, Forgetting
<1>11. knownJEGKernelIDs' \subseteq Kernels
  BY <1>2, <1>3 DEF Sound, TypeOK
<1>. QED BY <1>5, <1>7, <1>8, <1>9, <1>10, <1>11, PlainStep DEF ListJeg, Good

LEMMA ListContainerSound ==
    ASSUME RoutingConstants, Sound, NEW r \in Requests, ListContainer(r)
    PROVE  Sound'
<1>. DEFINE h == request[r]
<1>1. h \in Locals /\ Good(h) /\ h.pc = "listContainer" /\ h.op = "list" /\ h.snap \in SUBSET Kernels
  <2>1. h \in Locals /\ Good(h) /\ h.pc = "listContainer"
    BY AtGood DEF ListContainer
  <2>. QED BY <2>1, OpAt DEF Good, Locals
<1>2. PICK ks \in (IF h.micro THEN Listed ELSE {{}}) :
        LET f == Missed(h, "container", ~(Running("container") \subseteq ks))
        IN  Become(r, Answer(Merged(f, ks), "none", "ok"))
  BY DEF ListContainer
<1>3. ks \in SUBSET Kernels /\ \A k \in ks : place[k] \in Sides
  BY <1>2 DEF Listed, Running, Sides
<1>. DEFINE f == Missed(h, "container", ~(Running("container") \subseteq ks))
            e == Merged(f, ks)
            g == Answer(e, "none", "ok")
<1>4. /\ f \in Locals /\ Same(f, h) /\ h.missed \subseteq f.missed /\ f.snap = h.snap
      /\ "container" \in f.missed \/ Running("container") \subseteq ks
  BY <1>1, MissedFields DEF Sides
<1>5. Become(r, g)
  BY <1>2
<1>. HIDE DEF f
<1>6. e \in Locals /\ Same(e, f) /\ e.snap = f.snap \cup ks /\ e.missed = f.missed
  <2>1. f.snap \cup ks \in SUBSET Kernels
    BY <1>1, <1>3, <1>4
  <2>. QED BY <1>4, <2>1, SnapFields DEF Merged
<1>. HIDE DEF e
<1>7. /\ g \in Locals /\ Same(g, h) /\ g.pc = "reply" /\ g.snap = h.snap \cup ks
      /\ g.missed = f.missed
  BY <1>4, <1>6, AnswerFields DEF Same
<1>. HIDE DEF g
<1>8. Ready(g)
  BY <1>1, <1>4, <1>7, ReadyOn DEF Good, Steps
<1>9. Listing(g)
  <2>1. \A k \in g.snap : g.was[k] # "gone"
    <3>1. \A k \in ks : g.was[k] # "gone"
      BY <1>3, <1>8 DEF Ready, Onward, Sides
    <3>. QED BY <1>1, <1>7, <3>1 DEF Good, Listing, Same
  <2>2. "jeg" \notin g.missed => \A k \in Kernels : Stayed(g, k, "jeg") => k \in g.snap
    BY <1>1, <1>4, <1>7 DEF Good, Listing, Stayed, Same
  <2>3. "container" \notin g.missed => \A k \in Kernels : Stayed(g, k, "container") => k \in g.snap
    BY <1>4, <1>7 DEF Stayed, Running
  <2>. QED BY <1>7, <2>1, <2>2, <2>3 DEF Listing, Sides
<1>10. Routing(g) /\ Deleting(g) /\ Forgetting(g)
  BY <1>1, <1>7 DEF Routing, Deleting, Forgetting, Same
<1>. QED BY <1>5, <1>7, <1>8, <1>9, <1>10, PlainStep DEF ListContainer, Good, Sound, TypeOK

LEMMA PanelListSound ==
    ASSUME RoutingConstants, Sound, NEW r \in Requests, PanelList(r)
    PROVE  Sound'
<1>. DEFINE h == request[r]
<1>1. h \in Locals /\ Good(h) /\ h.op = "panelList"
  <2>1. h \in Locals /\ Good(h) /\ h.pc = "panelList"
    BY AtGood DEF PanelList
  <2>. QED BY <2>1, OpAt DEF Good
\* What is answered is good if it lists what runs at JEG, or JEG failed.
<1>2. ASSUME NEW f \in Locals, Same(f, h), h.missed \subseteq f.missed,
             \/ f.snap = h.snap /\ "jeg" \in f.missed
             \/ f.snap = Running("jeg"),
             NEW status \in {"ok", "failed"}, Become(r, Answer(f, "jeg", status)),
             UNCHANGED <<knownJEGKernelIDs, override, place>>
      PROVE  Sound'
  <2>. DEFINE g == Answer(f, "jeg", status)
  <2>1. /\ g \in Locals /\ Same(g, h) /\ g.pc = "reply" /\ g.snap = f.snap /\ g.missed = f.missed
    BY <1>2, AnswerFields DEF Same, Sides
  <2>2. Become(r, g)
    BY <1>2
  <2>. HIDE DEF g
  <2>3. Ready(g)
    BY <1>1, <1>2, <2>1, ReadyOn DEF Good, Steps
  <2>4. \A k \in g.snap : g.was[k] # "gone"
    BY <1>1, <1>2, <2>1, <2>3 DEF Ready, Onward, Running, Good, Listing, Same
  <2>5. Listing(g)
    BY <1>1, <1>2, <2>1, <2>4 DEF Listing, Same, Sides, Stayed, Running
  <2>6. Routing(g) /\ Deleting(g) /\ Forgetting(g)
    BY <1>1, <2>1 DEF Routing, Deleting, Forgetting, Same
  <2>. QED BY <1>2, <2>1, <2>2, <2>3, <2>5, <2>6, PlainStep DEF Good, Sound, TypeOK
<1>3. CASE Become(r, Answer([h EXCEPT !.snap = Running("jeg")], "jeg", "ok"))
  <2>1. Running("jeg") \in SUBSET Kernels
    BY DEF Running
  <2>. QED BY <1>1, <1>2, <1>3, <2>1, SnapFields DEF PanelList
<1>4. CASE Become(r, Answer(Missed(h, "jeg", TRUE), "jeg", "failed"))
  <2>1. /\ Missed(h, "jeg", TRUE) \in Locals /\ Same(Missed(h, "jeg", TRUE), h)
        /\ Missed(h, "jeg", TRUE).snap = h.snap
        /\ Missed(h, "jeg", TRUE).missed = h.missed \cup {"jeg"}
    BY <1>1, MissedFields DEF Sides
  <2>. QED BY <1>2, <1>4, <2>1 DEF PanelList
<1>. QED BY <1>3, <1>4 DEF PanelList

----------------------------------------------------------------------------
(* Launching, and the files of the container: nothing has to be shown of them  *)
(* but that kernels only start.                                                *)

LEMMA QuietAnswer ==
    ASSUME NEW h \in Locals, Good(h), h.op \in {"launch", "panelLaunch", "contents"},
           NEW f \in Locals, Same(f, h), f.snap = h.snap, h.missed \subseteq f.missed,
           NEW to \in Sides \cup {"none"}, NEW status \in {"ok", "failed", "forbidden"}
    PROVE  Answer(f, to, status) \in Locals /\ Good(Answer(f, to, status))
<1>. DEFINE g == Answer(f, to, status)
<1>1. /\ g \in Locals /\ Same(g, h) /\ g.pc = "reply" /\ g.snap = h.snap /\ g.missed = f.missed
  <2>1. to \in Sides \cup {"none"} /\ status \in {"ok", "missing", "failed", "forbidden"}
    OBVIOUS
  <2>2. /\ g \in Locals /\ Same(g, f) /\ g.pc = "reply" /\ g.snap = f.snap /\ g.missed = f.missed
    BY <2>1, AnswerFields DEF Sides
  <2>. QED BY <2>2 DEF Same
<1>. HIDE DEF g
<1>2. Ready(g)
  BY <1>1, ReadyOn DEF Good, Steps
<1>3. Good(g)
  BY <1>1, <1>2, QuietGood, SnapKept DEF Quiet, Same
<1>. QED BY <1>1, <1>3 DEF g

LEMMA LaunchAtSound ==
    ASSUME RoutingConstants, Sound, NEW r \in Requests, NEW where \in Sides, NEW failing,
           NEW h \in Locals, h = request[r], Good(h), h.op \in {"launch", "panelLaunch"},
           LaunchAt(r, where, failing), UNCHANGED <<knownJEGKernelIDs, override>>
    PROVE  Sound'
<1>1. ASSUME NEW status \in {"ok", "failed", "forbidden"}
      PROVE  Answer(h, where, status) \in Locals /\ Good(Answer(h, where, status))
  <2>1. where \in Sides \cup {"none"} /\ Same(h, h)
    BY DEF Same
  <2>. QED BY <2>1, QuietAnswer
<1>2. CASE \E k \in Kernels : /\ place[k] = "unborn" /\ place' = [place EXCEPT ![k] = where]
                              /\ Become(r, Answer(h, where, "ok"))
  <2>1. Moved
    BY <1>2, PlaceMoves DEF Sound, Sides, Places
  <2>. QED BY <1>1, <1>2, <2>1, MovingStep
<1>3. CASE place' = place /\ Become(r, Answer(h, where, "failed"))
  BY <1>1, <1>3, StillMoves, MovingStep DEF Sound
<1>. QED BY <1>2, <1>3 DEF LaunchAt, Running

LEMMA LaunchSound ==
    ASSUME RoutingConstants, Sound, NEW r \in Requests,
           Launch(r) \/ LaunchInContainer(r) \/ PanelLaunch(r) \/ Contents(r)
    PROVE  Sound'
<1>0. PICK l \in {"launch", "launchInContainer", "panelLaunch", "contents"} : At(r, l)
  BY DEF Launch, LaunchInContainer, PanelLaunch, Contents
<1>. PICK h \in Locals : h = request[r] /\ Good(h) /\ h.pc = l
  BY <1>0, AtGood
<1>1. h.op \in {"launch", "panelLaunch", "contents"} /\ (l # "contents" => h.op # "contents")
  BY OpAt DEF Good
<1>2. Same(h, h)
  BY DEF Same
<1>3. ASSUME NEW to \in Sides \cup {"none"}, NEW status \in {"ok", "failed", "forbidden"}
      PROVE  Answer(h, to, status) \in Locals /\ Good(Answer(h, to, status))
  BY <1>1, <1>2, QuietAnswer
<1>4. CASE Launch(r)
  <2>1. CASE Become(r, Goto(h, "launchInContainer"))
    <3>. DEFINE g == Goto(h, "launchInContainer")
    <3>1. /\ g \in Locals /\ Same(g, h) /\ g.pc = "launchInContainer" /\ g.snap = h.snap
          /\ g.missed = h.missed
      BY GotoFields DEF Labels
    <3>2. Become(r, g)
      BY <2>1
    <3>. HIDE DEF g
    <3>3. h.op = "launch"
      BY <1>4, OpAt DEF Launch, At, Good
    <3>4. Ready(g)
      BY <3>1, <3>3, ReadyOn DEF Good, Steps
    <3>5. Good(g)
      BY <3>1, <3>4, QuietGood, SnapKept DEF Quiet
    <3>. QED BY <1>4, <3>1, <3>2, <3>5, PlainStep DEF Launch, Sound, TypeOK
  <2>2. CASE Become(r, Answer(h, "none", "forbidden"))
    BY <1>3, <1>4, <2>2, PlainStep DEF Launch, Sound, TypeOK
  <2>. QED BY <1>4, <2>1, <2>2 DEF Launch
<1>5. CASE LaunchInContainer(r)
  <2>1. h.op \in {"launch", "panelLaunch"}
    BY <1>5, OpAt DEF LaunchInContainer, At, Good
  <2>2. LaunchAt(r, "container", "container") /\ UNCHANGED <<knownJEGKernelIDs, override>>
    BY <1>5 DEF LaunchInContainer
  <2>. QED BY <2>1, <2>2, LaunchAtSound DEF Sides
<1>6. CASE PanelLaunch(r)
  <2>1. h.op \in {"launch", "panelLaunch"}
    BY <1>6, OpAt DEF PanelLaunch, At, Good
  <2>2. CASE LaunchAt(r, "jeg", "jeg") /\ UNCHANGED <<knownJEGKernelIDs, override>>
    BY <2>1, <2>2, LaunchAtSound DEF Sides
  <2>3. CASE /\ Become(r, Answer(h, "none", "forbidden"))
             /\ UNCHANGED <<place, knownJEGKernelIDs, override>>
    BY <1>3, <2>3, PlainStep DEF Sound, TypeOK
  <2>. QED BY <1>6, <2>2, <2>3 DEF PanelLaunch
<1>7. CASE Contents(r)
  <2>1. CASE Become(r, Answer(h, "container", "ok"))
    BY <1>3, <1>7, <2>1, PlainStep DEF Contents, Sound, TypeOK, Sides
  <2>2. CASE Become(r, Answer(Missed(h, "container", TRUE), "none", "failed"))
    <3>. DEFINE f == Missed(h, "container", TRUE)
    <3>1. f \in Locals /\ Same(f, h) /\ f.snap = h.snap /\ h.missed \subseteq f.missed
      BY MissedFields DEF Sides
    <3>2. Become(r, Answer(f, "none", "failed"))
      BY <2>2
    <3>. HIDE DEF f
    <3>3. Answer(f, "none", "failed") \in Locals /\ Good(Answer(f, "none", "failed"))
      BY <1>1, <3>1, QuietAnswer
    <3>. QED BY <1>7, <3>2, <3>3, PlainStep DEF Contents, Sound, TypeOK
  <2>. QED BY <1>7, <2>1, <2>2 DEF Contents
<1>. QED BY <1>4, <1>5, <1>6, <1>7

----------------------------------------------------------------------------
(* Requests come and go, and so do kernels.                                  *)

LEMMA StartSound ==
    ASSUME RoutingConstants, Sound, NEW r \in Requests, NEW c \in Calls, Start(r, c)
    PROVE  Sound'
<1>1. /\ c \in Call /\ c.op \in Ops /\ c.kid \in Kernels \cup {None}
      /\ c.op \in Targeted => c.kid # None
      /\ place \in [Kernels -> Places] /\ None \notin Kernels
  BY DEF RoutingConstants, Call, Sound, TypeOK, Targeted
<1>2. Dispatch(c) \in Labels /\ Dispatch(c) \in Steps(c.op)
  BY <1>1 DEF Dispatch, Labels, Steps, Ops
<1>3. PICK micro \in BOOLEAN :
        Become(r, [pc |-> Dispatch(c), op |-> c.op, kid |-> c.kid, spec |-> c.spec,
                   micro |-> micro, known |-> FALSE, snap |-> {}, to |-> "none",
                   status |-> "none", was |-> place,
                   missed |-> IF micro THEN {} ELSE {"container"}])
  BY DEF Start
<1>. DEFINE missed == IF micro THEN {} ELSE {"container"}
            g == [pc |-> Dispatch(c), op |-> c.op, kid |-> c.kid, spec |-> c.spec,
                  micro |-> micro, known |-> FALSE, snap |-> {}, to |-> "none",
                  status |-> "none", was |-> place, missed |-> missed]
<1>4. Become(r, g)
  BY <1>3
<1>5. missed \in SUBSET Sides /\ (~micro => "container" \in missed)
  BY DEF Sides
<1>. HIDE DEF missed
<1>6. /\ g \in Locals /\ g.pc = Dispatch(c) /\ g.op = c.op /\ g.kid = c.kid /\ g.was = place
      /\ g.snap = {} /\ g.micro = micro /\ g.missed = missed
  BY <1>1, <1>2, <1>5 DEF Locals, Call
<1>. HIDE DEF g
<1>7. Ready(g)
  <2>1. g.kid # None => place[g.kid] # "unborn"
    BY <1>6 DEF Start
  <2>. QED BY <1>1, <1>2, <1>5, <1>6, <2>1 DEF Ready, Targeted, Onward
<1>8. Quiet(g)
  BY <1>1, <1>6 DEF Quiet, Dispatch, Ops
<1>9. Good(g)
  BY <1>6, <1>7, <1>8, QuietGood
<1>. QED BY <1>4, <1>6, <1>9, PlainStep DEF Start, Sound, TypeOK

LEMMA OthersSound ==
    ASSUME RoutingConstants, Sound,
           \/ \E r \in Requests : Finish(r)
           \/ \E k \in Kernels : Die(k)
           \/ \E k \in Kernels \cup {None} : Rebind(k)
           \/ UNCHANGED vars
    PROVE  Sound'
<1>1. Moved
  <2>1. ASSUME NEW k \in Kernels, Die(k) PROVE Moved
    BY <2>1, PlaceMoves DEF Die, Sound, Places
  <2>. QED BY <2>1, StillMoves DEF Finish, Rebind, Sound, vars
<1>2. \A q \in Requests : request'[q] \in {request[q], None}
  BY DEF Finish, Die, Rebind, vars, Become, Sound, TypeOK
<1>3. ASSUME NEW q \in Requests, request'[q] # None PROVE Good(request[q])'
  <2>1. PICK h \in Locals : h = request'[q] /\ h = request[q]
    BY <1>2, <1>3 DEF Sound, TypeOK
  <2>2. Good(h)'
    BY <1>1, <1>3, <2>1, GoodStays DEF Sound
  <2>. QED BY <2>1, <2>2 DEF Good, Ready, Listing, Routing, Deleting, Forgetting, RuledOut, Stayed
<1>4. TypeOK'
  BY <1>1 DEF Finish, Die, Rebind, vars, Become, Sound, TypeOK, Moved
<1>5. override' # None => place'[override'] # "unborn"
  <2>1. ASSUME NEW k \in Kernels \cup {None}, Rebind(k) PROVE override' # None => place'[override'] # "unborn"
    BY <2>1 DEF Rebind
  <2>2. override' = override => (override' # None => place'[override'] # "unborn")
    BY <1>1 DEF Sound, TypeOK, Moved, Onward
  <2>. QED BY <2>1, <2>2 DEF Finish, Die, vars
<1>. QED BY <1>3, <1>4, <1>5 DEF Sound

----------------------------------------------------------------------------
(* The theorems.                                                             *)

LEMMA SoundInit == Init => Sound
BY DEF Init, Sound, TypeOK, Places

LEMMA SoundNext == ASSUME RoutingConstants, Sound, [Next]_vars PROVE Sound'
<1>1. ASSUME NEW r \in Requests, Handle(r) PROVE Sound'
  BY <1>1, ChannelsSound, OwnSound, ForgetSound, AskSound, GetSound, DeleteSound,
     ListJegSound, ListContainerSound, PanelListSound, LaunchSound DEF Handle
<1>2. ASSUME NEW r \in Requests, NEW c \in Calls, Start(r, c) PROVE Sound'
  BY <1>2, StartSound
<1>. QED BY <1>1, <1>2, OthersSound DEF Next

\* The invariant holds, whatever requests there are and whatever fails.
THEOREM SoundAlways == Spec => []Sound
<1>1. Sound /\ [Next]_vars => Sound'
  BY SoundNext, RoutingConstants
<1>. QED BY SoundInit, <1>1, PTL DEF Spec

\* The shared maps and the handlers' locals have their types, after any history of
\* requests (proxy.go:594-1166, panel.go:135-355).
THEOREM TypeCorrect == Spec => []TypeOK
<1>1. Sound => TypeOK
  BY DEF Sound
<1>. QED BY <1>1, SoundAlways, PTL

\* A handler that has answered, and what the invariant says of it.
LEMMA RepliedGood ==
    ASSUME Sound, NEW r \in Requests, NEW ops, Replied(r, ops)
    PROVE  request[r] \in Locals /\ Good(request[r]) /\ request[r].pc = "reply" /\ request[r].op \in ops
BY AtGood DEF Replied

\* A channels or GET request for a kernel that stays where it is ends up there if that
\* side answers (proxy.go:594-671, 814-927).
THEOREM RoutedToOwnerHolds == Spec => []RoutedToOwner
<1>1. Sound => RoutedToOwner
  BY RepliedGood DEF RoutedToOwner, Good, Routing, Stays, Stayed
<1>. QED BY <1>1, SoundAlways, PTL

\* A list shows all that ran while it was made on a side that answers
\* (proxy.go:929-1015, panel.go:135-168), ...
THEOREM ListCompleteHolds == Spec => []ListComplete
<1>1. Sound => ListComplete
  BY RepliedGood DEF ListComplete, Good, Listing, Stays, Stayed, Sides
<1>. QED BY <1>1, SoundAlways, PTL

\* ... and nothing that was gone before it began.
THEOREM NothingGoneListedHolds == Spec => []NothingGoneListed
<1>1. Sound => NothingGoneListed
  BY RepliedGood DEF NothingGoneListed, Good, Listing
<1>. QED BY <1>1, SoundAlways, PTL

\* A DELETE answered with success has ended the kernel, unless the container failed it
\* (proxy.go:1017-1134).
THEOREM DeletedIsGoneHolds == Spec => []DeletedIsGone
<1>1. Sound => DeletedIsGone
  BY RepliedGood DEF DeletedIsGone, Good, Deleting
<1>. QED BY <1>1, SoundAlways, PTL

\* The only request that forgets a live kernel of JEG is a channels request JEG failed
\* (proxy.go:614-617, 909-911).
THEOREM LiveKernelStaysKnownHolds == Spec => LiveKernelStaysKnown
<1>. DEFINE Stay == \A k \in knownJEGKernelIDs :
                       place[k] = "jeg" /\ k \notin knownJEGKernelIDs' => Misled(k)
<1>1. ASSUME Sound, [Next]_vars PROVE [Stay]_vars
  <2>. SUFFICES ASSUME NEW k \in knownJEGKernelIDs, place[k] = "jeg", k \notin knownJEGKernelIDs'
                PROVE  Misled(k)
    OBVIOUS
  <2>1. PICK r \in Requests : Forget(r) /\ k = request[r].kid
    BY <1>1 DEF Next, Handle, vars, Start, Finish, Die, Rebind, ChannelsOverride, ChannelsReroute,
                ChannelsKnown, Own, Forget, Ask, GetJeg, GetContainer, DeleteJeg, DeleteContainer,
                ListJeg, ListContainer, PanelList, Launch, LaunchInContainer, PanelLaunch, Contents
  <2>2. At(r, "forget") /\ Forgetting(request[r])
    BY <1>1, <2>1, AtGood DEF Forget, Good
  <2>. QED BY <2>1, <2>2 DEF Forgetting, Misled, At
<1>2. Sound /\ [Next]_vars => [Stay]_vars
  BY <1>1
<1>. QED BY <1>2, SoundAlways, PTL DEF Spec, LiveKernelStaysKnown
=============================================================================
