---------------------------- MODULE KernelRouting ----------------------------
(***************************************************************************)
(* The kernel routes of the ghost gateway and of the billing panel            *)
(* (jeg/proxy.go, jeg/panel.go) for one user: whether a kernel lives at JEG    *)
(* or in the user's micro-container is found out anew by every request, from    *)
(* the ids known, from JEG's list and by asking the container, while kernels    *)
(* are launched, die and are deleted.                                         *)
(*                                                                          *)
(* A handler takes one step per access to a shared map and per call to JEG    *)
(* or to the container.  Kernel ids that are no UUIDs and the bodies of         *)
(* answers are left out; KernelSpecs models kernelspecs.  The session that a    *)
(* channels request names is one whose binding JegSessions models; here it      *)
(* changes at will.                                                            *)
(***************************************************************************)

CONSTANTS
    Requests,      \* handler goroutines that may run at the same time
    Kernels,       \* kernel ids
    Specs,         \* kernel spec names
    SpecOf,        \* the spec each kernel runs
    LocalSpecs,    \* the specs the container offers
    AllowedSpecs,  \* the panel's policy, {} if there is none
    Calls,         \* the requests clients may send
    Faults,        \* what may go wrong: see FaultKinds
    None

Ops == {"channels", "get", "delete", "list", "launch", "contents",
        "panelList", "panelLaunch", "panelDelete"}

FaultKinds == {"jeg",        \* a call to JEG fails or times out
               "container",  \* a call to the container fails
               "workspace",  \* the workspace lookup soft-fails
               "through"}    \* the container may answer for the kernels of JEG

\* A client's request; bySession says whether a channels request names its session.
Call == [op : Ops, kid : Kernels \cup {None}, spec : Specs \cup {None}, bySession : BOOLEAN]

ASSUME RoutingConstants ==
    /\ SpecOf \in [Kernels -> Specs]
    /\ LocalSpecs \subseteq Specs /\ AllowedSpecs \subseteq Specs
    /\ Calls \subseteq Call
    /\ \A c \in Calls : c.op \in {"channels", "get", "delete", "panelDelete"} => c.kid # None
    /\ Faults \subseteq FaultKinds
    /\ None \notin Kernels \cup Specs

VARIABLES
    knownJEGKernelIDs,  \* kernel ids seen at JEG and not yet forgotten
    override,           \* the kernel the session is bound to, or None
    place,              \* kernel -> where it runs
    request             \* request -> the locals of its handler, or None

vars == <<knownJEGKernelIDs, override, place, request>>

Places == {"unborn", "jeg", "container", "gone"}

Labels == {"override", "reroute", "known", "own", "forget", "ask", "getJeg", "getContainer",
           "getFallback", "deleteJeg", "deleteContainer", "listJeg", "listContainer",
           "launch", "launchInContainer", "contents", "panelList", "panelLaunch", "reply"}

Sides == {"jeg", "container"}

\* The locals of a handler.  Two are ghosts: was, where kernels were when it began, and
\* missed, the sides that failed a call of this handler.
Locals == [pc : Labels, op : Ops, kid : Kernels \cup {None}, spec : Specs \cup {None},
           micro : BOOLEAN, known : BOOLEAN, snap : SUBSET Kernels,
           to : Sides \cup {"none"},
           status : {"none", "ok", "missing", "failed", "forbidden"},
           was : [Kernels -> Places], missed : SUBSET Sides]

----------------------------------------------------------------------------
(* The world outside.                                                       *)
(*                                                                          *)
(* DeletesAtJeg, ReroutesAlways, ContainerFirst, ForgetsAnyhow, ListsKnown and  *)
(* ListsLast are mutants: each stands in for the definition after it to see     *)
(* that a property notices.                                                   *)

Running(where) == {k \in Kernels : place[k] = where}

\* The possible results of listing the user's kernels at JEG.
listJEGKernels == {Running("jeg")} \cup (IF "jeg" \in Faults THEN {{}} ELSE {})

\* Whether the container is seen to have a kernel: its own, or through its gateway
\* client one of JEG's.
containerHasKernel(k) ==
    {place[k] = "container"}
        \cup (IF "through" \in Faults /\ place[k] = "jeg" THEN {TRUE} ELSE {})
        \cup (IF "container" \in Faults THEN {FALSE} ELSE {})

At(r, label) == request[r] # None /\ request[r].pc = label

Become(r, h) == request' = [request EXCEPT ![r] = h]

Goto(h, label) == [h EXCEPT !.pc = label]

Answer(h, to, status) == [h EXCEPT !.pc = "reply", !.to = to, !.status = status]

\* A side failed a call of the handler, if it did.
Missed(h, side, failed) == [h EXCEPT !.missed = IF failed THEN @ \cup {side} ELSE @]

DeletesAtJeg(c) ==
    CASE c.op = "channels" -> IF c.bySession THEN "override" ELSE "known"
      [] c.op = "get" -> "own"
      [] c.op = "list" -> "listJeg"
      [] c.op \in {"delete", "panelDelete"} -> "deleteJeg"
      [] OTHER -> c.op
Dispatch(c) ==
    CASE c.op = "channels" -> IF c.bySession THEN "override" ELSE "known"
      [] c.op \in {"get", "delete"} -> "own"
      [] c.op = "list" -> "listJeg"
      [] c.op = "panelDelete" -> "deleteJeg"
      [] OTHER -> c.op

\* A request arrives.  Ids are unguessable, so clients ask for kernels there are or were.
Start(r, c) ==
    /\ request[r] = None
    /\ c.kid # None => place[c.kid] # "unborn"
    /\ \E micro \in {TRUE} \cup (IF "workspace" \in Faults THEN {FALSE} ELSE {}) :
         Become(r, [pc |-> Dispatch(c), op |-> c.op, kid |-> c.kid, spec |-> c.spec,
                    micro |-> micro, known |-> FALSE, snap |-> {}, to |-> "none",
                    status |-> "none", was |-> place,
                    missed |-> IF micro THEN {} ELSE {"container"}])
    /\ UNCHANGED <<knownJEGKernelIDs, override, place>>

Finish(r) ==
    /\ At(r, "reply")
    /\ Become(r, None)
    /\ UNCHANGED <<knownJEGKernelIDs, override, place>>

----------------------------------------------------------------------------
(* The WebSocket of /api/kernels/{id}/channels.                              *)

ReroutesAlways(r) ==
    /\ At(r, "override")
    /\ Become(r, IF override = request[r].kid THEN Goto(request[r], "known")
                 ELSE Goto([request[r] EXCEPT !.kid = override], "reroute"))
    /\ UNCHANGED <<knownJEGKernelIDs, override, place>>

\* The session's binding replaces the kernel id of the path ...
ChannelsOverride(r) ==
    /\ At(r, "override")
    /\ Become(r, IF override \in {None, request[r].kid} THEN Goto(request[r], "known")
                 ELSE Goto([request[r] EXCEPT !.kid = override], "reroute"))
    /\ UNCHANGED <<knownJEGKernelIDs, override, place>>

\* ... and is remembered.
ChannelsReroute(r) ==
    /\ At(r, "reroute")
    /\ knownJEGKernelIDs' = knownJEGKernelIDs \cup {request[r].kid}
    /\ Become(r, Goto(request[r], "known"))
    /\ UNCHANGED <<override, place>>

ChannelsKnown(r) ==
    /\ At(r, "known")
    /\ Become(r, Goto([request[r] EXCEPT !.known = request[r].kid \in knownJEGKernelIDs], "own"))
    /\ UNCHANGED <<knownJEGKernelIDs, override, place>>

\* What follows once a handler knows whether JEG owns the kernel.
ContainerFirst(h, owns) ==
    CASE h.op = "channels" -> IF h.known /\ ~owns THEN Goto(h, "forget") ELSE Goto(h, "ask")
      [] h.op = "get" -> Goto(h, IF owns THEN "getJeg" ELSE "ask")
      [] OTHER -> Goto(h, IF owns THEN "deleteJeg" ELSE "ask")
Owned(h, owns) ==
    CASE h.op = "channels" -> IF owns THEN Answer(h, "jeg", "ok")
                              ELSE Goto(h, IF h.known THEN "forget" ELSE "ask")
      [] h.op = "get" -> Goto(h, IF owns THEN "getJeg" ELSE "ask")
      [] OTHER -> Goto(h, IF owns THEN "deleteJeg" ELSE "ask")

\* jegHasKernel: all the kernels JEG lists are remembered.
Own(r) ==
    /\ At(r, "own")
    /\ \E ks \in listJEGKernels :
         /\ knownJEGKernelIDs' = knownJEGKernelIDs \cup ks
         /\ Become(r, Owned(Missed(request[r], "jeg", ks # Running("jeg")), request[r].kid \in ks))
    /\ UNCHANGED <<override, place>>

\* A channels request forgets a known id that JEG does not list, a GET one that JEG
\* answered 404 for.
Forget(r) ==
    /\ At(r, "forget")
    /\ knownJEGKernelIDs' = knownJEGKernelIDs \ {request[r].kid}
    /\ Become(r, IF request[r].op = "get" THEN Answer(request[r], "jeg", "missing")
                 ELSE Goto(request[r], "ask"))
    /\ UNCHANGED <<override, place>>

\* Ask the container whether it has the kernel; else it is taken to be at JEG.
Ask(r) ==
    /\ At(r, "ask")
    /\ LET h == request[r]
       IN  \/ /\ h.micro /\ TRUE \in containerHasKernel(h.kid)
              /\ Become(r, CASE h.op = "channels" -> Answer(h, "container", "ok")
                             [] h.op = "get" -> Goto(h, "getContainer")
                             [] OTHER -> Goto(h, "deleteContainer"))
           \/ LET g == Missed(h, "container", place[h.kid] = "container")
              IN  /\ ~h.micro \/ FALSE \in containerHasKernel(h.kid)
                  /\ Become(r, CASE h.op = "channels" -> Answer(g, "jeg", "ok")
                                 [] h.op = "get" -> Goto(g, "getFallback")
                                 [] OTHER -> Goto(g, "deleteJeg"))
    /\ UNCHANGED <<knownJEGKernelIDs, override, place>>

----------------------------------------------------------------------------
(* GET and DELETE /api/kernels/{id}, and the panel's DELETE.                 *)

\* The condition on the status is missing.
ForgetsAnyhow(r) ==
    /\ At(r, "getJeg") \/ At(r, "getFallback")
    /\ Become(r, IF request[r].pc = "getFallback" THEN Goto(request[r], "forget")
                 ELSE Answer(request[r], "jeg", IF place[request[r].kid] = "jeg" THEN "ok" ELSE "missing"))
    /\ UNCHANGED <<knownJEGKernelIDs, override, place>>

\* JEG is asked for the kernel it was seen to own, or that the container has not.
GetJeg(r) ==
    /\ At(r, "getJeg") \/ At(r, "getFallback")
    /\ LET h == request[r]
       IN  \/ place[h.kid] = "jeg" /\ Become(r, Answer(h, "jeg", "ok"))
           \/ /\ place[h.kid] # "jeg"
              /\ Become(r, IF h.pc = "getFallback" THEN Goto(h, "forget")
                           ELSE Answer(h, "jeg", "missing"))
           \/ "jeg" \in Faults /\ Become(r, Answer(Missed(h, "jeg", TRUE), "jeg", "failed"))
    /\ UNCHANGED <<knownJEGKernelIDs, override, place>>

GetContainer(r) ==
    /\ At(r, "getContainer")
    /\ LET h == request[r]
       IN  \/ /\ TRUE \in containerHasKernel(h.kid)
              /\ Become(r, Answer(h, "container", "ok"))
           \/ LET g == Missed(h, "container", place[h.kid] = "container")
              IN  /\ FALSE \in containerHasKernel(h.kid)
                  /\ Become(r, Answer(g, "container", "missing"))
    /\ UNCHANGED <<knownJEGKernelIDs, override, place>>

\* JEG's 404 is a 204 to the client; a failed call may have had its effect.
DeleteJeg(r) ==
    /\ At(r, "deleteJeg")
    /\ LET h == request[r]
           deleted == IF place[h.kid] = "jeg" THEN [place EXCEPT ![h.kid] = "gone"] ELSE place
       IN  \/ place' = deleted /\ Become(r, Answer(h, "jeg", "ok"))
           \/ /\ "jeg" \in Faults
              /\ place' \in {place, deleted}
              /\ Become(r, Answer(h, "jeg", "failed"))
    /\ UNCHANGED <<knownJEGKernelIDs, override>>

DeleteContainer(r) ==
    /\ At(r, "deleteContainer")
    /\ LET h == request[r]
       IN  \/ /\ TRUE \in containerHasKernel(h.kid)
              /\ place' = [place EXCEPT ![h.kid] = "gone"]
              /\ Become(r, Answer(h, "container", "ok"))
           \/ /\ FALSE \in containerHasKernel(h.kid)
              /\ Become(r, Answer(h, "container", "missing"))
              /\ UNCHANGED place
    /\ UNCHANGED <<knownJEGKernelIDs, override>>

----------------------------------------------------------------------------
(* GET /api/kernels: JEG's kernels, then the container's that are not JEG's;    *)
(* and the panel's list.                                                       *)

ListsKnown(r) ==
    /\ At(r, "listJeg")
    /\ \E ks \in listJEGKernels :
         /\ knownJEGKernelIDs' = knownJEGKernelIDs \cup ks
         /\ LET h == Missed(request[r], "jeg", ks # Running("jeg"))
            IN  Become(r, Goto([h EXCEPT !.snap = knownJEGKernelIDs \cup ks], "listContainer"))
    /\ UNCHANGED <<override, place>>

ListJeg(r) ==
    /\ At(r, "listJeg")
    /\ \E ks \in listJEGKernels :
         /\ knownJEGKernelIDs' = knownJEGKernelIDs \cup ks
         /\ LET h == Missed(request[r], "jeg", ks # Running("jeg"))
            IN  Become(r, Goto([h EXCEPT !.snap = ks], "listContainer"))
    /\ UNCHANGED <<override, place>>

\* The container's list, JEG's kernels in it if its gateway client passes them on.
Listed == {Running("container")}
              \cup (IF "through" \in Faults THEN {Running("container") \cup Running("jeg")} ELSE {})
              \cup (IF "container" \in Faults THEN {{}} ELSE {})

ListsLast(h, ks) == [h EXCEPT !.snap = IF ks = {} THEN @ ELSE ks]
Merged(h, ks) == [h EXCEPT !.snap = @ \cup ks]

ListContainer(r) ==
    /\ At(r, "listContainer")
    /\ \E ks \in (IF request[r].micro THEN Listed ELSE {{}}) :
         LET h == Missed(request[r], "container", ~(Running("container") \subseteq ks))
         IN  Become(r, Answer(Merged(h, ks), "none", "ok"))
    /\ UNCHANGED <<knownJEGKernelIDs, override, place>>

\* The panel shows what JEG lists, and remembers none of it.
PanelList(r) ==
    /\ At(r, "panelList")
    /\ \/ Become(r, Answer([request[r] EXCEPT !.snap = Running("jeg")], "jeg", "ok"))
       \/ /\ "jeg" \in Faults
          /\ Become(r, Answer(Missed(request[r], "jeg", TRUE), "jeg", "failed"))
    /\ UNCHANGED <<knownJEGKernelIDs, override, place>>

----------------------------------------------------------------------------
(* POST /api/kernels of the gateway and of the panel.                        *)

\* A local spec goes to the container; for any other the billing gate is shut.
Launch(r) ==
    /\ At(r, "launch")
    /\ LET h == request[r]
       IN  \/ /\ h.micro /\ h.spec \in LocalSpecs
              /\ Become(r, Goto(h, "launchInContainer"))
           \/ /\ ~h.micro \/ h.spec \notin LocalSpecs \/ "container" \in Faults
              /\ Become(r, Answer(h, "none", "forbidden"))
    /\ UNCHANGED <<knownJEGKernelIDs, override, place>>

\* A new kernel runs the spec there; it fails too when the model has no id left.
LaunchAt(r, where, failing) ==
    LET h == request[r]
        new == {k \in Running("unborn") : SpecOf[k] = h.spec}
    IN  \/ \E k \in new :
             /\ place' = [place EXCEPT ![k] = where]
             /\ Become(r, Answer(h, where, "ok"))
        \/ /\ new = {} \/ failing \in Faults
           /\ Become(r, Answer(h, where, "failed"))
           /\ UNCHANGED place

LaunchInContainer(r) ==
    /\ At(r, "launchInContainer")
    /\ LaunchAt(r, "container", "container")
    /\ UNCHANGED <<knownJEGKernelIDs, override>>

\* The panel launches what its policy allows, or anything if there is no policy.
PanelLaunch(r) ==
    /\ At(r, "panelLaunch")
    /\ LET h == request[r]
       IN  IF h.spec # None /\ (AllowedSpecs = {} \/ h.spec \in AllowedSpecs)
           THEN LaunchAt(r, "jeg", "jeg")
           ELSE Become(r, Answer(h, "none", "forbidden")) /\ UNCHANGED place
    /\ UNCHANGED <<knownJEGKernelIDs, override>>

\* Files and kernelspec resources are the container's, if there is one.
Contents(r) ==
    /\ At(r, "contents")
    /\ LET h == request[r]
       IN  \/ h.micro /\ Become(r, Answer(h, "container", "ok"))
           \/ /\ ~h.micro \/ "container" \in Faults
              /\ Become(r, Answer(Missed(h, "container", TRUE), "none", "failed"))
    /\ UNCHANGED <<knownJEGKernelIDs, override, place>>

----------------------------------------------------------------------------
\* A kernel is culled, crashes or is shut down elsewhere.
Die(k) ==
    /\ place[k] \in {"jeg", "container"}
    /\ place' = [place EXCEPT ![k] = "gone"]
    /\ UNCHANGED <<knownJEGKernelIDs, override, request>>

\* Other requests bind the session to a kernel of JEG, or release it.
Rebind(k) ==
    /\ k # override
    /\ k # None => place[k] = "jeg"
    /\ override' = k
    /\ UNCHANGED <<knownJEGKernelIDs, place, request>>

Init ==
    /\ knownJEGKernelIDs = {}
    /\ override = None
    /\ place = [k \in Kernels |-> "unborn"]
    /\ request = [r \in Requests |-> None]

Handle(r) ==
    \/ ChannelsOverride(r) \/ ChannelsReroute(r) \/ ChannelsKnown(r)
    \/ Own(r) \/ Forget(r) \/ Ask(r)
    \/ GetJeg(r) \/ GetContainer(r) \/ DeleteJeg(r) \/ DeleteContainer(r)
    \/ ListJeg(r) \/ ListContainer(r) \/ PanelList(r)
    \/ Launch(r) \/ LaunchInContainer(r) \/ PanelLaunch(r) \/ Contents(r)

Next ==
    \/ \E r \in Requests : Handle(r) \/ Finish(r) \/ \E c \in Calls : Start(r, c)
    \/ \E k \in Kernels : Die(k)
    \/ \E k \in Kernels \cup {None} : Rebind(k)

Spec == Init /\ [][Next]_vars

----------------------------------------------------------------------------
TypeOK ==
    /\ knownJEGKernelIDs \subseteq Kernels
    /\ override \in Kernels \cup {None}
    /\ place \in [Kernels -> Places]
    /\ request \in [Requests -> Locals \cup {None}]

Replied(r, ops) == At(r, "reply") /\ request[r].op \in ops

\* Where a kernel has been since the request began.
Stays(r, k, where) == request[r].was[k] = where /\ place[k] = where

\* A channels or GET request for a kernel that stays where it is ends up there if that
\* side answers, whatever the other one does, although no request remembers where
\* kernels are and the container may answer for JEG's (proxy.go:594-671, 814-927).
RoutedToOwner ==
    \A r \in Requests : \A where \in Sides :
        Replied(r, {"channels", "get"}) /\ Stays(r, request[r].kid, where)
            /\ where \notin request[r].missed =>
                request[r].to = where /\ request[r].status = "ok"

\* A list shows every kernel that ran, while it was made, on a side that answers
\* (proxy.go:929-1015, panel.go:135-168), ...
ListComplete ==
    \A r \in Requests : \A where \in Sides :
        /\ Replied(r, {"list", "panelList"}) /\ where \notin request[r].missed
        /\ where = "jeg" \/ request[r].op = "list"
        => \A k \in Kernels : Stays(r, k, where) => k \in request[r].snap

\* ... and whatever fails none that was gone before.
NothingGoneListed ==
    \A r \in Requests : Replied(r, {"list", "panelList"}) =>
        \A k \in request[r].snap : request[r].was[k] # "gone"

\* A kernel whose DELETE was answered with success is gone, wherever it runs and with
\* JEG failing, if the container answers, although JEG's 404 is a success to the client
\* as well (proxy.go:1017-1134).
DeletedIsGone ==
    \A r \in Requests :
        Replied(r, {"delete"}) /\ request[r].status = "ok"
            /\ "container" \notin request[r].missed => place[request[r].kid] = "gone"

\* No request forgets the id of a kernel that runs at JEG, while others list, launch and
\* delete kernels, but a channels request that JEG failed (proxy.go:614-617, 909-911).
Misled(k) == \E r \in Requests : /\ At(r, "forget") /\ request[r].kid = k
                                 /\ request[r].op = "channels" /\ "jeg" \in request[r].missed
LiveKernelStaysKnown ==
    [][\A k \in knownJEGKernelIDs :
          place[k] = "jeg" /\ k \notin knownJEGKernelIDs' => Misled(k)]_vars
=============================================================================
