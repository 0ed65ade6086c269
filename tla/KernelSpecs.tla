---------------------------- MODULE KernelSpecs ----------------------------
(***************************************************************************)
(* The kernelspecs a client is offered: GET /api/kernelspecs of the ghost     *)
(* gateway (jeg/proxy.go) and of the billing panel (jeg/panel.go), with the    *)
(* filters and the merge of jeg/jeg.go.                                       *)
(*                                                                          *)
(* The answer of the gateway is put together from three calls, to JEG for      *)
(* its specs, to JEG for the user's kernels and to the container for its own   *)
(* specs, between which kernels start and stop and any of which may fail.  A   *)
(* spec is a name and where its entry comes from; a kernel runs a spec that    *)
(* the policy may have allowed only before the proxy was last restarted.       *)
(***************************************************************************)
EXTENDS Naturals, Sequences, SequencesExt

CONSTANTS
    Requests,   \* requests that may run at the same time
    Specs,      \* kernel spec names
    Kernels,    \* ids of the user's kernels at JEG
    SpecOf,     \* the spec each kernel runs
    Policies,   \* the AllowedSpecs a deployment may have, <<>> for no policy
    Faults,     \* what may go wrong: see FaultKinds
    None

FaultKinds == {"jeg",        \* a call to JEG fails
               "container",  \* a call to the container fails
               "garbled",    \* an answer is no JSON
               "workspace"}  \* the workspace lookup soft-fails

\* The kernelspecs of a server: the names it offers and the one it calls the default,
\* which it need not offer.
Offer == [default : Specs \cup {None}, specs : SUBSET Specs]

\* Where the entry of a spec comes from: the filter, which adds its price, JEG as it
\* is, or the container.
Sources == {"priced", "raw", "local"}

ASSUME SpecsConstants ==
    /\ SpecOf \in [Kernels -> Specs]
    /\ Policies \subseteq Seq(Specs)
    /\ Faults \subseteq FaultKinds
    /\ None \notin Specs \cup Requests \cup Sources

VARIABLES
    policy,             \* AllowedSpecs of this process
    jeg,                \* the Offer of JEG
    local,              \* the Offer of the container
    running,            \* the kernels JEG runs for the user
    knownJEGKernelIDs,  \* the ids seen at JEG
    request             \* request -> the locals of its handler, or None

vars == <<policy, jeg, local, running, knownJEGKernelIDs, request>>
deployment == <<policy, jeg, local>>

\* What is shown to a client: for each spec the source of its entry, None if not shown.
Envelope == [default : Specs \cup {None}, entry : [Specs -> Sources \cup {None}]]

NoOffer == [default |-> None, specs |-> {}]

Shown(env) == {n \in Specs : env.entry[n] # None}

Labels == {"jegSpecs", "jegKernels", "localSpecs", "panelSpecs", "reply"}

\* The locals of a handler.  offer is what JEG answered.  The last four are ghosts: the
\* kernels that have run all the while, the specs of those that ran at some time, and
\* whether JEG and the container have answered all they were asked.
Locals == [pc : Labels, op : {"gateway", "panel"}, micro : BOOLEAN,
           offer : Offer, env : Envelope, status : {"none", "ok", "failed"},
           since : SUBSET Kernels, seen : SUBSET Specs,
           answered : BOOLEAN, told : BOOLEAN]

----------------------------------------------------------------------------
(* The filters and the merge.                                               *)
(*                                                                          *)
(* LeaksWithoutPolicy, PanelShowsAll, KeepsFilter, MergesDefaultBlindly and     *)
(* RemembersNames are mutants: each stands in for the definition after it to    *)
(* see that a property notices.                                               *)

Allowed == ToSet(policy)

Envelop(default, source, names) ==
    [default |-> default,
     entry |-> [n \in Specs |-> IF n \in names THEN source ELSE None]]

LeaksWithoutPolicy(offer) ==
    IF policy = <<>> THEN Envelop(None, "raw", offer.specs)
    ELSE Envelop(None, "priced", Allowed \cap offer.specs)
\* The gateway shows the allowed specs that JEG offers, none without a policy.  The
\* default is JEG's if it is shown, else the first of the policy if that one is.
filterJEGKernelspecs(offer) ==
    LET kept == Allowed \cap offer.specs
        first == IF policy # <<>> /\ Head(policy) \in kept THEN Head(policy) ELSE None
    IN  Envelop(IF offer.default \in kept THEN offer.default ELSE first, "priced", kept)

PanelShowsAll(offer) == Envelop(offer.default, "raw", offer.specs)
\* The panel shows everything without a policy, and takes for the default the first of
\* the policy that is shown.
filterJEGKernelspecsForPanel(offer) ==
    LET kept == Allowed \cap offer.specs
        shown == {i \in DOMAIN policy : policy[i] \in kept}
        first == IF shown = {} THEN None ELSE policy[Min(shown)]
    IN  IF policy = <<>> THEN Envelop(offer.default, "raw", offer.specs)
        ELSE Envelop(IF offer.default \in kept THEN offer.default ELSE first, "priced", kept)

Offered(offer, ks) == offer.specs \cap {SpecOf[k] : k \in ks}

KeepsFilter(env, offer, ks) == env
\* The specs of the listed kernels are added as JEG has them, if they are not there.
AddRunning(env, offer, ks) ==
    [env EXCEPT !.entry = [n \in Specs |->
        IF n \in Offered(offer, ks) \ Shown(env) THEN "raw" ELSE env.entry[n]]]

\* What a merge of the container's offer into env may give: local entries win; the
\* default is the container's if anybody offers that, else any local spec, for it comes
\* from a map without order.
Overlaid(offer, env) == [n \in Specs |-> IF n \in offer.specs THEN "local" ELSE env.entry[n]]

MergesDefaultBlindly(offer, env) ==
    {[default |-> offer.default, entry |-> Overlaid(offer, env)]}
mergeKernelspecs(offer, env) ==
    LET merged == offer.specs \cup Shown(env)
        default == IF offer.default \in merged THEN {offer.default}
                   ELSE IF offer.specs = {} THEN {None} ELSE offer.specs
    IN  {[default |-> d, entry |-> Overlaid(offer, env)] : d \in default}

RemembersNames(ks) == knownJEGKernelIDs' = knownJEGKernelIDs \cup {SpecOf[k] : k \in ks}
remembered(ks) == knownJEGKernelIDs' = knownJEGKernelIDs \cup ks

----------------------------------------------------------------------------
(* The handlers.                                                            *)

At(r, label) == request[r] # None /\ request[r].pc = label

Become(r, h) == request' = [request EXCEPT ![r] = h]

Goto(h, label) == [h EXCEPT !.pc = label]

Answer(h, status, env) == [h EXCEPT !.pc = "reply", !.status = status, !.env = env]

Nothing == Envelop(None, None, {})

\* A request for the kernelspecs of the gateway or of the panel arrives.
Start(r, op) ==
    /\ request[r] = None
    /\ \E micro \in {TRUE} \cup (IF "workspace" \in Faults THEN {FALSE} ELSE {}) :
         Become(r, [pc |-> IF op = "panel" THEN "panelSpecs" ELSE "jegSpecs",
                    op |-> op, micro |-> micro, offer |-> NoOffer, env |-> Nothing,
                    status |-> "none", since |-> running, seen |-> {SpecOf[k] : k \in running},
                    answered |-> TRUE, told |-> TRUE])
    /\ UNCHANGED <<deployment, running, knownJEGKernelIDs>>

\* JEG's specs, filtered; if the call fails there are none and the kernels are not listed.
FetchJegSpecs(r) ==
    /\ At(r, "jegSpecs")
    /\ LET h == request[r]
           filtered(offer) == [h EXCEPT !.offer = offer, !.env = filterJEGKernelspecs(offer)]
       IN  \/ Become(r, Goto(filtered(jeg), "jegKernels"))
           \/ /\ "garbled" \in Faults
              /\ Become(r, Goto([filtered(NoOffer) EXCEPT !.answered = FALSE], "jegKernels"))
           \/ /\ "jeg" \in Faults
              /\ Become(r, Goto([h EXCEPT !.answered = FALSE], "localSpecs"))
    /\ UNCHANGED <<deployment, running, knownJEGKernelIDs>>

\* listJEGKernels: the ids are remembered and the specs of the kernels added.
ListJegKernels(r) ==
    /\ At(r, "jegKernels")
    /\ LET h == request[r]
       IN  \/ /\ remembered(running)
              /\ Become(r, Goto([h EXCEPT !.env = AddRunning(h.env, h.offer, running)],
                                "localSpecs"))
           \/ /\ "jeg" \in Faults
              /\ Become(r, Goto([h EXCEPT !.answered = FALSE], "localSpecs"))
              /\ UNCHANGED knownJEGKernelIDs
    /\ UNCHANGED <<deployment, running>>

\* fetchLocalKernelspecs: what JEG gave is the answer if the container gives none.
FetchLocalSpecs(r) ==
    /\ At(r, "localSpecs")
    /\ LET h == request[r]
           untold == [h EXCEPT !.told = FALSE]
       IN  \/ /\ h.micro
              /\ \E env \in mergeKernelspecs(local, h.env) : Become(r, Answer(h, "ok", env))
           \/ /\ h.micro /\ "garbled" \in Faults
              /\ \E env \in mergeKernelspecs(NoOffer, h.env) : Become(r, Answer(untold, "ok", env))
           \/ /\ ~h.micro \/ "container" \in Faults
              /\ Become(r, Answer(untold, "ok", h.env))
    /\ UNCHANGED <<deployment, running, knownJEGKernelIDs>>

\* The panel's GET: JEG's specs or an error.
PanelSpecs(r) ==
    /\ At(r, "panelSpecs")
    /\ LET h == request[r]
       IN  \/ Become(r, Answer(h, "ok", filterJEGKernelspecsForPanel(jeg)))
           \/ /\ "garbled" \in Faults
              /\ Become(r, Answer([h EXCEPT !.answered = FALSE], "ok", Nothing))
           \/ /\ "jeg" \in Faults
              /\ Become(r, Answer([h EXCEPT !.answered = FALSE], "failed", Nothing))
    /\ UNCHANGED <<deployment, running, knownJEGKernelIDs>>

Finish(r) ==
    /\ At(r, "reply")
    /\ Become(r, None)
    /\ UNCHANGED <<deployment, running, knownJEGKernelIDs>>

----------------------------------------------------------------------------
(* Around them.                                                             *)

\* The panel's billing gate, which KernelRouting models as a handler of its own.
Launchable(n) == policy = <<>> \/ n \in Allowed

Observe(ks) ==
    request' = [r \in Requests |->
        IF request[r] = None THEN None
        ELSE [request[r] EXCEPT !.since = @ \cap ks, !.seen = @ \cup {SpecOf[k] : k \in ks}]]

\* Another request of the panel launches a kernel, ...
Launch(k) ==
    /\ k \notin running
    /\ SpecOf[k] \in jeg.specs /\ Launchable(SpecOf[k])
    /\ running' = running \cup {k}
    /\ Observe(running')
    /\ UNCHANGED <<deployment, knownJEGKernelIDs>>

\* ... and one stops.
Die(k) ==
    /\ k \in running
    /\ running' = running \ {k}
    /\ Observe(running')
    /\ UNCHANGED <<deployment, knownJEGKernelIDs>>

\* Kernels of an earlier policy may be running when the process starts.
Init ==
    /\ policy \in Policies /\ jeg \in Offer /\ local \in Offer
    /\ running \in SUBSET Kernels
    /\ knownJEGKernelIDs = {}
    /\ request = [r \in Requests |-> None]

Handle(r) ==
    \/ FetchJegSpecs(r) \/ ListJegKernels(r) \/ FetchLocalSpecs(r)
    \/ PanelSpecs(r) \/ Finish(r)

Next ==
    \/ \E r \in Requests : Handle(r) \/ \E op \in {"gateway", "panel"} : Start(r, op)
    \/ \E k \in Kernels : Launch(k) \/ Die(k)

Spec == Init /\ [][Next]_vars

----------------------------------------------------------------------------
TypeOK ==
    /\ policy \in Policies /\ jeg \in Offer /\ local \in Offer
    /\ running \subseteq Kernels
    /\ knownJEGKernelIDs \subseteq Kernels
    /\ request \in [Requests -> Locals \cup {None}]

Replied(r, op) == At(r, "reply") /\ request[r].op = op /\ request[r].status = "ok"

ShownTo(r) == Shown(request[r].env)

\* The default of the gateway is one of the specs shown, or none, whatever failed; and
\* it is the container's own default if the container offers that (jeg.go:523, 608).
DefaultShown ==
    \A r \in Requests : Replied(r, "gateway") =>
        LET default == request[r].env.default
        IN  /\ default \in ShownTo(r) \cup {None}
            /\ request[r].told /\ local.default \in local.specs => default = local.default

\* A kernel that runs all the while has its spec shown, as long as JEG offers that and
\* answers, although the policy does not allow it (proxy.go:690-739).
RunningShown ==
    \A r \in Requests : Replied(r, "gateway") /\ request[r].answered =>
        \A k \in request[r].since : SpecOf[k] \in jeg.specs => SpecOf[k] \in ShownTo(r)

\* Whatever fails, a spec of JEG is shown by the gateway only if the policy allows it or
\* a kernel ran it while the answer was made, and with a price if it is allowed
\* (jeg.go:474-477, proxy.go:723).
ShownBilled ==
    \A r \in Requests : Replied(r, "gateway") =>
        \A n \in ShownTo(r) :
            CASE request[r].env.entry[n] = "priced" -> n \in Allowed
              [] request[r].env.entry[n] = "raw" -> n \in request[r].seen \ Allowed
              [] OTHER -> n \in local.specs

\* The panel offers nothing that its own billing gate refuses, and a default whenever it
\* offers something under a policy (jeg.go:643-716, panel.go:209-217).
PanelOffersLaunchable ==
    \A r \in Requests : Replied(r, "panel") =>
        /\ \A n \in ShownTo(r) : Launchable(n)
        /\ policy # <<>> /\ ShownTo(r) # {} => request[r].env.default \in ShownTo(r)
=============================================================================
