------------------------- MODULE KernelSpecs_proofs -------------------------
(***************************************************************************)
(* Proofs about KernelSpecs, for any specs, kernels, policies and offers of     *)
(* JEG and of the container, and any number of requests.  The invariant says    *)
(* where each entry a handler has put together so far comes from, and that no   *)
(* kernel it should show is lost on the way.                                    *)
(***************************************************************************)
EXTENDS KernelSpecs, WellFoundedInduction, TLAPS

\* Every entry has its reason, ...
Sourced(h) ==
    \A n \in Specs :
        /\ h.env.entry[n] = "priced" => n \in Allowed
        /\ h.env.entry[n] = "raw" =>
              IF h.op = "gateway" THEN n \in h.seen \ Allowed ELSE policy = <<>>
        /\ h.env.entry[n] = "local" => h.op = "gateway" /\ n \in local.specs

\* ... the default is an entry, ...
Defaulted(h) ==
    /\ h.op = "gateway" => h.env.default \in Shown(h.env) \cup {None}
    /\ h.op = "gateway" /\ h.pc = "reply" /\ h.told /\ local.default \in local.specs =>
          h.env.default = local.default
    /\ h.op = "panel" /\ policy # <<>> /\ Shown(h.env) # {} => h.env.default \in Shown(h.env)

\* ... the kernels that are there are noted, ...
Noted(h) ==
    /\ h.since \subseteq running
    /\ \A k \in running : SpecOf[k] \in h.seen

\* ... and their specs shown.
Showing(h) ==
    /\ h.pc = "jegKernels" =>
          /\ h.offer.specs \subseteq jeg.specs /\ (h.answered => h.offer = jeg)
          /\ Shown(h.env) = Allowed \cap h.offer.specs
    /\ h.pc \in {"localSpecs", "reply"} /\ h.op = "gateway" /\ h.answered =>
          \A k \in h.since : SpecOf[k] \in jeg.specs => SpecOf[k] \in Shown(h.env)

OnTheWay(h) == h.pc \in (IF h.op = "panel" THEN {"panelSpecs", "reply"}
                         ELSE {"jegSpecs", "jegKernels", "localSpecs", "reply"})

Good(h) == Sourced(h) /\ Defaulted(h) /\ Noted(h) /\ Showing(h) /\ OnTheWay(h)

Inv == TypeOK /\ \A r \in Requests : request[r] # None => Good(request[r])

----------------------------------------------------------------------------
(* What the filters and the merge return.                                    *)

\* A set of numbers has a least one.
LEMMA LeastNumber ==
    ASSUME NEW T, T \subseteq Nat, T # {}
    PROVE  Min(T) \in T
<1>. DEFINE Less == {ss \in Nat \X Nat : ss[1] < ss[2]}
<1>1. IsWellFoundedOn(Less, Nat)
  BY NatLessThanWellFounded, Zenon DEF OpToRel
<1>. HIDE DEF Less
<1>2. PICK x \in T : \A y \in T : ~ (<<y, x>> \in Less)
  BY <1>1, WFMin
<1>3. \A y \in T : ~ (y < x)
  BY <1>2 DEF Less
<1>4. \E m \in T : \A y \in T : m =< y
  BY <1>3
<1>. QED BY <1>4, Zenon DEF Min

LEMMA NoneApart == None \notin Specs /\ None \notin Sources
BY SpecsConstants

LEMMA EnvelopReturns ==
    ASSUME NEW default \in Specs \cup {None}, NEW source \in Sources \cup {None}, NEW names
    PROVE  LET env == Envelop(default, source, names)
           IN  /\ env \in Envelope /\ env.default = default
               /\ \A n \in Specs : env.entry[n] = IF n \in names THEN source ELSE None
BY DEF Envelop, Envelope

LEMMA FilterReturns ==
    ASSUME TypeOK, NEW offer \in Offer
    PROVE  LET env == filterJEGKernelspecs(offer)
           IN  /\ env \in Envelope
               /\ \A n \in Specs :
                     env.entry[n] = IF n \in Allowed \cap offer.specs THEN "priced" ELSE None
               /\ Shown(env) = Allowed \cap offer.specs
               /\ env.default \in Shown(env) \cup {None}
<1>. DEFINE kept == Allowed \cap offer.specs
            first == IF policy # <<>> /\ Head(policy) \in kept THEN Head(policy) ELSE None
            default == IF offer.default \in kept THEN offer.default ELSE first
            env == Envelop(default, "priced", kept)
<1>1. kept \subseteq Specs
  BY DEF Offer
<1>2. default \in kept \cup {None}
  OBVIOUS
<1>. HIDE DEF default
<1>3. /\ env \in Envelope /\ env.default = default
      /\ \A n \in Specs : env.entry[n] = IF n \in kept THEN "priced" ELSE None
  BY <1>1, <1>2, EnvelopReturns DEF Sources
<1>4. Shown(env) = kept
  BY <1>1, <1>3, NoneApart DEF Shown, Sources
<1>5. filterJEGKernelspecs(offer) = env
  BY DEF filterJEGKernelspecs, default
<1>. QED BY <1>2, <1>3, <1>4, <1>5

LEMMA PanelFilterReturns ==
    ASSUME TypeOK, NEW offer \in Offer
    PROVE  LET env == filterJEGKernelspecsForPanel(offer)
           IN  /\ env \in Envelope
               /\ \A n \in Specs :
                     /\ env.entry[n] = "priced" => n \in Allowed
                     /\ env.entry[n] = "raw" => policy = <<>>
                     /\ env.entry[n] # "local"
               /\ policy # <<>> /\ Shown(env) # {} => env.default \in Shown(env)
<1>. DEFINE kept == Allowed \cap offer.specs
            shown == {i \in DOMAIN policy : policy[i] \in kept}
            first == IF shown = {} THEN None ELSE policy[Min(shown)]
            default == IF offer.default \in kept THEN offer.default ELSE first
<1>1. kept \subseteq Specs /\ offer.default \in Specs \cup {None} /\ offer.specs \subseteq Specs
  BY DEF Offer
<1>2. policy \in Seq(Specs)
  BY SpecsConstants DEF TypeOK
<1>3. CASE policy = <<>>
  <2>. DEFINE env == Envelop(offer.default, "raw", offer.specs)
  <2>1. /\ env \in Envelope
        /\ \A n \in Specs : env.entry[n] = IF n \in offer.specs THEN "raw" ELSE None
    BY <1>1, EnvelopReturns DEF Sources
  <2>2. filterJEGKernelspecsForPanel(offer) = env
    BY <1>3 DEF filterJEGKernelspecsForPanel
  <2>. HIDE DEF env
  <2>. QED BY <1>3, <2>1, <2>2, NoneApart DEF Sources
<1>4. CASE policy # <<>>
  <2>. DEFINE env == Envelop(default, "priced", kept)
  <2>1. kept # {} => default \in kept
    <3>1. shown # {} => Min(shown) \in shown
      <4>1. shown \subseteq Nat
        BY <1>2
      <4>. HIDE DEF shown
      <4>. QED BY <4>1, LeastNumber
    <3>2. kept # {} => shown # {}
      BY DEF Allowed, ToSet
    <3>. QED BY <3>1, <3>2
  <2>2. kept = {} => default = None
    OBVIOUS
  <2>3. filterJEGKernelspecsForPanel(offer) = env
    BY <1>4 DEF filterJEGKernelspecsForPanel
  <2>. HIDE DEF default, kept
  <2>4. /\ env \in Envelope /\ env.default = default
        /\ \A n \in Specs : env.entry[n] = IF n \in kept THEN "priced" ELSE None
    BY <1>1, <2>1, <2>2, EnvelopReturns DEF Sources
  <2>. HIDE DEF env
  <2>5. Shown(env) = kept
    BY <1>1, <2>4, NoneApart DEF Shown, Sources
  <2>6. \A n \in kept : n \in Allowed
    BY DEF kept
  <2>. QED BY <1>4, <2>1, <2>3, <2>4, <2>5, <2>6, NoneApart DEF Sources
<1>. QED BY <1>3, <1>4

LEMMA AddReturns ==
    ASSUME NEW env \in Envelope, NEW offer \in Offer, NEW ks \in SUBSET Kernels
    PROVE  LET sum == AddRunning(env, offer, ks)
           IN  /\ sum \in Envelope /\ sum.default = env.default
               /\ \A n \in Specs : sum.entry[n] = IF n \in Offered(offer, ks) \ Shown(env)
                                                  THEN "raw" ELSE env.entry[n]
               /\ Shown(sum) = Shown(env) \cup Offered(offer, ks)
<1>. DEFINE entry == [n \in Specs |-> IF n \in Offered(offer, ks) \ Shown(env)
                                      THEN "raw" ELSE env.entry[n]]
<1>1. entry \in [Specs -> Sources \cup {None}]
  BY DEF Envelope, Sources
<1>2. AddRunning(env, offer, ks) = [env EXCEPT !.entry = entry]
  BY DEF AddRunning
<1>. HIDE DEF entry
<1>3. LET sum == [env EXCEPT !.entry = entry]
      IN  sum \in Envelope /\ sum.default = env.default /\ sum.entry = entry
  BY <1>1 DEF Envelope
<1>4. Offered(offer, ks) \subseteq Specs
  BY DEF Offered, Offer
<1>. QED BY <1>2, <1>3, <1>4, NoneApart DEF entry, Shown, Sources

LEMMA MergeReturns ==
    ASSUME NEW offer \in Offer, NEW env \in Envelope, NEW m \in mergeKernelspecs(offer, env)
    PROVE  /\ m \in Envelope
           /\ \A n \in Specs : m.entry[n] = IF n \in offer.specs THEN "local" ELSE env.entry[n]
           /\ Shown(m) = Shown(env) \cup offer.specs
           /\ m.default \in Shown(m) \cup {None}
           /\ offer.default \in offer.specs => m.default = offer.default
<1>. DEFINE merged == offer.specs \cup Shown(env)
            default == IF offer.default \in merged THEN {offer.default}
                       ELSE IF offer.specs = {} THEN {None} ELSE offer.specs
<1>1. PICK d \in default : m = [default |-> d, entry |-> Overlaid(offer, env)]
  BY DEF mergeKernelspecs
<1>2. offer.specs \subseteq Specs /\ Shown(env) \subseteq Specs
  BY DEF Offer, Shown
<1>3. d \in merged \cup {None} /\ (offer.default \in offer.specs => d = offer.default)
  OBVIOUS
<1>4. Overlaid(offer, env) \in [Specs -> Sources \cup {None}]
  BY DEF Overlaid, Envelope, Sources
<1>5. m \in Envelope
  BY <1>1, <1>2, <1>3, <1>4 DEF Envelope
<1>6. \A n \in Specs : m.entry[n] = IF n \in offer.specs THEN "local" ELSE env.entry[n]
  BY <1>1 DEF Overlaid
<1>7. Shown(m) = Shown(env) \cup offer.specs
  BY <1>2, <1>6, NoneApart DEF Shown, Sources
<1>. QED BY <1>1, <1>3, <1>5, <1>6, <1>7

----------------------------------------------------------------------------
(* What the control operators change.                                        *)

Same(g, h) == g.op = h.op /\ g.micro = h.micro /\ g.since = h.since /\ g.seen = h.seen

LEMMA GotoFields ==
    ASSUME NEW h \in Locals, NEW l \in Labels
    PROVE  LET g == Goto(h, l)
           IN  /\ g \in Locals /\ Same(g, h) /\ g.pc = l /\ g.offer = h.offer /\ g.env = h.env
               /\ g.answered = h.answered /\ g.told = h.told
BY DEF Goto, Locals, Same

LEMMA AnswerFields ==
    ASSUME NEW h \in Locals, NEW status \in {"ok", "failed"}, NEW env \in Envelope
    PROVE  LET g == Answer(h, status, env)
           IN  /\ g \in Locals /\ Same(g, h) /\ g.pc = "reply" /\ g.env = env
               /\ g.answered = h.answered /\ g.told = h.told
BY DEF Answer, Locals, Same, Labels

LEMMA EnvFields ==
    ASSUME NEW h \in Locals, NEW env \in Envelope
    PROVE  LET g == [h EXCEPT !.env = env]
           IN  /\ g \in Locals /\ Same(g, h) /\ g.offer = h.offer /\ g.env = env
               /\ g.answered = h.answered /\ g.told = h.told
BY DEF Locals, Same

LEMMA UnansweredFields ==
    ASSUME NEW h \in Locals
    PROVE  LET g == [h EXCEPT !.answered = FALSE]
           IN  /\ g \in Locals /\ Same(g, h) /\ g.offer = h.offer /\ g.env = h.env
               /\ ~g.answered /\ g.told = h.told
BY DEF Locals, Same

LEMMA UntoldFields ==
    ASSUME NEW h \in Locals
    PROVE  LET g == [h EXCEPT !.told = FALSE]
           IN  /\ g \in Locals /\ Same(g, h) /\ g.offer = h.offer /\ g.env = h.env
               /\ g.answered = h.answered /\ ~g.told
BY DEF Locals, Same

LEMMA NothingReturns ==
    /\ Nothing \in Envelope /\ Nothing.default = None /\ Shown(Nothing) = {}
    /\ \A n \in Specs : Nothing.entry[n] = None
<1>1. /\ Nothing \in Envelope /\ Nothing.default = None
      /\ \A n \in Specs : Nothing.entry[n] = None
  BY DEF Nothing, Envelop, Envelope
<1>. QED BY <1>1 DEF Shown

----------------------------------------------------------------------------
(* How a handler's step carries the invariant over.                          *)

LEMMA GoodStays ==
    ASSUME NEW h, Good(h), UNCHANGED <<deployment, running>>
    PROVE  Good(h)'
BY DEF deployment, Good, Sourced, Defaulted, Noted, Showing, OnTheWay, Shown, Allowed

LEMMA StepInv ==
    ASSUME Inv, NEW r \in Requests, NEW g \in Locals, Become(r, g), Good(g),
           knownJEGKernelIDs' \subseteq Kernels, UNCHANGED <<deployment, running>>
    PROVE  Inv'
<1>1. TypeOK'
  BY DEF Inv, TypeOK, Become, deployment
<1>2. ASSUME NEW q \in Requests, request'[q] # None PROVE Good(request[q])'
  <2>1. PICK h : h = request'[q] /\ Good(h)
    BY <1>2 DEF Inv, TypeOK, Become
  <2>2. Good(h)'
    BY <2>1, GoodStays
  <2>. QED BY <2>1, <2>2 DEF Good, Sourced, Defaulted, Noted, Showing, OnTheWay, Shown, Allowed
<1>. QED BY <1>1, <1>2 DEF Inv

LEMMA AtGood ==
    ASSUME Inv, NEW r \in Requests, NEW l, At(r, l)
    PROVE  request[r] \in Locals /\ Good(request[r]) /\ request[r].pc = l
BY DEF Inv, TypeOK, At

LEMMA OpAt ==
    ASSUME NEW h \in Locals, Good(h)
    PROVE  /\ h.pc \in {"jegSpecs", "jegKernels", "localSpecs"} => h.op = "gateway"
           /\ h.pc = "panelSpecs" => h.op = "panel"
BY DEF Good, OnTheWay, Locals

LEMMA StartInv ==
    ASSUME Inv, NEW r \in Requests, NEW op \in {"gateway", "panel"}, Start(r, op)
    PROVE  Inv'
<1>1. PICK micro \in BOOLEAN :
        Become(r, [pc |-> IF op = "panel" THEN "panelSpecs" ELSE "jegSpecs",
                   op |-> op, micro |-> micro, offer |-> NoOffer, env |-> Nothing,
                   status |-> "none", since |-> running, seen |-> {SpecOf[k] : k \in running},
                   answered |-> TRUE, told |-> TRUE])
  BY DEF Start
<1>. DEFINE pc == IF op = "panel" THEN "panelSpecs" ELSE "jegSpecs"
            seen == {SpecOf[k] : k \in running}
            g == [pc |-> pc, op |-> op, micro |-> micro, offer |-> NoOffer, env |-> Nothing,
                  status |-> "none", since |-> running, seen |-> seen,
                  answered |-> TRUE, told |-> TRUE]
<1>2. Become(r, g)
  BY <1>1
<1>3. seen \in SUBSET Specs /\ (\A k \in running : SpecOf[k] \in seen) /\ running \in SUBSET Kernels
  BY SpecsConstants DEF Inv, TypeOK
<1>4. pc \in Labels /\ NoOffer \in Offer
  BY DEF Labels, NoOffer, Offer
<1>5. pc = IF op = "panel" THEN "panelSpecs" ELSE "jegSpecs"
  OBVIOUS
<1>. HIDE DEF seen, pc
<1>6. /\ g \in Locals /\ g.pc = pc /\ g.op = op /\ g.env = Nothing /\ g.since = running /\ g.seen = seen
  BY <1>3, <1>4, NothingReturns DEF Locals
<1>. HIDE DEF g
<1>7. Sourced(g) /\ Defaulted(g)
  BY <1>5, <1>6, NothingReturns, NoneApart DEF Sourced, Defaulted, Sources
<1>8. Noted(g) /\ Showing(g) /\ OnTheWay(g)
  BY <1>3, <1>5, <1>6 DEF Noted, Showing, OnTheWay
<1>. QED BY <1>2, <1>6, <1>7, <1>8, StepInv DEF Start, Good, Inv, TypeOK

LEMMA FetchJegInv ==
    ASSUME Inv, NEW r \in Requests, FetchJegSpecs(r)
    PROVE  Inv'
<1>. DEFINE h == request[r]
<1>1. h \in Locals /\ Good(h) /\ h.pc = "jegSpecs" /\ h.op = "gateway"
  <2>1. h \in Locals /\ Good(h) /\ h.pc = "jegSpecs"
    BY AtGood DEF FetchJegSpecs
  <2>. QED BY <2>1, OpAt
<1>2. knownJEGKernelIDs' \subseteq Kernels /\ UNCHANGED <<deployment, running>>
  BY DEF FetchJegSpecs, Inv, TypeOK
\* What JEG answered, filtered.
<1>3. ASSUME NEW offer \in {jeg, NoOffer}, NEW g \in Locals, Same(g, h), g.pc = "jegKernels",
             g.offer = offer, g.env = filterJEGKernelspecs(offer), g.answered => offer = jeg
      PROVE  Good(g)
  <2>1. offer \in Offer /\ offer.specs \subseteq jeg.specs
    BY DEF Inv, TypeOK, NoOffer, Offer
  <2>2. /\ g.env \in Envelope
        /\ \A n \in Specs : g.env.entry[n] = IF n \in Allowed \cap offer.specs THEN "priced" ELSE None
        /\ Shown(g.env) = Allowed \cap offer.specs
        /\ g.env.default \in Shown(g.env) \cup {None}
    BY <1>3, <2>1, FilterReturns DEF Inv
  <2>3. Sourced(g)
    BY <2>2, NoneApart DEF Sourced, Sources
  <2>4. Defaulted(g) /\ Noted(g) /\ Showing(g) /\ OnTheWay(g)
    BY <1>1, <1>3, <2>1, <2>2 DEF Defaulted, Good, Noted, Showing, OnTheWay, Same
  <2>. QED BY <2>3, <2>4 DEF Good
<1>4. filterJEGKernelspecs(jeg) \in Envelope /\ filterJEGKernelspecs(NoOffer) \in Envelope
      /\ jeg \in Offer /\ NoOffer \in Offer
  <2>1. jeg \in Offer /\ NoOffer \in Offer
    BY DEF Inv, TypeOK, NoOffer, Offer
  <2>. QED BY <2>1, FilterReturns DEF Inv
<1>5. CASE Become(r, Goto([h EXCEPT !.offer = jeg, !.env = filterJEGKernelspecs(jeg)], "jegKernels"))
  <2>. DEFINE f == [h EXCEPT !.offer = jeg, !.env = filterJEGKernelspecs(jeg)]
              g == Goto(f, "jegKernels")
  <2>1. /\ f \in Locals /\ Same(f, h) /\ f.offer = jeg /\ f.env = filterJEGKernelspecs(jeg)
    <3>. DEFINE env == filterJEGKernelspecs(jeg)
    <3>1. env \in Envelope
      BY <1>4
    <3>. HIDE DEF env
    <3>2. LET u == [h EXCEPT !.offer = jeg, !.env = env]
          IN  u \in Locals /\ Same(u, h) /\ u.offer = jeg /\ u.env = env
      BY <1>1, <1>4, <3>1 DEF Locals, Same
    <3>. QED BY <3>2 DEF env
  <2>2. Become(r, g)
    BY <1>5
  <2>. HIDE DEF f
  <2>3. /\ g \in Locals /\ Same(g, h) /\ g.pc = "jegKernels" /\ g.offer = jeg
        /\ g.env = filterJEGKernelspecs(jeg)
    BY <2>1, GotoFields DEF Labels, Same
  <2>. HIDE DEF g
  <2>4. Good(g)
    BY <1>3, <2>3
  <2>. QED BY <1>2, <2>2, <2>3, <2>4, StepInv
<1>6. CASE Become(r, Goto([[h EXCEPT !.offer = NoOffer, !.env = filterJEGKernelspecs(NoOffer)]
                             EXCEPT !.answered = FALSE], "jegKernels"))
  <2>. DEFINE e == [h EXCEPT !.offer = NoOffer, !.env = filterJEGKernelspecs(NoOffer)]
              f == [e EXCEPT !.answered = FALSE]
              g == Goto(f, "jegKernels")
  <2>1. /\ e \in Locals /\ Same(e, h) /\ e.offer = NoOffer /\ e.env = filterJEGKernelspecs(NoOffer)
    <3>. DEFINE env == filterJEGKernelspecs(NoOffer)
    <3>1. env \in Envelope
      BY <1>4
    <3>. HIDE DEF env
    <3>2. LET u == [h EXCEPT !.offer = NoOffer, !.env = env]
          IN  u \in Locals /\ Same(u, h) /\ u.offer = NoOffer /\ u.env = env
      BY <1>1, <1>4, <3>1 DEF Locals, Same
    <3>. QED BY <3>2 DEF env
  <2>2. Become(r, g)
    BY <1>6
  <2>. HIDE DEF e
  <2>3. /\ f \in Locals /\ Same(f, h) /\ f.offer = NoOffer
        /\ f.env = filterJEGKernelspecs(NoOffer) /\ ~f.answered
    BY <2>1, UnansweredFields DEF Same
  <2>. HIDE DEF f
  <2>4. /\ g \in Locals /\ Same(g, h) /\ g.pc = "jegKernels" /\ g.offer = NoOffer
        /\ g.env = filterJEGKernelspecs(NoOffer) /\ ~g.answered
    BY <2>3, GotoFields DEF Labels, Same
  <2>. HIDE DEF g
  <2>5. Good(g)
    BY <1>3, <2>4
  <2>. QED BY <1>2, <2>2, <2>4, <2>5, StepInv
<1>7. CASE Become(r, Goto([h EXCEPT !.answered = FALSE], "localSpecs"))
  <2>. DEFINE f == [h EXCEPT !.answered = FALSE]
              g == Goto(f, "localSpecs")
  <2>1. f \in Locals /\ Same(f, h) /\ f.env = h.env /\ ~f.answered
    BY <1>1, UnansweredFields
  <2>2. Become(r, g)
    BY <1>7
  <2>. HIDE DEF f
  <2>3. g \in Locals /\ Same(g, h) /\ g.pc = "localSpecs" /\ g.env = h.env /\ ~g.answered
    BY <2>1, GotoFields DEF Labels, Same
  <2>. HIDE DEF g
  <2>4. Good(g)
    BY <1>1, <2>3 DEF Good, Sourced, Defaulted, Noted, Showing, OnTheWay, Same
  <2>. QED BY <1>2, <2>2, <2>3, <2>4, StepInv
<1>. QED BY <1>5, <1>6, <1>7 DEF FetchJegSpecs

LEMMA ListJegInv ==
    ASSUME Inv, NEW r \in Requests, ListJegKernels(r)
    PROVE  Inv'
<1>. DEFINE h == request[r]
<1>1. h \in Locals /\ Good(h) /\ h.pc = "jegKernels" /\ h.op = "gateway"
  <2>1. h \in Locals /\ Good(h) /\ h.pc = "jegKernels"
    BY AtGood DEF ListJegKernels
  <2>. QED BY <2>1, OpAt
<1>2. knownJEGKernelIDs' \subseteq Kernels /\ UNCHANGED <<deployment, running>>
  BY DEF ListJegKernels, remembered, Inv, TypeOK
<1>3. /\ h.env \in Envelope /\ h.offer \in Offer /\ running \in SUBSET Kernels
      /\ h.since \subseteq running /\ \A k \in running : SpecOf[k] \in h.seen
      /\ Shown(h.env) = Allowed \cap h.offer.specs /\ (h.answered => h.offer = jeg)
  BY <1>1 DEF Locals, Inv, TypeOK, Good, Noted, Showing
<1>4. CASE Become(r, Goto([h EXCEPT !.env = AddRunning(h.env, h.offer, running)], "localSpecs"))
  <2>. DEFINE sum == AddRunning(h.env, h.offer, running)
              f == [h EXCEPT !.env = sum]
              g == Goto(f, "localSpecs")
  <2>1. /\ sum \in Envelope /\ sum.default = h.env.default
        /\ \A n \in Specs : sum.entry[n] = IF n \in Offered(h.offer, running) \ Shown(h.env)
                                           THEN "raw" ELSE h.env.entry[n]
        /\ Shown(sum) = Shown(h.env) \cup Offered(h.offer, running)
    BY <1>3, AddReturns
  <2>2. Become(r, g)
    BY <1>4
  <2>. HIDE DEF sum
  <2>3. f \in Locals /\ Same(f, h) /\ f.env = sum /\ f.answered = h.answered
    BY <1>1, <2>1, EnvFields
  <2>. HIDE DEF f
  <2>4. /\ g \in Locals /\ Same(g, h) /\ g.pc = "localSpecs" /\ g.env = sum /\ g.answered = h.answered
    BY <2>3, GotoFields DEF Labels, Same
  <2>. HIDE DEF g
  <2>5. Sourced(g)
    <3>1. \A n \in Offered(h.offer, running) \ Shown(h.env) : n \in h.seen \ Allowed
      BY <1>3 DEF Offered
    <3>. QED BY <1>1, <2>1, <2>4, <3>1 DEF Good, Sourced, Same
  <2>6. Defaulted(g) /\ Noted(g) /\ OnTheWay(g)
    BY <1>1, <1>3, <2>1, <2>4 DEF Good, Defaulted, Noted, OnTheWay, Same
  <2>7. Showing(g)
    BY <1>1, <1>3, <2>1, <2>4 DEF Showing, Offered, Same
  <2>. QED BY <1>2, <2>2, <2>4, <2>5, <2>6, <2>7, StepInv DEF Good
<1>5. CASE Become(r, Goto([h EXCEPT !.answered = FALSE], "localSpecs"))
  <2>. DEFINE f == [h EXCEPT !.answered = FALSE]
              g == Goto(f, "localSpecs")
  <2>1. f \in Locals /\ Same(f, h) /\ f.env = h.env /\ ~f.answered
    BY <1>1, UnansweredFields
  <2>2. Become(r, g)
    BY <1>5
  <2>. HIDE DEF f
  <2>3. g \in Locals /\ Same(g, h) /\ g.pc = "localSpecs" /\ g.env = h.env /\ ~g.answered
    BY <2>1, GotoFields DEF Labels, Same
  <2>. HIDE DEF g
  <2>4. Good(g)
    BY <1>1, <2>3 DEF Good, Sourced, Defaulted, Noted, Showing, OnTheWay, Same
  <2>. QED BY <1>2, <2>2, <2>3, <2>4, StepInv
<1>. QED BY <1>4, <1>5 DEF ListJegKernels

LEMMA FetchLocalInv ==
    ASSUME Inv, NEW r \in Requests, FetchLocalSpecs(r)
    PROVE  Inv'
<1>. DEFINE h == request[r]
            f == [h EXCEPT !.told = FALSE]
<1>1. h \in Locals /\ Good(h) /\ h.pc = "localSpecs" /\ h.op = "gateway" /\ h.env \in Envelope
  <2>1. h \in Locals /\ Good(h) /\ h.pc = "localSpecs"
    BY AtGood DEF FetchLocalSpecs
  <2>. QED BY <2>1, OpAt DEF Locals
<1>2. knownJEGKernelIDs' \subseteq Kernels /\ UNCHANGED <<deployment, running>>
  BY DEF FetchLocalSpecs, Inv, TypeOK
<1>3. f \in Locals /\ Same(f, h) /\ f.answered = h.answered /\ ~f.told
  BY <1>1, UntoldFields
<1>4. local \in Offer /\ NoOffer \in Offer
  BY DEF Inv, TypeOK, NoOffer, Offer
<1>5. \/ \E env \in mergeKernelspecs(local, h.env) : Become(r, Answer(h, "ok", env))
      \/ \E env \in mergeKernelspecs(NoOffer, h.env) : Become(r, Answer(f, "ok", env))
      \/ Become(r, Answer(f, "ok", h.env))
  BY DEF FetchLocalSpecs
<1>. HIDE DEF f
\* An answer with what the container offers, or offers nothing.
<1>6. ASSUME NEW offer \in {local, NoOffer}, NEW env \in mergeKernelspecs(offer, h.env),
             NEW e \in Locals, Same(e, h), e.answered = h.answered, e.told => offer = local,
             Become(r, Answer(e, "ok", env))
      PROVE  Inv'
  <2>. DEFINE g == Answer(e, "ok", env)
  <2>1. /\ env \in Envelope
        /\ \A n \in Specs : env.entry[n] = IF n \in offer.specs THEN "local" ELSE h.env.entry[n]
        /\ Shown(env) = Shown(h.env) \cup offer.specs
        /\ env.default \in Shown(env) \cup {None}
        /\ offer.default \in offer.specs => env.default = offer.default
    BY <1>1, <1>4, <1>6, MergeReturns
  <2>2. offer.specs \subseteq local.specs
    BY <1>6 DEF NoOffer
  <2>3. /\ g \in Locals /\ Same(g, h) /\ g.pc = "reply" /\ g.env = env
        /\ g.answered = h.answered /\ g.told = e.told
    BY <1>6, <2>1, AnswerFields DEF Same
  <2>4. Become(r, g)
    BY <1>6
  <2>. HIDE DEF g
  <2>5. Sourced(g)
    BY <1>1, <2>1, <2>2, <2>3 DEF Good, Sourced, Same
  <2>6. Defaulted(g)
    BY <1>1, <1>6, <2>1, <2>3 DEF Defaulted, Same
  <2>7. Noted(g) /\ Showing(g) /\ OnTheWay(g)
    BY <1>1, <2>1, <2>3 DEF Good, Noted, Showing, OnTheWay, Same
  <2>. QED BY <1>2, <2>3, <2>4, <2>5, <2>6, <2>7, StepInv DEF Good
<1>7. CASE Become(r, Answer(f, "ok", h.env))
  <2>. DEFINE g == Answer(f, "ok", h.env)
  <2>1. /\ g \in Locals /\ Same(g, h) /\ g.pc = "reply" /\ g.env = h.env
        /\ g.answered = h.answered /\ ~g.told
    BY <1>1, <1>3, AnswerFields DEF Same
  <2>2. Become(r, g)
    BY <1>7
  <2>. HIDE DEF g
  <2>3. Good(g)
    BY <1>1, <2>1 DEF Good, Sourced, Defaulted, Noted, Showing, OnTheWay, Same
  <2>. QED BY <1>2, <2>1, <2>2, <2>3, StepInv
<1>8. Same(h, h)
  BY DEF Same
<1>. QED BY <1>1, <1>3, <1>5, <1>6, <1>7, <1>8

LEMMA PanelInv ==
    ASSUME Inv, NEW r \in Requests, PanelSpecs(r)
    PROVE  Inv'
<1>. DEFINE h == request[r]
            f == [h EXCEPT !.answered = FALSE]
<1>1. h \in Locals /\ Good(h) /\ h.pc = "panelSpecs" /\ h.op = "panel"
  <2>1. h \in Locals /\ Good(h) /\ h.pc = "panelSpecs"
    BY AtGood DEF PanelSpecs
  <2>. QED BY <2>1, OpAt
<1>2. knownJEGKernelIDs' \subseteq Kernels /\ UNCHANGED <<deployment, running>>
  BY DEF PanelSpecs, Inv, TypeOK
<1>3. f \in Locals /\ Same(f, h) /\ Same(h, h)
  BY <1>1, UnansweredFields DEF Same
<1>4. \/ Become(r, Answer(h, "ok", filterJEGKernelspecsForPanel(jeg)))
      \/ Become(r, Answer(f, "ok", Nothing))
      \/ Become(r, Answer(f, "failed", Nothing))
  BY DEF PanelSpecs
<1>. HIDE DEF f
<1>5. ASSUME NEW e \in Locals, Same(e, h), NEW status \in {"ok", "failed"}, NEW env \in Envelope,
             \A n \in Specs : /\ env.entry[n] = "priced" => n \in Allowed
                              /\ env.entry[n] = "raw" => policy = <<>>
                              /\ env.entry[n] # "local",
             policy # <<>> /\ Shown(env) # {} => env.default \in Shown(env),
             Become(r, Answer(e, status, env))
      PROVE  Inv'
  <2>. DEFINE g == Answer(e, status, env)
  <2>1. g \in Locals /\ Same(g, h) /\ g.pc = "reply" /\ g.env = env
    BY <1>5, AnswerFields DEF Same
  <2>2. Become(r, g)
    BY <1>5
  <2>. HIDE DEF g
  <2>3. Good(g)
    BY <1>1, <1>5, <2>1 DEF Good, Sourced, Defaulted, Noted, Showing, OnTheWay, Same
  <2>. QED BY <1>2, <2>1, <2>2, <2>3, StepInv
<1>6. CASE Become(r, Answer(h, "ok", filterJEGKernelspecsForPanel(jeg)))
  <2>1. LET env == filterJEGKernelspecsForPanel(jeg)
        IN  /\ env \in Envelope
            /\ \A n \in Specs : /\ env.entry[n] = "priced" => n \in Allowed
                                /\ env.entry[n] = "raw" => policy = <<>>
                                /\ env.entry[n] # "local"
            /\ policy # <<>> /\ Shown(env) # {} => env.default \in Shown(env)
    BY PanelFilterReturns DEF Inv, TypeOK
  <2>. QED BY <1>1, <1>3, <1>5, <1>6, <2>1
<1>7. CASE \E status \in {"ok", "failed"} : Become(r, Answer(f, status, Nothing))
  BY <1>3, <1>5, <1>7, NothingReturns, NoneApart DEF Sources
<1>. QED BY <1>4, <1>6, <1>7

----------------------------------------------------------------------------
(* Kernels start and stop, and requests end.                                 *)

LEMMA ObserveInv ==
    ASSUME Inv, NEW ks \in SUBSET Kernels, running' = ks, Observe(ks),
           UNCHANGED <<deployment, knownJEGKernelIDs>>
    PROVE  Inv'
<1>. DEFINE specs == {SpecOf[k] : k \in ks}
<1>1. specs \in SUBSET Specs
  BY SpecsConstants
<1>2. \A q \in Requests : request'[q] = IF request[q] = None THEN None
         ELSE [request[q] EXCEPT !.since = request[q].since \cap ks,
                                 !.seen = request[q].seen \cup specs]
  BY DEF Observe
<1>. HIDE DEF specs
<1>3. ASSUME NEW q \in Requests, request[q] # None
      PROVE  request'[q] \in Locals /\ Good(request[q])'
  <2>. DEFINE h == request[q]
  <2>1. h \in Locals /\ Good(h)
    BY <1>3 DEF Inv, TypeOK
  <2>2. h.since \cap ks \in SUBSET Kernels /\ h.seen \cup specs \in SUBSET Specs
    BY <1>1, <2>1 DEF Locals
  <2>3. PICK g \in Locals :
           /\ g = request'[q]
           /\ g.pc = h.pc /\ g.op = h.op /\ g.offer = h.offer /\ g.env = h.env
           /\ g.answered = h.answered /\ g.told = h.told
           /\ g.since = h.since \cap ks /\ g.seen = h.seen \cup specs
    <3>. DEFINE since == h.since \cap ks
                seen == h.seen \cup specs
                g == [h EXCEPT !.since = since, !.seen = seen]
    <3>1. g = request'[q]
      BY <1>2, <1>3
    <3>2. since \in SUBSET Kernels /\ seen \in SUBSET Specs
      BY <2>2
    <3>. HIDE DEF since, seen
    <3>3. /\ g \in Locals /\ g.pc = h.pc /\ g.op = h.op /\ g.offer = h.offer /\ g.env = h.env
          /\ g.answered = h.answered /\ g.told = h.told /\ g.since = since /\ g.seen = seen
      BY <2>1, <3>2 DEF Locals
    <3>. QED BY <3>1, <3>3 DEF since, seen
  <2>4. Sourced(g)' /\ Defaulted(g)' /\ OnTheWay(g)'
    BY <2>1, <2>3 DEF Good, Sourced, Defaulted, OnTheWay, Shown, Allowed, deployment
  <2>5. Noted(g)'
    BY <2>3 DEF Noted, specs
  <2>6. Showing(g)'
    BY <2>1, <2>3 DEF Good, Showing, Shown, Allowed, deployment
  <2>. QED BY <2>3, <2>4, <2>5, <2>6 DEF Good, Sourced, Defaulted, Noted, Showing, OnTheWay,
              Shown, Allowed
<1>4. request' \in [Requests -> Locals \cup {None}]
  <2>1. request' = [q \in Requests |-> request'[q]]
    BY DEF Observe
  <2>. QED BY <1>2, <1>3, <2>1
<1>5. TypeOK'
  BY <1>4 DEF Inv, TypeOK, deployment
<1>. QED BY <1>2, <1>3, <1>5 DEF Inv

LEMMA OthersInv ==
    ASSUME Inv, \/ \E r \in Requests : Finish(r)
                \/ \E k \in Kernels : Launch(k) \/ Die(k)
                \/ UNCHANGED vars
    PROVE  Inv'
<1>1. ASSUME NEW k \in Kernels, Launch(k) \/ Die(k) PROVE Inv'
  <2>1. running' \in SUBSET Kernels
    BY <1>1 DEF Launch, Die, Inv, TypeOK
  <2>. QED BY <1>1, <2>1, ObserveInv DEF Launch, Die
<1>2. CASE \/ \E r \in Requests : Finish(r)
           \/ UNCHANGED vars
  <2>1. UNCHANGED <<deployment, running, knownJEGKernelIDs>>
    BY <1>2 DEF Finish, vars, deployment
  <2>2. \A q \in Requests : request'[q] \in {request[q], None}
    BY <1>2 DEF Finish, Become, vars, Inv, TypeOK
  <2>3. TypeOK'
    BY <1>2, <2>1 DEF Finish, Become, vars, Inv, TypeOK, deployment
  <2>4. ASSUME NEW q \in Requests, request'[q] # None PROVE Good(request[q])'
    <3>1. PICK h : h = request'[q] /\ Good(h)
      BY <2>2, <2>4 DEF Inv
    <3>2. Good(h)'
      BY <2>1, <3>1, GoodStays
    <3>. QED BY <3>1, <3>2 DEF Good, Sourced, Defaulted, Noted, Showing, OnTheWay, Shown, Allowed
  <2>. QED BY <2>3, <2>4 DEF Inv
<1>. QED BY <1>1, <1>2

----------------------------------------------------------------------------
(* The theorems.                                                             *)

LEMMA InvInit == Init => Inv
BY DEF Init, Inv, TypeOK

LEMMA InvNext == ASSUME Inv, [Next]_vars PROVE Inv'
<1>1. ASSUME NEW r \in Requests, Handle(r) PROVE Inv'
  BY <1>1, FetchJegInv, ListJegInv, FetchLocalInv, PanelInv, OthersInv DEF Handle
<1>2. ASSUME NEW r \in Requests, NEW op \in {"gateway", "panel"}, Start(r, op) PROVE Inv'
  BY <1>2, StartInv
<1>. QED BY <1>1, <1>2, OthersInv DEF Next

THEOREM InvAlways == Spec => []Inv
<1>1. Inv /\ [Next]_vars => Inv'
  BY InvNext
<1>. QED BY InvInit, <1>1, PTL DEF Spec

\* The locals of the handlers and what they make of the answers have their types, with
\* any policy and any offers (proxy.go:673-757, panel.go:72-133).
THEOREM TypeCorrect == Spec => []TypeOK
<1>1. Inv => TypeOK
  BY DEF Inv
<1>. QED BY <1>1, InvAlways, PTL

LEMMA RepliedGood ==
    ASSUME Inv, NEW r \in Requests, NEW op, Replied(r, op)
    PROVE  /\ request[r] \in Locals /\ Good(request[r]) /\ request[r].pc = "reply"
           /\ request[r].op = op
BY AtGood DEF Replied

\* The default of the gateway is a spec it shows, and the container's if the container
\* offers its own default (jeg.go:523, 608).
THEOREM DefaultShownHolds == Spec => []DefaultShown
<1>1. Inv => DefaultShown
  BY RepliedGood DEF DefaultShown, ShownTo, Good, Defaulted
<1>. QED BY <1>1, InvAlways, PTL

\* A kernel that runs all the while has its spec shown (proxy.go:690-739).
THEOREM RunningShownHolds == Spec => []RunningShown
<1>1. Inv => RunningShown
  BY RepliedGood DEF RunningShown, ShownTo, Good, Showing
<1>. QED BY <1>1, InvAlways, PTL

\* What the gateway shows of JEG is allowed and priced, or runs (jeg.go:474-477,
\* proxy.go:723).
THEOREM ShownBilledHolds == Spec => []ShownBilled
<1>1. ASSUME Inv, NEW r \in Requests, Replied(r, "gateway"), NEW n \in ShownTo(r)
      PROVE  CASE request[r].env.entry[n] = "priced" -> n \in Allowed
               [] request[r].env.entry[n] = "raw" -> n \in request[r].seen \ Allowed
               [] OTHER -> n \in local.specs
  <2>. DEFINE h == request[r]
  <2>1. h \in Locals /\ Sourced(h) /\ h.op = "gateway" /\ n \in Specs /\ h.env.entry[n] # None
    BY <1>1, RepliedGood DEF Good, ShownTo, Shown
  <2>2. h.env.entry[n] \in Sources
    BY <2>1 DEF Locals, Envelope
  <2>. QED BY <2>1, <2>2 DEF Sourced, Sources
<1>2. Inv => ShownBilled
  BY <1>1 DEF ShownBilled
<1>. QED BY <1>2, InvAlways, PTL

\* The panel offers what its gate lets through, and a default (jeg.go:643-716,
\* panel.go:209-217).
THEOREM PanelOffersLaunchableHolds == Spec => []PanelOffersLaunchable
<1>1. ASSUME Inv, NEW r \in Requests, Replied(r, "panel")
      PROVE  /\ \A n \in ShownTo(r) : Launchable(n)
             /\ policy # <<>> /\ ShownTo(r) # {} => request[r].env.default \in ShownTo(r)
  <2>. DEFINE h == request[r]
  <2>1. h \in Locals /\ Sourced(h) /\ Defaulted(h) /\ h.op = "panel"
    BY <1>1, RepliedGood DEF Good
  <2>2. ASSUME NEW n \in ShownTo(r) PROVE Launchable(n)
    <3>1. n \in Specs /\ h.env.entry[n] \in Sources
      BY <2>1, <2>2 DEF ShownTo, Shown, Locals, Envelope
    <3>. QED BY <2>1, <3>1 DEF Sourced, Sources, Launchable
  <2>. QED BY <2>1, <2>2 DEF Defaulted, ShownTo
<1>2. Inv => PanelOffersLaunchable
  BY <1>1 DEF PanelOffersLaunchable
<1>. QED BY <1>2, InvAlways, PTL
=============================================================================
