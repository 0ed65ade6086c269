# A model of the multihead workspace proxy

TLA+ models of `uc-cdis/multihead-workspace-proxy`, checked with TLC, and theorems about
them proved with TLAPS. The program stands between a user's browser and two places where
notebook kernels run: the user's *micro-container* (a JupyterLab pod found through its
Kubernetes Service) and *JEG*, the remote kernel gateway shared by all users. JEG has no
session API, so the proxy invents one: it keeps in memory which notebook session is bound
to which JEG kernel, and answers for those sessions itself. What is hard here is not in any
one handler but between them: nothing is locked across the calls a handler makes, nothing is
persisted, and a failed call to JEG looks like an empty answer.

## Inventory

### The components and what makes each correct

| Component (source) | State | Operations | What makes it correct |
|---|---|---|---|
| JEG session routes (`jeg/proxy.go` 62-548, `jeg/jeg.go` 38-326) | `sessionKernelOverrides`, `knownJEGKernelIDs` (`sync.Map`s) | GET by id, GET list, POST, PATCH, DELETE of `/api/sessions` | polls tell the truth; a binding changes only on request or with its kernel; a session's notebook path survives a switch |
| JEG kernel routes, billing panel (`jeg/proxy.go` 550-1170, `jeg/panel.go`) | `knownJEGKernelIDs` | channels (WebSocket), GET, DELETE, list, launch, contents; panel list, launch and delete | a request reaches the kernel's owner; lists are complete and not out of date; a deleted kernel is gone |
| State maps and collector (`jeg/jeg.go` 149-330, 719-764) | the two maps and `knownJEGKernelIDsAge` | set, clear, get, remember, forget; a collection every 15 minutes | nothing stays for ever, nothing in use goes |
| Workspace upstream cache (`workspace/workspace.go`) | `upstreamCache` per user | lookup, resolve, store, invalidate after a 502 | bounded staleness; it settles |
| Workspace proxy handler, reverse proxy (`workspace/workspace.go`, `proxy/proxy.go`) | none | rewrite path and headers, stream | goes to the looked-up address; a 502 invalidates |
| Kubernetes client (`kubernetes/kubernetes.go`) | none | get a Service, 5 s timeout | fails rather than guesses |
| Kernelspec filter and merge (`jeg/jeg.go` 474-716, `jeg/proxy.go` 673-765) | `knownJEGKernelIDs` | filter by policy, add what runs, merge local and JEG specs, pick a default | the default is one of the specs shown; a running kernel keeps its name; nothing of JEG is offered without its price |
| Name escaping, DNS validation (`workspace/workspace.go`, `internal/validation/dns.go`) | none | pure functions on strings | different users have different Services |
| Identity, authorizer (`internal/identity/*`) | the authorizer, set once | take the token, ask arborist, rewrite the headers | the workspace is told of the user arborist named, and never of the token |
| Wiring (`main.go`) | the process and its server | prepare, listen, wait for a signal, shut down | serves only when prepared; stops, and cuts off only whom it waited for |
| Configuration, version (`config`, `version`) | constants | read once at startup | - |

### How they interact

`main` prepares what the handlers share, starts the server and waits for a signal. Every
HTTP request has a goroutine of its own, and one more runs the collector. They share
the `sync.Map`s and nothing else: each access to a map is atomic, a sequence of them is not.
A handler looks up the user's container through the upstream cache (a failed lookup is
"no container", never an error), lists kernels at JEG (3 s timeout, any failure is the empty
list), and calls the container (through `http.DefaultClient`, no timeout). The container's own
gateway client may answer for JEG's kernels as well, so the two places overlap.

### What is hard

* *Concurrency*: a poll reads JEG's list first and acts on it several map accesses later,
  while other handlers bind and release; `remember` and `forget` write two maps; the collector
  and the cache delete by key what they read earlier.
* *Failure*: a failed list reads as "no kernels"; a failed container call may have had its
  effect; a handler that fails half way leaves its first half behind.
* *Ordering*: which of JEG and the container is asked first; the age before the id.
* *Time*: cache TTL against client timeouts and restarts; entries age between collections.
* *Restarts*: of the proxy (the maps are lost) and of the container (its sessions are lost).
* *Start and stop*: a signal may come at any step of `main`, before the server listens as well.
* *Users*: they share the process, the upstream cache and a namespace of Services, and are told
  apart by a token and by an escaped name.

`PROJECT.json` lists these one by one under `hazards`, each at its line with the properties
that watch it.

## The modules

    SessionBinding      what the session routes promise (abstract)
       ^ implements
    JegSessions         the session routes       MCJegSessions, JegSessions_proofs,
                                                 JegSerial_proofs
    KernelRouting       the kernel routes        MCKernelRouting, KernelRouting_proofs
    KernelSpecs         the kernelspecs shown    MCKernelSpecs, KernelSpecs_proofs
    StateGC             the maps and collector   MCStateGC, StateGC_proofs
    UpstreamCache       the upstream cache       UpstreamCache_proofs
    ServiceNames        names of Services
       ^ extends
    Access              a request's way to its   MCAccess, Access_proofs (with the names)
                        user's workspace
    Lifecycle           the process              Lifecycle_proofs

In every module one step is one access to a shared map or one call to JEG, to the container,
to arborist or to Kubernetes. What a goroutine does between two of these is invisible to the
others and belongs to the step before. All modules but `Access` are about one user: overrides and
upstreams are keyed by user first, and so do not meet. `knownJEGKernelIDs` is shared by all
users, by kernel id; the models hold the part of it that concerns the user's own kernels, which
is all of it as long as clients name kernels of their own. Each module keeps, next to a
definition, the *mutants* of it, the plausible mistakes that show that a property notices;
nothing in the specification uses them.

### JegSessions

| In the model | In the code |
|---|---|
| `sessionKernelOverrides`, `knownJEGKernelIDs` | the fields of `JEG`, restricted to one user |
| `kernels` | JEG: a kernel not yet launched, running, or dead. External |
| `local` | the container's sessions and their paths. External |
| `used` | ids given out, so that the container never reuses one |
| `handler[r]` | the locals of a goroutine in `proxyHandler`; `pc` names its next step |
| `Start` | the workspace lookup (`micro`), reading the body, and the dispatch |
| `Get*`, `List*`, `Post*`, `Patch*`, `Delete*` | the branches for each method, in the order of the code |
| `findJEGKernelIDByName`, `isKnownJEGKernelID`, `jegHasKernel`, `rememberJEGKernelID`, `findJEGKernelNameByID`, `Bind` | the steps POST and PATCH share to find a JEG kernel and bind the session |
| `EvictOverride`, `EvictKnown` | the collector's deletions; when they happen is the subject of `StateGC` |
| `Launch`, `Die`, `ProxyRestart`, `ContainerRestart` | the outside world |

A session's name, type and path are set, patched and kept together in the code, so `path`
stands for all three; `NoPath` is the empty string. An omitted field is `None`: in a POST it
becomes `NoPath`, in a PATCH it keeps what is there. `listJEGKernels` is the set of possible
results of that function, and `remembered` its effect of remembering every listed id. The two
maps of known ids are one set here; that they are written one after the other is the subject of
`StateGC`. Three locals are ghosts: `gone` and `was` hold what was true when the request arrived,
and `told` whether the container has told the handler all it asked: it is false once an answer
is lost that the handler needed, be it of what the container has or of what it did. A property
that needs the container's answer says `Told` instead of leaving the fault out of the run.

`SessionBinding` is the promise: a session's binding changes only while a client's request
to change that session is in progress, or after the kernel it was bound to died. `BindingSpec`
instantiates it, with the override's kernel as the binding.

### KernelRouting

A kernel is in one of four places (`place`: not launched yet, at JEG, in the container, gone),
and every request finds out anew which. `Own` is `jegHasKernel`, `Ask` is `containerHasKernel`;
`Owned` is the decision that follows. `override` is the binding of the session that a channels
request names; here it changes at will (`Rebind`), since `JegSessions` models how. The fault
`"through"` lets the container answer for JEG's kernels, as its gateway client does. Two locals
are ghosts: `was`, where the kernels were when the request arrived, and `missed`, the sides that
failed a call of this request, so that a property can ask for the answer of the side it needs and
let the other one fail. `Contents` stands for the files and the kernelspec resources, which are
always the container's. A kernel id of the wrong form is refused before any of this and is left
out.

### KernelSpecs

A spec is a name and where its entry comes from: `"priced"` by the filter, `"raw"` as JEG has it,
`"local"` from the container. `filterJEGKernelspecs`, `filterJEGKernelspecsForPanel` and
`mergeKernelspecs` are the functions of those names; the merge returns the set of its possible
results, since Go ranges over a map in any order. `FetchJegSpecs`, `ListJegKernels` and
`FetchLocalSpecs` are the three calls of the gateway's answer, `PanelSpecs` the one of the
panel's. The policy, JEG's offer and the container's are chosen at the start, out of all there
are; a kernel may run a spec that an earlier policy allowed. `"garbled"` is an answer that is no
JSON, which the filter and the merge read as no specs. `since`, `seen`, `answered` and `told` are
ghosts. An entry that is not a JSON object, which the filter passes on without a price, is left
out.

### ServiceNames and Access

`ServiceNames` has the functions on strings, as sequences of character codes: `escapism` with
its string builder, `"%2x"` (`Hex`) with its padding, `userToServiceName`, and `IsDNS1123Label`.

| In `Access` | In the code |
|---|---|
| `Start`, `authorize` | `identity.Require`: the token taken from the cookie or the header, what arborist says of it, `SetUpstreamHeaders` |
| `Load`, `Store`, `Expire` | `LookupUpstream`; when an entry expires is the subject of `UpstreamCache` |
| `bearerToken`, `getJSON` | `GetWorkspaceService`: the token file is read for each call |
| `ProxyHandler`, `Finish` | the request is proxied; a 502 drops the entry |
| `Rotate`, `Expired` | the kubelet replaces the token file, and the token before the last is refused. External |

`sent`, the headers as they arrived, is a ghost. A rotation takes place about once an hour and a
call at most five seconds, so `Rotate` leaves room for one rotation between reading a token and
using it, not for two.

### Lifecycle

`main` is at one of its steps (`NewClient` to `Return`), the server's goroutine is off, starting,
listening, failed or closed, and a request is open, a tunnel, cut off (it was open when the process
ended) or dropped (it was a tunnel). `Exit` is the end of the process, by `os.Exit`, by the return
of `main` or by a signal before `signal.NotifyContext`. `http.Server` is external: `Shutdown` closes
the listener and waits for open requests but not for hijacked connections, and a server started
after it does not listen.

### StateGC

Timestamps are kept as ages in ticks (`overrideAge`, `knownAge`), `None` where the map has no
entry. `rememberJEGKernelID` and `forgetJEGKernelID` are two steps each, as in the code: first
`knownJEGKernelIDs`, then (`FinishAge`) `knownJEGKernelIDsAge`. The collector reads an entry
and deletes it by key in separate steps, and a known id by its age first. `Tick` does not fire
while a collection or an operation is under way: both take microseconds against an interval
of 15 minutes. `idle` is a ghost: ticks since the session was last polled.

### UpstreamCache

`upstreamCache` holds one user's entry with the ticks it has left. A request loads it, drops
it if expired, else asks Kubernetes, stores the answer, uses it, proxies, and, on the workspace
route only, deletes the entry after a 502. The two routes differ before that too (`HandOut`): the
workspace route connects as soon as it has the address (`"use"`), while a JEG route, which looks up
first of all (`proxy.go:54`), holds it (`"hold"`) while it reads the client's body (line 68; the
server has no `ReadTimeout`, `main.go:122`) and calls JEG (lines 169 and 678), and contacts the
container afterwards or not at all (`Contact`, lines 89 and 739). Time passes meanwhile, without a
bound; the ghost `held` counts it up to `MaxHold`. Of several contacts of a route `Contact` is the
last: those before it, as a POST that is sent again or a DELETE that first asks who owns the kernel
makes them, leave the cache as it is and only make the holding longer. `Move` is the workspace restarting elsewhere or
stopping; `left` is a ghost that counts how long ago the Service was last at each address. The
answer is fixed when Kubernetes makes it (`resolveUpstream`) and takes up to `ResolveMax` ticks
to arrive. A tick passes only when every goroutine waits for somebody else.

So there are two bounds. `LookupUpstream` hands out no address that was left `TTL + ResolveMax` ago
(`Bound`), which is the staleness of a connection on the workspace route; on a JEG route the time
the address was held is added to it, and nothing in the code limits that.

## What TLC checks

| Run | Instance | What it shows |
|---|---|---|
| `sessions_serial` | 1 handler, 2 sessions, 2 kernels, all calls; container and workspace lookup failing | `PollIsView`: a poll shows every session once, as it is. `ChangeAsAnswered`: a client may believe the answer to a POST, PATCH or DELETE, and no other session is touched. `BindingKeepsPath`: moving to JEG keeps the path. `BindingSpec`: the routes implement `SessionBinding` |
| `sessions_races` | 2 handlers on 1 session and 1 kernel; JEG failing, evictions, restarts | `BoundToLaunched`: only launched kernels are bound. `PollShowsNoDeadKernel`: no poll shows a kernel that was dead before it began |
| `routing` | 2 handlers, 1 kernel of each kind, every kind of call failing, the container answering for JEG too | `RoutedToOwner`, `ListComplete`, `NothingGoneListed`, `DeletedIsGone`, `LiveKernelStaysKnown` |
| `kernelspecs` | 1 handler, 2 specs with a kernel of each, 4 policies, every offer of JEG and of the container, every call failing | `DefaultShown`, `RunningShown`: a kernel that runs keeps its name. `ShownBilled`: nothing of JEG is shown without its price, unless it runs. `PanelOffersLaunchable`: the panel's filter agrees with its gate |
| `cache` | 2 requests, 2 addresses, TTL 2, timeout 1, 3 moves, 2 ticks of holding counted | `StalenessBound`: an address handed out was not left a TTL and a timeout before, and a JEG route uses it later by what it held it. `CacheSettles` |
| `access` | 2 requests; 3 users, of whom two are called `A` and `-41` and one has a name too long for a label; 7 kinds of request, with two tokens, a claimed user or none | `HeadersVouchedFor`, `OwnWorkspace`, `RotationPickedUp`, `Decided` |
| `gc` | 1 handler, 2 sessions, 1 kernel, interval 2, maxAge 2 | `EvictionDeadline`: nothing outlives maxAge by more than an interval. `EvictsOldOnly`: what the collector deletes is old, or was written since it read it. `NoImmortalKernel`, `Drains` |
| `lifecycle` | 3 requests, a shutdown of 2 ticks | `ServesPrepared`, `OnlyStragglersCut`, `NoLateConnection`, `Stops` |

Every run but `sessions_races` checks the type invariant of its module as well.

Runs that end in a violation check what a comment of the code says against what the code does:

| Run | The comment | What the code does |
|---|---|---|
| `sessions_stalepoll` | overrides are kept so that polling does not revert to local kernels (`jeg.go:155-156`) | a list poll clears a binding made after its snapshot of JEG, though every call succeeded; a failed list reads as no kernels and does the same to every binding |
| `gc_polledevicted` | the same | polls do not renew an override, so the collector takes it from a notebook in use |
| `sessions_switchback` | the response retains the file path (`proxy.go:374-375`) | a rename on JEG is lost on the switch back to a local kernel |
| `gc_immortal` | known ids are evicted by age and nothing leaks for ever (`jeg.go:719-727`) | `remember` and `forget` interleaved leave an id with no age, which the collector never finds |

Limits of the passing runs that are worth knowing:

* `BindingKeepsPath` needs a container that answers: if the metadata fetch of a PATCH fails, the
  session is bound with an empty path (`proxy.go:379`).
* `ChangeAsAnswered` lets a POST whose first attempt took effect unseen leave a second session
  behind (`proxy.go:267`), and a DELETE the container did not answer leave its session
  (`proxy.go:532`): the container has not told.
* `DeletedIsGone` needs the container's answer: without it a local kernel is taken for one of
  JEG's, whose 404 is a success to the client. `RoutedToOwner` needs the answer of the owner only.
* `DefaultShown` lets the default be empty although specs are shown: a container that answers
  with no specs at all takes JEG's default away (`jeg.go:602-609`). Where the comment at
  `jeg.go:584` says the default is the first local spec, the code takes the container's own
  default, and any local spec if that is not shown.
* `EvictionDeadline` is `maxAge` and one interval. The comment at `jeg.go:729`, "maxAge=4h means a
  kernel orphaned at midnight is cleaned up by 4am at the latest", leaves the interval out and is not
  what the code does: an entry that becomes older than maxAge between two collections stays until the
  next, with the values of `main.go:30` until 4:15. With the bound `MaxAge` alone in place of `MaxAge +
  Interval`, TLC finds an entry that exceeds it with the constants of `gc`.
* `EvictsOldOnly` lets the collector take an entry that a handler renewed after it was read: it
  deletes by key (`jeg.go:741`, `jeg.go:750`), and such an entry is lost, new as it is.
* `StalenessBound` says of a JEG route only that its address is as old as when it was handed out and
  as the route has held it since: a client that sends its body slowly has its request answered from
  an address as old as it likes.
* `PollIsView` is for requests that do not overlap: a list goes over the container's sessions and the
  overrides in two passes, and a change in between may show in one of them only.
* `OnlyStragglersCut` is about requests: tunnels are dropped without being waited for, and
  `main` says that it stopped cleanly in either case (`main.go:154`). A listener that fails
  leaves a process that waits for its signal and serves nothing.

### Bounds, and why they are enough

* *Handlers*: two. Every race above is between two, with the collector, the environment and
  restarts as further actors. Handlers are interchangeable (symmetry in `sessions_races`, `routing`
  and `gc_immortal`, which check no liveness), and for what matters most the proofs remove the
  bound. `kernelspecs` has one: what two share, `knownJEGKernelIDs`, they only add to, and the
  proofs are for any number. `gc` has one, because
  `NoImmortalKernel` fails with two that disagree about a kernel; overrides are written without a handler's help there, and
  `EvictionDeadline` is proved for any number.
* *Sessions and kernels*: a handler touches one session and at most the kernel it was given and
  the one the session had, so two of each show all combinations serially; racing handlers are
  given one of each to meet on.
* *Calls*: `AllCalls` has each way to name a kernel (not at all, by id, by name, by both),
  polls, deletes, and patches of the path; `RacingCalls` and `SwitchCalls` are those that meet
  on one session.
* *`used`*: the container has as many ids to give out as there are `Sessions`; when they run
  out, creating fails, a legal outcome of that call in any state.
* *`Interval`, `MaxAge`, `TTL`, `ResolveMax`*: small, but interval, age and TTL above 1 so that
  there is a tick strictly inside each; only their order against each other matters. Ages are
  capped at `Cap`; in `StateGC` that is one more than the deadline, so that a breach is visible.
* *`MaxMoves`*: the Service moves there, back, and away.
* *`MaxHold`*: two ticks are counted of the time a JEG route holds an address; it may hold it for
  longer, which `StalenessBound` says nothing about. The theorem has any `MaxHold`.
* *`MaxLabel`*: 11 instead of 63, so that a user's name may be too long for a Service.
  *`MaxRotations`*: two, enough for a token to be refused.
* *Specs*: two: one allowed and one not, shown or not, the default or not, at JEG or local.
* *`Grace`*: two ticks, so that a shutdown may end before, at and after its time is up.

### Fairness

Safety is a matter of the specifications without fairness. Four runs assume some:

* `UpstreamCache!FairSpec`: weak fairness of a goroutine's own steps (the Go scheduler, and the
  timeout of the Kubernetes client), and of time. How long proxying lasts, and how long a JEG route
  waits for a body and for JEG, is left to them: `Proxied` and `Contact` have no fairness.
* `StateGC!FairSpec`: weak fairness of the collector and of the second half of an operation (a
  goroutine about to write a map does so), and strong fairness of `Tick`: a tick waits for
  operations to finish, so it is disabled again and again while they follow each other, but
  infinitely many operations take infinitely long.

* `Access!FairSpec`: weak fairness of the steps from the token to the upstream: the clients of
  arborist and of Kubernetes have a timeout of five seconds, after which a call has failed.
  How long a workspace takes is left open.
* `Lifecycle!FairSpec`: weak fairness of `main`, of the server's goroutine and of the clock.
  Nothing is assumed of requests: a handler may wait for ever.

`JegSessions`, `KernelRouting` and `KernelSpecs` have no liveness: calls to JEG and to the
container have no timeout, so nothing in the code makes a handler end.

## What is proved

The theorems hold for all values of the constants that satisfy the module's named assumption
(`ConstantsOK`, `RoutingConstants`, `SpecsConstants`, `CacheConstants`, `GCConstants`,
`AccessConstants`, `LifeConstants`): any number of handlers, sessions, kernels, users and
addresses, any calls and faults, any interval, age, TTL and timeout. `JegSessions` assumes
besides that `None` is no override, entry or handler (`NoneIsNoRecord`): that the absence of a
value can be told from a value, which in Go is the `ok` of a map access or a nil pointer. All are
safety properties; the proofs use no fairness.

* `JegSessions_proofs`. `TypeCorrect`: the maps hold what they should, and a handler has read
  what its next step uses. `OnlyLaunchedKernelsBound` (`BoundToLaunched`) and
  `PollsShowNoDeadKernel` (`PollShowsNoDeadKernel`) follow from `HandlersSound`, the invariant
  `Sound`. Neither property is inductive alone: a binding is made from what a handler read some
  steps before, and a poll answers from what it gathered. `Sound` adds that every known id was
  launched, and `Honest`, which says of each handler what it may carry from step to step: a
  kernel about to be bound was launched, a snapshot holds no kernel that was dead on arrival,
  and neither does what a poll has gathered. JEG failing only shrinks the snapshot, which is
  why the theorems need no assumption about faults.
* `JegSerial_proofs` is about the session routes when requests do not get into each other's way,
  with any number of handlers. Its hypotheses say how much may happen at the same time, and are
  formulas about a behaviour, not changes to the specification: `Alone`, that requests do not
  overlap, `PollsApart`, that no poll overlaps with a change, `Kept`, that nothing is evicted or
  restarted, and `Calm`, that JEG answers besides. A run with one handler satisfies both of the
  first two. `sessions_stalepoll`, with no fault at all, shows that the refinement needs
  `PollsApart`; an eviction or a restart of the proxy takes bindings away that nobody asked to
  change, and a failed list of JEG reads as dead kernels, so it needs `Calm` as well.
  * `HandlersPlaced`, without any hypothesis: a handler keeps to the steps of its route and to what
    was asked of it, and every session in an override was given out (`Placed`).
  * `PollsShowTheView` (`PollIsView`), `AnswersHold` (`ChangeAsAnswered`) and `BindingsKeepPaths`
    (`BindingKeepsPath`) hold under `Kept` and `Alone`, whether JEG and the container answer or
    fail. Their invariant `Accurate` says of each label how far the handler has got: which sessions
    a list shows already and which it still has to merge (`ListsSoFar`, `Pending`), and what a
    change has done so far to the session it names, and to no other (`Touched`, `Faithful`).
  * `RoutesImplementBinding` (`BindingSpec`), step by step, and `LiveBindingsKept` hold under `Calm`
    and `PollsApart`. The step in question is a poll that clears a binding; the invariant `Calmly`
    says that what a poll still may clear is bound to a kernel that is dead (`Reapable`). So the
    comment at `jeg.go:155-156`, which `sessions_stalepoll` refutes, is right exactly as far as no
    poll meets a change, JEG answers and nothing is evicted.
* `UpstreamCache_proofs`. `StalenessBounded` (`StalenessBound`): the workspace route connects to no
  address the workspace left `TTL + ResolveMax` ago, and a JEG route to none it left longer ago than
  that and the time the route held it, however long that was (`MaxHold` is any number). The
  invariant `Fresh` shares the budget out: an answer in flight has used up at most its wait
  (`AnswersFresh`), a stored entry may use up the rest (`EntryFresh`: staleness plus remaining TTL
  within the bound), the Service itself is never stale (`ServiceIsThere`), and an address that was
  handed out ages no faster than `held` counts (`UpstreamsFresh`). `TypeCorrect` needs `AnswersFresh` too: what is stored is an address.
* `StateGC_proofs`. `TypeCorrect`, and `EvictedInTime` (`EvictionDeadline`): no entry outlives
  `MaxAge` by more than one interval. `Swept` says how far past `MaxAge` an entry may be at each
  moment: the time since the last collection, or during one a whole interval until it is visited
  and nothing afterwards. `EvictsOldOnlyHolds` (`EvictsOldOnly`): what the collector is about to
  delete was stale when it read it, no tick passes during a collection, and a handler can only renew
  or remove it. `AgreedKernelsAreFound` (`NoImmortalKernel`), for any number of handlers
  under the hypothesis `Agreed`, that no handler remembers an id while another forgets it:
  between its two steps a forget leaves the id unknown (`ForgettingIsUnknown`), so its deletion of
  the age harms nobody, and the collector deletes the age before the id, which is the order this
  needs. `gc_immortal` shows what happens without it, so that overlap is the one race behind
  that finding. `SerialHandlersLeaveNoImmortalKernel` is the case of the run `gc`.

* `KernelRouting_proofs`. All the safety properties of the kernel routes: `TypeCorrect`,
  `RoutedToOwnerHolds`, `ListCompleteHolds`, `NothingGoneListedHolds`, `DeletedIsGoneHolds` and
  `LiveKernelStaysKnownHolds`, from the invariant `Sound`. An answer rests on what the handler saw
  before, so `Sound` says of each label what has been found out: at `ask`, say, that the kernel has
  not been at JEG all the while unless JEG failed a call (`RuledOut`), since kernels start somewhere
  and stop there but never move (`Onward`); and that a snapshot holds what stayed and nothing that
  was gone (`Listing`).
* `KernelSpecs_proofs`. `DefaultShownHolds`, `RunningShownHolds`, `ShownBilledHolds`,
  `PanelOffersLaunchableHolds` and `TypeCorrect`, from `Inv`: every entry has its source
  (`Sourced`), the default is an entry (`Defaulted`), the kernels that were there are noted
  (`Noted`) and their specs shown from the step that lists them on (`Showing`). Lemmas say what
  the two filters and the merge return for any policy and any offer.
* `Access_proofs`. `HeadersVouchedForHolds`, `RotationPickedUpHolds`, `TypeCorrect`, and with
  `NamesApart` `OwnWorkspaceHolds`, for users whose names satisfy its condition. `Inv` follows a
  request: the token is the one that was sent (`Asked`), its owner has been written into the headers
  (`Vouched`), the upstream is that user's (`Found`), as is each entry of the cache
  (`OwnEntries`), and the bearer in use is at most one rotation old (`Fresh`).
  `NamesApart` is in the same module: users with different names have different Services, if
  their names have no character from U+0100 on. The escaped characters are a prefix code
  (`PrefixCode`), so of two names that are written alike the first characters are alike, and so on
  (`SameCharacters`). The induction is on the least place where they differ, by the library's
  principle for well-founded sets. The restriction is the code's own: `"%2x"` writes three or more digits for
  larger characters, and U+0410 is then written as `A0` is (`-410`).
* `Lifecycle_proofs`. `ServesPreparedHolds`, `OnlyStragglersCutHolds`, `NoLateConnectionHolds`
  and `TypeCorrect`. `Inv` ties the requests there are to the step `main` is at (`Prepared`), says
  that no server listens before or after `main` waits (`Listens`), and that `main` returns with
  nothing open or with its time up (`Waited`).

Only model-checked: the liveness properties `CacheSettles`, `Drains`, `Decided` and `Stops`, as the
prover handles neither liveness under fairness nor ENABLED.

## What is not modelled, and why

* *Configuration, version, logging, the routes' order*: constants and I/O. A policy that does not
  parse is no policy, which `KernelSpecs` has.
* *Kubernetes certificates and JSON, the body of requests and answers*: their outcomes (an answer,
  none, a failure) are modelled.
* *Streaming, path rewriting, the Origin header, WebSocket frames*: no shared state.
* *Bodies that do not parse, ids of the wrong form*: they reach the same branches as bodies that
  name nothing, or none.
* *More than one Authorization header or cookie of a name*: a request has one of each here.
* *Characters from U+1000 on*: `Hex` writes at most three digits.

## Plan

Done, in this order: `JegSessions` with `SessionBinding` (the program's own core) and its
proofs, `UpstreamCache`, `StateGC` and their proofs, `KernelRouting`, then `KernelSpecs`, `Access`
with `ServiceNames`, `Lifecycle`, the proofs of these four, and the refinement of `SessionBinding`
with what else is true of requests that do not overlap.

What could follow: the two maps of known ids, which `StateGC` has, under the handlers of
`KernelRouting`, to see which requests meet an id without an age.
