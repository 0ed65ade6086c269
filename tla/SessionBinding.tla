--------------------------- MODULE SessionBinding ---------------------------
(***************************************************************************)
(* What the session routes of the ghost gateway promise about the binding    *)
(* of notebook sessions to JEG kernels (jeg/jeg.go:155-156): a session moves  *)
(* to a kernel, or away from one, only when a client asked for something to   *)
(* be done to that session; a binding nobody asked to change goes away only    *)
(* after its kernel did.                                                      *)
(***************************************************************************)
CONSTANTS Sessions, Kernels, None

VARIABLES binding,   \* session -> the kernel it runs on, None for a local one
          kernels,   \* "unborn", "running" or "dead"
          asked      \* sessions some client has a change request in progress for

vars == <<binding, kernels, asked>>

Init ==
    /\ binding = [s \in Sessions |-> None]
    /\ kernels = [k \in Kernels |-> "unborn"]
    /\ asked = {}

Launch(k) ==
    /\ kernels[k] = "unborn"
    /\ kernels' = [kernels EXCEPT ![k] = "running"]
    /\ UNCHANGED <<binding, asked>>

Die(k) ==
    /\ kernels[k] = "running"
    /\ kernels' = [kernels EXCEPT ![k] = "dead"]
    /\ UNCHANGED <<binding, asked>>

Ask(s) == asked' = asked \cup {s} /\ UNCHANGED <<binding, kernels>>

Answer(s) == asked' = asked \ {s} /\ UNCHANGED <<binding, kernels>>

Switch(s, k) ==
    /\ s \in asked /\ kernels[k] # "unborn"
    /\ binding' = [binding EXCEPT ![s] = k]
    /\ UNCHANGED <<kernels, asked>>

Release(s) ==
    /\ s \in asked
    /\ binding' = [binding EXCEPT ![s] = None]
    /\ UNCHANGED <<kernels, asked>>

Reap(s) ==
    /\ binding[s] # None /\ kernels[binding[s]] = "dead"
    /\ binding' = [binding EXCEPT ![s] = None]
    /\ UNCHANGED <<kernels, asked>>

Next ==
    \/ \E k \in Kernels : Launch(k) \/ Die(k)
    \/ \E s \in Sessions : Ask(s) \/ Answer(s) \/ Release(s) \/ Reap(s)
    \/ \E s \in Sessions, k \in Kernels : Switch(s, k)

Spec == Init /\ [][Next]_vars
=============================================================================
