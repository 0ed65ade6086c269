-------------------------- MODULE MCKernelRouting --------------------------
(* Small instances of KernelRouting: l1 runs a spec of the container, the     *)
(* other kernels one of JEG.                                                  *)
EXTENDS KernelRouting, TLC

CONSTANTS g1, l1, gpu, python

MCSpecOf == [k \in Kernels |-> IF k = l1 THEN python ELSE gpu]

\* Handlers are interchangeable.
Interchangeable == Permutations(Requests)

AllCalls ==
    [op : {"channels"}, kid : Kernels, spec : {None}, bySession : BOOLEAN]
    \cup [op : {"get", "delete", "panelDelete"}, kid : Kernels, spec : {None}, bySession : {FALSE}]
    \cup [op : {"list", "panelList", "contents"}, kid : {None}, spec : {None}, bySession : {FALSE}]
    \cup [op : {"launch", "panelLaunch"}, kid : {None}, spec : Specs \cup {None}, bySession : {FALSE}]
=============================================================================
