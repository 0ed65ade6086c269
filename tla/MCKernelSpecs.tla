--------------------------- MODULE MCKernelSpecs ---------------------------
(* A small instance of KernelSpecs: two specs, and a kernel of each.          *)
EXTENDS KernelSpecs

CONSTANTS ka, kb, a, b

MCSpecOf == [k \in Kernels |-> IF k = ka THEN a ELSE b]

\* No policy, one spec, or both in either order.
MCPolicies == {<<>>, <<a>>, <<a, b>>, <<b, a>>}
=============================================================================
