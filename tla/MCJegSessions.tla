--------------------------- MODULE MCJegSessions ---------------------------
(* Small instances of JegSessions: kernels of one JEG spec, one local spec.   *)
EXTENDS JegSessions, TLC

CONSTANTS s1, s2, k1, k2, r1, r2, jegSpec, localSpec, p1

MCSpecOf == [k \in Kernels |-> jegSpec]

\* Handlers are interchangeable.
Interchangeable == Permutations(Requests)

\* The ways a client names a kernel: not at all, by name, by id, by both.
Named(kid, spec) == [kid |-> kid, spec |-> spec]
AnyKernel == {Named(None, None), Named(None, jegSpec), Named(None, localSpec),
              Named(k1, None), Named(k2, jegSpec)}

Request(op, sids, kernelNames, paths) ==
    {[op |-> op, sid |-> s, kid |-> n.kid, spec |-> n.spec, path |-> p] :
        s \in sids, n \in kernelNames, p \in paths}

Polls == Request("get", {s1, s2}, {Named(None, None)}, {None})
         \cup Request("list", {s1}, {Named(None, None)}, {None})

AllCalls ==
    Polls
    \cup Request("delete", {s1, s2}, {Named(None, None)}, {None})
    \cup Request("post", {s1, s2}, AnyKernel, {p1})
    \cup Request("patch", {s1, s2}, AnyKernel, {None})
    \cup Request("patch", {s1}, {Named(None, None)}, {p1, NoPath})

\* Two clients of one session: one polls, one switches its kernel and deletes it.
RacingCalls ==
    Request("get", {s1}, {Named(None, None)}, {None})
    \cup Request("list", {s1}, {Named(None, None)}, {None})
    \cup Request("delete", {s1}, {Named(None, None)}, {None})
    \cup Request("post", {s1}, {Named(None, jegSpec)}, {p1})
    \cup Request("patch", {s1}, {Named(None, None)}, {p1})
    \cup Request("patch", {s1}, {Named(k1, None), Named(None, jegSpec)}, {None})

\* One client moves a session of the container to JEG and back, and renames it.
SwitchCalls ==
    Request("patch", {s1}, {Named(k1, None), Named(None, jegSpec), Named(None, localSpec)}, {None})
    \cup Request("patch", {s1}, {Named(None, None)}, {p1, NoPath})

\* The same, while another client polls the list.
SwitchAndListCalls == SwitchCalls \cup Request("list", {s1}, {Named(None, None)}, {None})
=============================================================================
