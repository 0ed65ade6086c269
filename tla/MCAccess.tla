------------------------------ MODULE MCAccess ------------------------------
(* A small instance of Access: users whose names almost collide once they are *)
(* escaped, "A" and "-41", and one whose name is too long for a label.        *)
EXTENDS Access

CONSTANTS t1, t2, t3, forged

upper == <<65>>
dashed == <<45, 52, 49>>
long == <<97, 65, 65, 65>>

MCUsers == {upper, dashed, long}

MCOwnerOf == [t \in Tokens |-> CASE t = t1 -> upper [] t = t2 -> dashed
                                 [] t = t3 -> long [] OTHER -> None]

\* A browser; a script that claims to be another user; both tokens at once, and with
\* Jupyter's own; no token; one that arborist does not accept.
MCArrivals ==
    {[cookie |-> t1, auth |-> None, remote |-> None],
     [cookie |-> None, auth |-> t2, remote |-> upper],
     [cookie |-> t1, auth |-> t2, remote |-> dashed],
     [cookie |-> t3, auth |-> "jupyter", remote |-> None],
     [cookie |-> t2, auth |-> "jupyter", remote |-> None],
     [cookie |-> None, auth |-> "jupyter", remote |-> upper],
     [cookie |-> forged, auth |-> None, remote |-> None]}
=============================================================================
