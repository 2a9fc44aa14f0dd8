----------------------------- MODULE MCTimeWarp -----------------------------
(* Instances of TimeWarp for TLC. *)
EXTENDS TimeWarp

\* Objects 1 and 2 live on manager 0, object 3 on manager 1.
Homes == [o \in 1 .. 3 |-> IF o = 3 THEN 1 ELSE 0]

C(d, t, v) == [dst |-> d, recv |-> t, val |-> v]

Starts(o) == CASE o = 1 -> {C(1, 1, 0), C(3, 2, 0)}
               [] o = 2 -> {C(2, 2, 0)}
               [] o = 3 -> {C(3, 1, 0)}

\* Where an object sends depends on how many events it has seen, and what it
\* sends on what it was sent: a wrong state is soon a wrong event.
Chatter(o, t, S) ==
    LET v == IF Cardinality(S) % 2 = 0 THEN 0 ELSE 1
        w == (Cardinality({e \in S : e.val = 1}) + v) % 2
    IN  {c \in CASE o = 1 -> {C(IF v = 0 THEN 2 ELSE 3, t + 1, w)}
                 [] o = 2 -> {C(1, t + 1 + v, w)}
                 [] o = 3 -> {C(1, t + 1, w), C(IF v = 0 THEN 3 ELSE 2, t + 2, w)} :
            c.recv <= MaxTime}
=============================================================================
