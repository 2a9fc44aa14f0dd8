------------------------ MODULE MCThreadedTimeWarp ------------------------
(* Instances of ThreadedTimeWarp for TLC. *)
EXTENDS ThreadedTimeWarp

S(d, r) == [dst |-> d, recv |-> r]

\* A straggler of 2 makes 0 take back what it sent to 1 and to itself, and coast forward
\* over its first event, in front of which one of another manager may come meanwhile.
StartMixed == [o \in Object |->
    CASE o = 2 -> <<S(2, 1), S(0, 2)>> [] o = 1 -> <<S(0, 4)>> [] OTHER -> <<>>]
Mixed(o, t) ==
    CASE o = 0 /\ t = 4 -> <<S(1, 5), S(0, 5)>>
      [] o = 2 /\ t = 1 -> <<S(0, 3)>>
      [] OTHER -> <<>>
Remote == LET e == NewEvent(9, 0, 0, 1, 0) IN <<e, StragglerEvent(<<e>>, 0)>>

\* Objects 0 and 1 send to each other, and 2 to both of them in their past.
StartCross == [o \in Object |-> IF o = 2 THEN <<S(0, 3), S(1, 3), S(2, 1)>> ELSE <<>>]
Cross(o, t) ==
    CASE o = 0 /\ t = 3 -> <<S(1, 4)>>
      [] o = 1 /\ t = 3 -> <<S(0, 4)>>
      [] o = 2 /\ t = 1 -> <<S(0, 2), S(1, 2)>>
      [] OTHER -> <<>>

\* Object 2 rolls 0 back, which cancels what it sent to 1, and then rolls 1 back.
StartStale == [o \in Object |-> IF o = 2 THEN <<S(0, 2), S(1, 5), S(2, 1), S(2, 3)>> ELSE <<>>]
Stale(o, t) ==
    CASE o = 0 /\ t = 2 -> <<S(1, 3)>>
      [] o = 2 /\ t = 1 -> <<S(0, 1)>>
      [] o = 2 /\ t = 3 -> <<S(1, 4)>>
      [] OTHER -> <<>>

\* Nothing comes from other managers.
NoMessages == <<>>
===========================================================================
