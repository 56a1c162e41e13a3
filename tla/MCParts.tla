------------------------------- MODULE MCParts -------------------------------
\* Checking independent parts of the service in one run.
\*
\* The parts share no state, so one run checks them side by side: the initial
\* state chooses a part, and only it moves.  The parts take turns with the same
\* variables: each instance maps the state of its module to the first few of
\* them, and the others stay 0.
EXTENDS Integers

VARIABLES part, v1, v2, v3, v4, v5, v6, v7, v8, v9, v10, v11, v12, v13, v14
vars == <<part, v1, v2, v3, v4, v5, v6, v7, v8, v9, v10, v11, v12, v13, v14>>

\* A part with n variables starts.
Start(p, n) ==
    /\ part = p
    /\ n < 2 => v2 = 0
    /\ n < 3 => v3 = 0
    /\ n < 4 => v4 = 0
    /\ n < 5 => v5 = 0
    /\ n < 6 => v6 = 0
    /\ n < 7 => v7 = 0
    /\ n < 8 => v8 = 0
    /\ n < 9 => v9 = 0
    /\ n < 10 => v10 = 0
    /\ n < 11 => v11 = 0
    /\ n < 12 => v12 = 0
    /\ n < 13 => v13 = 0
    /\ n < 14 => v14 = 0

\* A part with n variables moves.
Move(p, n) ==
    /\ part = p /\ UNCHANGED part
    /\ n < 2 => UNCHANGED v2
    /\ n < 3 => UNCHANGED v3
    /\ n < 4 => UNCHANGED v4
    /\ n < 5 => UNCHANGED v5
    /\ n < 6 => UNCHANGED v6
    /\ n < 7 => UNCHANGED v7
    /\ n < 8 => UNCHANGED v8
    /\ n < 9 => UNCHANGED v9
    /\ n < 10 => UNCHANGED v10
    /\ n < 11 => UNCHANGED v11
    /\ n < 12 => UNCHANGED v12
    /\ n < 13 => UNCHANGED v13
    /\ n < 14 => UNCHANGED v14
=============================================================================
