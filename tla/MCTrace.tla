------------------------------ MODULE MCTrace -------------------------------
(* Trace for TLC: ints of four bits, longs of eight, and the arguments at  *)
(* the edges of both.                                                      *)
EXTENDS Trace

Number(conv, wide, padding, zero, arg) ==
    [conv |-> conv, wide |-> wide, padding |-> padding, zero |-> zero, arg |-> arg]

Numbers ==
    {<<Number(conv, FALSE, 0, FALSE, a)>> : conv \in Numeric \ {"p"}, a \in {0, 7, 8, 25}}
    \cup {<<Number(conv, TRUE, 0, FALSE, a)>> : conv \in Numeric, a \in {9, 128, 255}}
    \cup {<<Number(conv, FALSE, 3, zero, a)>> :
              conv \in {"d", "x"}, zero \in BOOLEAN, a \in {1, 8}}
    \cup {<<Number("S", TRUE, 0, FALSE, a)>> : a \in {4, 28, 255}}
    \cup {<<Number("S", FALSE, 0, FALSE, 9)>>}

MCBeyond == {<<>>, <<"?">>}

MCLines == {<<Text(<<"a">>), Number("d", FALSE, 0, FALSE, 9)>>}

\* A buffer with room for every number, and the sizes around the length of a string.
MCStrings ==
    (Numbers \X {9})
    \cup ({<<Text(<<"a">>), Number("d", FALSE, 0, FALSE, 9), Text(<<"b", "c">>)>>} \X (0 .. 7))
=============================================================================
