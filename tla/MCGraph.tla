------------------------------ MODULE MCGraph ------------------------------
(***************************************************************************)
(* Programs of three functions that call each other, themselves and two    *)
(* names from outside; the view of one with a box in each of two layers.   *)
(***************************************************************************)
EXTENDS GraphView

F(n, s, c) == [name |-> n, stmts |-> s, calls |-> c]

Lists3 == {<<>>, <<1>>, <<2>>, <<3>>, <<4>>, <<3, 2>>, <<2, 4, 2>>, <<5, 4>>}

\* Functions 1, 2 and 3, or two of one name.
McThree ==
    {<<F(1, 80, a), F(2, 0, b), F(3, 400, c)>> : a, b, c \in Lists3}
    \cup {<<F(1, 80, a), F(2, 0, b), F(1, 400, c)>> : a, b, c \in {<<>>, <<1>>, <<2>>, <<4, 4>>}}

\* Two callers with callees that cross, and two functions nobody knows of.
McFour ==
    {<<F(1, 0, a), F(2, 80, b), F(3, 8, c), F(4, 240, d)>> :
        a, b \in {<<3>>, <<4>>, <<3, 4>>, <<>>}, c, d \in {<<>>, <<5>>, <<6>>}}

McPair == <<F(1, 80, <<2>>), F(2, 0, <<>>)>>

McPrograms == McThree \cup McFour \cup {McPair, <<>>}

McViewed == {McPair}

\* In the first box, in the second, beside them.
McPoints == {<<64, 64>>, <<96, 160>>, <<320, 0>>}

McDrags == {<<64, 96>>, <<-64, 0>>}
=============================================================================
