------------------------------ MODULE MCLoader ------------------------------
(***************************************************************************)
(* Small files.  One family varies the debug information and has one       *)
(* section of strings, the other varies the sections.                      *)
(***************************************************************************)
EXTENDS StringTables

Plain == [tag |-> "base", level |-> 1, name |-> <<>>, ref |-> 0, decl |-> FALSE, low |-> Absent,
          high |-> <<"none", 0>>, loc |-> <<"none", 0>>, frame |-> "none"]

Root == [Plain EXCEPT !.tag = "compile_unit", !.level = 0, !.name = <<"unit">>]
Bad == [Plain EXCEPT !.tag = "bad"]
Typed(tag, r) == [Plain EXCEPT !.tag = tag, !.ref = r]
Fun(r) == [Plain EXCEPT !.tag = "subprogram", !.name = <<"f">>, !.ref = r, !.low = 1,
                        !.high = <<"offset", 2>>]
Var(tag, loc) == [Plain EXCEPT !.tag = tag, !.name = <<"v">>, !.loc = loc]
Struct == [Plain EXCEPT !.tag = "struct", !.name = <<"s">>]

Unit(dies, rows) == [ok |-> TRUE, dies |-> dies, rows |-> rows]

\* Three types that refer to each other, themselves or another unit, and a
\* function with one of them as its result.
Types == {[Plain EXCEPT !.name = <<"int">>], Typed("struct", 0)}
            \cup {[Typed("typedef", r) EXCEPT !.name = <<"t">>] : r \in 2 .. 4}
            \cup {Typed(t, r) : t \in {"pointer", "const", "array"}, r \in 2 .. 4}
            \cup {Typed("pointer", 0), Typed("volatile", 9), Typed("reference", 3),
                  [Typed("pointer", 4) EXCEPT !.name = <<"p">>]}

TypeUnits == {<<Unit(<<Root, a, b, c, Fun(2)>>, <<>>)>> : a, b, c \in Types}

\* Every shape of four entries.
Levels == {l \in [1 .. 4 -> 1 .. 3] : l[1] = 1 /\ \A k \in 2 .. 4 : l[k] <= l[k - 1] + 1}
Shaped == {Fun(0), Struct, Var("variable", <<"const", 3>>), Bad}

ShapeUnits == {<<Unit(<<Root>> \o [k \in 1 .. 4 |-> [d[k] EXCEPT !.level = l[k]]], <<>>)>> :
                l \in Levels, d \in [1 .. 4 -> Shaped]}

Small == {Unit(<<>>, <<>>), [Unit(<<Root, Struct>>, <<>>) EXCEPT !.ok = FALSE],
          Unit(<<[Struct EXCEPT !.level = 0], Struct>>, <<>>),
          Unit(<<Root, Typed("const", 3), Struct, Fun(2)>>,
               <<[addr |-> 2, end |-> FALSE], [addr |-> 4, end |-> TRUE]>>),
          Unit(<<Root, [Typed("pointer", 3) EXCEPT !.name = <<"p">>], Typed("enum", 0),
                 [Fun(2) EXCEPT !.frame = "const"],
                 [Var("parameter", <<"expr", 0>>) EXCEPT !.level = 2],
                 [Var("variable", <<"none", 0>>) EXCEPT !.level = 2],
                 [Fun(0) EXCEPT !.high = <<"addr", 0>>], [Fun(0) EXCEPT !.decl = TRUE]>>, <<>>)}

SmallPrograms == {<<a, b>> : a, b \in Small}
None == {<<>>}
One == {<<Unit(<<Root, [Fun(0) EXCEPT !.frame = "const"],
                 [Var("variable", <<"expr", 0>>) EXCEPT !.level = 2]>>, <<>>)>>}

McPrograms == TypeUnits \cup ShapeUnits \cup SmallPrograms \cup None \cup One

-----------------------------------------------------------------------------
Section(kind, named, va, data, more) ==
    [kind |-> kind, rodataName |-> named, va |-> va, data |-> data, size |-> Len(data) + more]

Rodata(va, data) == Section("rodata", TRUE, va, data, 0)
Code == Section("code", FALSE, 40, <<"high">>, 0)

Bytes == {"nul", "blank", "control", "char", "high"}

\* All of five bytes, and of eight with texts and zeros alone; a second section
\* right behind or over the first; the bytes of a section that are not there,
\* or code that takes no room in memory.
AllFiles ==
    {<<Code, Rodata(14, d)>> : d \in [1 .. 5 -> Bytes]}
        \cup {<<Rodata(14, d)>> : d \in [1 .. 8 -> {"nul", "char"}]}
        \cup {<<Section("data", FALSE, 4, d, 0), Rodata(8, e), Code>> :
                d \in [1 .. 4 -> {"nul", "char"}], e \in [1 .. 4 -> {"nul", "char", "blank"}]}
        \cup {<<Section("data", FALSE, 4, <<"char", "char", "nul">>, 0), Code>>,
              <<Section("rodata", TRUE, 4, <<"char", "char">>, 2), Code>>,
              <<Section("rodata", TRUE, 4, <<>>, 2), Code>>,
              <<Rodata(4, <<"char", "char", "nul">>), [Code EXCEPT !.size = 0]>>}

McFiles(units_) ==
    IF units_ \in None \cup One THEN AllFiles
    ELSE {<<Code, Rodata(2, <<"char", "char", "nul">>)>>}
=============================================================================
