----------------------------- MODULE DwarfReader -----------------------------
(***************************************************************************)
(* dwarf::parse of crates/rustdec-loader/src/dwarf.rs: unit after unit,    *)
(* one walk over the entries for the names of the types and a second one   *)
(* for functions and types, then the line table.                           *)
(*                                                                         *)
(* A unit is its entries in the order of the file, the place of an entry   *)
(* being its offset.  A name is the sequence of its words, <<>> when there *)
(* is none; a reference is the offset it leads to, 0 when there is none    *)
(* and beyond the unit when it leads into another.                         *)
(***************************************************************************)
EXTENDS Integers, Sequences, FiniteSets

CONSTANTS
    Programs,     \* the debug information of the files: sequences of units
    MaxTypeDepth  \* 8: how deep resolve_type_ref follows entries

RootTags  == {"compile_unit"}
NamedTags == {"base", "struct", "enum", "typedef"}
DerivedTags == {"pointer", "const", "volatile", "reference", "array"}

Absent == -1

\* level is the depth of an entry in its tree; high, loc and frame say what kind
\* of value the attribute has, with the value where one is used.
Die == [tag : STRING, level : Nat, name : Seq(STRING), ref : Nat, decl : BOOLEAN,
        low : Int, high : STRING \X Int, loc : STRING \X Int, frame : STRING]

Row == [addr : Nat, end : BOOLEAN]

ASSUME DwarfAssumption ==
    /\ MaxTypeDepth \in Nat
    /\ \A p \in Programs :
        /\ p \in Seq([ok : BOOLEAN, dies : Seq(Die), rows : Seq(Row)])
        \* the first entry of a unit is its root
        /\ \A u \in DOMAIN p : p[u].dies # <<>> => p[u].dies[1].level = 0

VARIABLES
    units,    \* the units of .debug_info; one that cannot be loaded has ok = FALSE
    unit,     \* index of the unit being read
    pass,     \* "root", "map", "walk" or "lines" of that unit, "parsed" at the end
    entry,    \* index of the next entry, or of the next row
    depth,    \* the sum of the deltas of next_dfs
    typeMap,  \* type_map: offset -> name
    info      \* the DwarfInfo; "none" as its state when there is nothing to read

dwarfVars == <<units, unit, pass, entry, depth, typeMap, info>>

DwarfInit ==
    /\ units \in Programs
    /\ unit = 1
    /\ pass = "root"
    /\ entry = 1
    /\ depth = 0
    /\ typeMap = [o \in {} |-> <<>>]
    /\ info = [state |-> "none", units |-> <<>>, functions |-> <<>>, types |-> <<>>, lines |-> <<>>]

Dies == units[unit].dies

-----------------------------------------------------------------------------
(* The name of a type.                                                     *)

\* The name a derived type makes of the one it refers to.
Derived(tag, inner) ==
    CASE tag = "pointer"   -> inner \o <<"*">>
      [] tag = "reference" -> inner \o <<"&">>
      [] tag = "array"     -> inner \o <<"[]">>
      [] OTHER             -> <<tag>> \o inner

\* What stands for a type without a name.
Nameless(tag) == IF tag = "array" THEN <<"?">> ELSE <<"void">>

DerivedOr(tag, inner) == Derived(tag, IF inner = <<>> THEN Nameless(tag) ELSE inner)

\* Mutation: what is not in the map yet is taken by its name alone.
ResolvedInMap(dies, map, o) ==
    IF dies[o].ref \in DOMAIN map THEN map[dies[o].ref]
    ELSE IF dies[o].ref \in DOMAIN dies THEN dies[dies[o].ref].name ELSE <<>>

\* resolve_type_ref for the entry at offset o of dies, with what map holds;
\* named[k] has k entries left to look at.
Resolved(dies, map, o) ==
    LET named[k \in Nat] ==
            [p \in DOMAIN dies |->
                LET to == dies[p].ref
                IN  IF k = 0 THEN <<"...">>
                    ELSE IF to \notin DOMAIN dies THEN <<>>
                    ELSE IF to \in DOMAIN map THEN map[to]
                    ELSE IF dies[to].tag \in DerivedTags
                         THEN DerivedOr(dies[to].tag, named[k - 1][to])
                         ELSE dies[to].name]
    IN  named[MaxTypeDepth + 1][o]

-----------------------------------------------------------------------------
(* What is read of one entry.                                              *)

\* resolve_high_pc: an address, or an offset from low_pc.
HighPc(die) ==
    CASE die.high[1] = "addr"   -> die.high[2]
      [] die.high[1] = "offset" -> IF die.low = Absent THEN Absent ELSE die.low + die.high[2]
      [] OTHER                  -> Absent

\* frame_base_is_cfa: an expression, or nothing.
FrameIsCfa(die) == die.frame \in {"expr", "none"}

\* extract_frame_offset: expressions are not evaluated.
FrameOffset(die, cfa) ==
    CASE die.loc[1] = "expr"  -> IF cfa THEN 0 ELSE 16
      [] die.loc[1] = "const" -> die.loc[2]
      [] OTHER                -> Absent

\* The next entry at the level of o or above it, or the end of the unit.
AfterChildren(dies, o) ==
    LET out == {p \in o + 1 .. Len(dies) : dies[p].level <= dies[o].level \/ dies[p].tag = "bad"}
    IN  IF out = {} THEN Len(dies) + 1 ELSE CHOOSE p \in out : \A q \in out : p <= q

Children(dies, o) ==
    SelectSeq([k \in 1 .. AfterChildren(dies, o) - o - 1 |-> o + k],
              LAMBDA p : dies[p].level = dies[o].level + 1)

\* read_function_children, of one tag: without an offset it is left out, and
\* a variable without a name too.
Variables(dies, map, o, tag) ==
    LET read == SelectSeq(Children(dies, o), LAMBDA p :
            /\ dies[p].tag = tag
            /\ FrameOffset(dies[p], FrameIsCfa(dies[o])) # Absent
            /\ tag = "variable" => dies[p].name # <<>>)
    IN  [k \in 1 .. Len(read) |->
            [name |-> dies[read[k]].name,
             type |-> Resolved(dies, map, read[k]),
             offset |-> FrameOffset(dies[read[k]], FrameIsCfa(dies[o]))]]

\* read_function.
IsDefinition(die) ==
    /\ ~die.decl /\ die.name # <<>> /\ die.low # Absent
    /\ HighPc(die) # Absent /\ HighPc(die) # 0 /\ HighPc(die) >= die.low

Function(dies, map, o) ==
    [name |-> dies[o].name, low |-> dies[o].low, high |-> HighPc(dies[o]),
     ret |-> Resolved(dies, map, o),
     params |-> Variables(dies, map, o, "parameter"),
     locals |-> Variables(dies, map, o, "variable")]

\* read_type and read_struct_fields, read_enum_variants.
IsType(die) == die.tag \in NamedTags /\ ~die.decl /\ die.name # <<>>

Parts(dies, map, o) ==
    LET tag  == IF dies[o].tag = "struct" THEN "member" ELSE "enumerator"
        read == SelectSeq(Children(dies, o), LAMBDA p : dies[p].tag = tag)
    IN  [k \in 1 .. Len(read) |-> <<dies[read[k]].name, Resolved(dies, map, read[k])>>]

Type(dies, map, o) ==
    [name |-> dies[o].name, tag |-> dies[o].tag,
     parts |-> IF dies[o].tag \in {"struct", "enum"} THEN Parts(dies, map, o)
               ELSE IF dies[o].tag = "typedef" THEN <<<<<<>>, Resolved(dies, map, o)>>>>
               ELSE <<>>]

-----------------------------------------------------------------------------
(* The steps.                                                              *)

NextUnit ==
    /\ unit' = unit + 1
    /\ pass' = "root"
    /\ entry' = 1

\* A unit that cannot be loaded, has no entry or another root is passed over.
ReadRoot ==
    /\ pass = "root" /\ unit <= Len(units)
    /\ IF units[unit].ok /\ Dies # <<>> /\ Dies[1].tag \in RootTags
       THEN /\ info' = [info EXCEPT !.state = "some", !.units = Append(@, Dies[1].name)]
            /\ pass' = "map"
            /\ entry' = 1
            /\ UNCHANGED unit
       ELSE /\ info' = [info EXCEPT !.state = "some"]
            /\ NextUnit
    /\ depth' = 0
    /\ typeMap' = [o \in {} |-> <<>>]
    /\ UNCHANGED units

\* The walk ends at an entry that cannot be read.
Readable == entry <= Len(Dies) /\ Dies[entry].tag # "bad"

\* One entry of build_type_map.
NameOf(o) ==
    IF Dies[o].tag \in NamedTags \/ (Dies[o].tag = "pointer" /\ Dies[o].name # <<>>)
    THEN Dies[o].name
    ELSE DerivedOr(Dies[o].tag, Resolved(Dies, typeMap, o))

MapType ==
    /\ pass = "map" /\ Readable
    /\ typeMap' = IF \/ Dies[entry].tag \in DerivedTags
                     \/ Dies[entry].tag \in NamedTags /\ Dies[entry].name # <<>>
                  THEN [o \in DOMAIN typeMap \cup {entry} |->
                           IF o = entry THEN NameOf(entry) ELSE typeMap[o]]
                  ELSE typeMap
    /\ entry' = entry + 1
    /\ UNCHANGED <<units, unit, pass, depth, info>>

EndMap ==
    /\ pass = "map" /\ ~Readable
    /\ pass' = "walk"
    /\ entry' = 1
    /\ UNCHANGED <<units, unit, depth, typeMap, info>>

\* Mutation: one level up, however many subtrees end.
DeltaOfOne(o) ==
    IF o = 1 THEN 0
    ELSE IF Dies[o].level < Dies[o - 1].level THEN -1 ELSE Dies[o].level - Dies[o - 1].level

\* What next_dfs returns beside the entry.
Delta(o) == IF o = 1 THEN 0 ELSE Dies[o].level - Dies[o - 1].level

\* Functions wherever they stand, types only under the root.
Walk ==
    /\ pass = "walk" /\ Readable
    /\ depth' = depth + Delta(entry)
    /\ info' =
        IF Dies[entry].tag = "subprogram" /\ IsDefinition(Dies[entry])
        THEN [info EXCEPT !.functions = Append(@, Function(Dies, typeMap, entry))]
        ELSE IF IsType(Dies[entry]) /\ depth' = 1
        THEN [info EXCEPT !.types = Append(@, Type(Dies, typeMap, entry))]
        ELSE info
    /\ entry' = entry + 1
    /\ UNCHANGED <<units, unit, pass, typeMap>>

EndWalk ==
    /\ pass = "walk" /\ ~Readable
    /\ pass' = "lines"
    /\ entry' = 1
    /\ UNCHANGED <<units, unit, depth, typeMap, info>>

\* read_line_table: the rows that end a sequence are no lines.
ReadRow ==
    /\ pass = "lines" /\ entry <= Len(units[unit].rows)
    /\ info' = IF units[unit].rows[entry].end THEN info
               ELSE [info EXCEPT !.lines = Append(@, units[unit].rows[entry].addr)]
    /\ entry' = entry + 1
    /\ UNCHANGED <<units, unit, pass, depth, typeMap>>

EndLines ==
    /\ pass = "lines" /\ entry > Len(units[unit].rows)
    /\ NextUnit
    /\ UNCHANGED <<units, depth, typeMap, info>>

\* units.next() has no more; with an empty .debug_info there was none.
EndParse ==
    /\ pass = "root" /\ unit > Len(units)
    /\ pass' = "parsed"
    /\ UNCHANGED <<units, unit, entry, depth, typeMap, info>>

DwarfNext ==
    \/ ReadRoot \/ MapType \/ EndMap \/ Walk \/ EndWalk \/ ReadRow \/ EndLines \/ EndParse

-----------------------------------------------------------------------------
(* What the unit says, whatever the order of its entries.                  *)

\* The entries the reader gets to.
Reached(dies) == {o \in DOMAIN dies : \A p \in 1 .. o : dies[p].tag # "bad"}

HasPointerName(die) == die.tag = "pointer" /\ die.name # <<>>

\* What the chain of entries from o spells, {} when it has more than n derived
\* types or a pointer with a name of its own; spelt[k] looks at k entries.
Spelling(dies, o, n) ==
    LET spelt[k \in Nat] ==
            [p \in DOMAIN dies |->
                LET to == dies[p].ref
                IN  IF k = 0 THEN {}
                    ELSE IF to \notin DOMAIN dies THEN {<<>>}
                    ELSE IF dies[to].tag \notin DerivedTags THEN {dies[to].name}
                    ELSE IF HasPointerName(dies[to]) THEN {}
                    ELSE {DerivedOr(dies[to].tag, s) : s \in spelt[k - 1][to]}]
    IN  spelt[n + 1][o]

Read(u) == units[u].ok /\ units[u].dies # <<>> /\ units[u].dies[1].tag \in RootTags

DieAt(q) == units[q[1]].dies[q[2]]

\* Unit and offset of all entries that are read.
Entries ==
    {q \in UNION {{u} \X Reached(units[u].dies) : u \in DOMAIN units} : Read(q[1])}

Bodies == {q \in Entries : DieAt(q).tag = "subprogram" /\ IsDefinition(DieAt(q))}

Tops == {q \in Entries : DieAt(q).level = 1 /\ IsType(DieAt(q))}

\* The place of q among the members of S, in the order of the file.
PlaceIn(S, q) == Cardinality({r \in S : r[1] < q[1] \/ (r[1] = q[1] /\ r[2] <= q[2])})

\* The name of a type does not depend on where in its unit the type stands: the
\* functions read are those with a body of every unit that could be loaded, in
\* their order and at whatever depth, and the result of each is spelt as its
\* chain of entries spells it, up to the depth the reader follows, though the
\* names are collected in the order of the file, half collected when they are
\* first asked for, and forgotten from unit to unit.  Pointers with a name
\* (none in C) are out: build_type_map has their name, resolve_type_ref makes
\* one, so it does depend on the order what a const before such a pointer says.
NamesFollowTypes ==
    pass = "parsed" =>
        /\ Len(info.functions) = Cardinality(Bodies)
        /\ \A q \in Bodies :
            LET f == info.functions[PlaceIn(Bodies, q)]
            IN  /\ f.name = DieAt(q).name
                /\ \A s \in Spelling(units[q[1]].dies, q[2], MaxTypeDepth) : f.ret = s

\* The types read are the named ones right under a root, in the order of the
\* file: a depth summed up from differences does not drift, however many
\* subtrees end at once, and starts anew with every unit.
TypesStandUnderRoots ==
    pass = "parsed" =>
        /\ Len(info.types) = Cardinality(Tops)
        /\ \A q \in Tops :
            LET t == info.types[PlaceIn(Tops, q)]
            IN  t.name = DieAt(q).name /\ t.tag = DieAt(q).tag
=============================================================================
