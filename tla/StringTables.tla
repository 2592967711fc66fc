---------------------------- MODULE StringTables ----------------------------
(***************************************************************************)
(* The two string tables of a module.  extract_strings                     *)
(* (crates/rustdec-loader/src/strings.rs) scans every data section twice,  *)
(* for ASCII and for UTF-16; with debug information, recover_strings       *)
(* (crates/rustdec-analysis/src/string_recovery.rs) scans one read-only    *)
(* section its own way, and its table replaces the first in the module.    *)
(* The debug information is read before (DwarfReader).                     *)
(*                                                                         *)
(* A byte is one of                                                        *)
(*   "nul", "blank" (tab, newline, return), "control" (below 0x20),        *)
(*   "char" (0x20 to 0x7e) and "high".                                     *)
(***************************************************************************)
EXTENDS DwarfReader

CONSTANTS
    Files(_),    \* the sequences of sections that go with debug information
    MinString,   \* 4
    MaxString,   \* 1024
    Near         \* 0x1000: closer to a frame offset an address counts as used

\* A section of the file: kind is "code", "rodata", "data" or another, rodataName
\* says that its name is that of read-only data, size is that in memory.
Byte == {"nul", "blank", "control", "char", "high"}

FileSection == [kind : STRING, rodataName : BOOLEAN, va : Nat, data : Seq(Byte), size : Nat]

ASSUME FileAssumption ==
    /\ \A p \in Programs : Files(p) \subseteq Seq(FileSection)
    /\ MinString \in Nat \ {0} /\ MaxString \in Nat \ {0}

VARIABLES
    sections,   \* obj.sections
    step,       \* what comes next
    sec,        \* index of the section being scanned
    pos, start, \* offsets in it
    buf,        \* the text so far
    printable,  \* how many of it are no blanks
    strings,    \* the string table: address -> text
    candidates  \* string_candidates: address -> [text, confidence]

scanVars == <<step, sec, pos, start, buf, printable, strings, candidates>>
loaderVars == <<dwarfVars, sections, scanVars>>

Empty == [a \in {} |-> <<>>]

LoaderInit ==
    /\ DwarfInit
    /\ sections \in Files(units)
    /\ step = "dwarf"
    /\ sec = 1 /\ pos = 0 /\ start = 0 /\ buf = <<>> /\ printable = 0
    /\ strings = Empty /\ candidates = Empty

Data == sections[sec].data
At(k) == Data[k + 1]
Put(table, a, t) == [b \in DOMAIN table \cup {a} |-> IF b = a THEN t ELSE table[b]]

\* load_bytes reads the debug information, then analyse extracts the strings.
LoadDwarf == DwarfNext /\ UNCHANGED <<sections, scanVars>>

StartScan ==
    /\ step = "dwarf" /\ pass = "parsed"
    /\ step' = "ascii"
    /\ UNCHANGED <<dwarfVars, sections, sec, pos, start, buf, printable, strings, candidates>>

-----------------------------------------------------------------------------
(* extract_strings.                                                        *)

HasData == sec <= Len(sections) /\ sections[sec].kind \in {"rodata", "data"}

\* Mutation: a byte that is no text does not move the start.
RestartInPlace(n) ==
    /\ buf' = <<>> /\ printable' = 0
    /\ pos' = pos + n
    /\ start' = IF At(pos) = "nul" THEN pos + n ELSE start

\* The candidate ends, and the next begins n bytes further on.
Restart(n) ==
    /\ buf' = <<>> /\ printable' = 0
    /\ pos' = pos + n
    /\ start' = pos + n

LongEnough(n) == n >= MinString

\* A candidate that is over.
AsciiEnd ==
    /\ At(pos) = "nul"
    /\ strings' = IF LongEnough(printable)
                  THEN Put(strings, sections[sec].va + start, buf) ELSE strings
    /\ Restart(1)

AsciiText ==
    /\ At(pos) \in {"blank", "char"}
    /\ buf' = Append(buf, At(pos))
    /\ printable' = printable + (IF At(pos) = "char" THEN 1 ELSE 0)
    /\ pos' = pos + 1
    /\ UNCHANGED <<start, strings>>

AsciiOther ==
    /\ At(pos) \in {"control", "high"}
    /\ Restart(1)
    /\ UNCHANGED strings

\* One round of the loop of scan_section.
ScanAscii ==
    /\ step = "ascii" /\ HasData /\ pos < Len(Data)
    /\ AsciiEnd \/ AsciiText \/ AsciiOther
    /\ UNCHANGED <<dwarfVars, sections, step, sec, candidates>>

EndAscii ==
    /\ step = "ascii" /\ HasData /\ pos >= Len(Data)
    /\ step' = "wide"
    /\ pos' = 0 /\ start' = 0 /\ buf' = <<>> /\ printable' = 0
    /\ UNCHANGED <<dwarfVars, sections, sec, strings, candidates>>

WideEnd ==
    /\ At(pos) = "nul" /\ At(pos + 1) = "nul"
    /\ LET va == sections[sec].va + start
       IN  strings' = IF LongEnough(printable) /\ va \notin DOMAIN strings
                      THEN Put(strings, va, buf) ELSE strings
    /\ Restart(2)

WideText ==
    /\ At(pos) \in {"blank", "char"} /\ At(pos + 1) = "nul"
    /\ buf' = Append(buf, At(pos))
    /\ printable' = printable + (IF At(pos) = "char" THEN 1 ELSE 0)
    /\ pos' = pos + 2
    /\ UNCHANGED <<start, strings>>

WideOther ==
    /\ At(pos + 1) # "nul" \/ At(pos) \in {"control", "high"}
    /\ Restart(1)
    /\ UNCHANGED strings

\* One round of the loop of scan_utf16_le.
ScanWide ==
    /\ step = "wide" /\ pos + 1 < Len(Data)
    /\ WideEnd \/ WideText \/ WideOther
    /\ UNCHANGED <<dwarfVars, sections, step, sec, candidates>>

\* The next section; one of another kind is left out.
NextSection ==
    /\ \/ step = "wide" /\ pos + 1 >= Len(Data)
       \/ step = "ascii" /\ sec <= Len(sections) /\ ~HasData
    /\ step' = "ascii"
    /\ sec' = sec + 1
    /\ pos' = 0 /\ start' = 0 /\ buf' = <<>> /\ printable' = 0
    /\ UNCHANGED <<dwarfVars, sections, strings, candidates>>

-----------------------------------------------------------------------------
(* recover_strings.                                                        *)

Named == {k \in DOMAIN sections : sections[k].rodataName}

\* find_rodata_section: the first of that name.
EndScan ==
    /\ step = "ascii" /\ sec > Len(sections)
    /\ IF info.state = "none" THEN step' = "done" /\ UNCHANGED sec
       ELSE IF Named = {} THEN step' = "score" /\ UNCHANGED sec
       ELSE /\ step' = "recover"
            /\ sec' = CHOOSE k \in Named : \A m \in Named : k <= m
    /\ pos' = 0
    /\ UNCHANGED <<dwarfVars, sections, start, buf, printable, strings, candidates>>

\* identify_string_length: up to a byte below 0x20 or the end; 0 for None.
LengthFrom(k) ==
    LET stop == {n \in 0 .. Len(Data) - k :
                    \/ n = MaxString \/ k + n = Len(Data)
                    \/ At(k + n) \in {"nul", "blank", "control"}}
        len  == CHOOSE n \in stop : \A m \in stop : n <= m
    IN  IF len >= MinString THEN len ELSE 0

\* is_referenced_in_dwarf.
Referenced(a) ==
    \/ \E f \in DOMAIN info.functions :
        \E vs \in {info.functions[f].params, info.functions[f].locals} : \E v \in DOMAIN vs :
            /\ vs[v].offset > 0
            /\ a - vs[v].offset < Near /\ vs[v].offset - a < Near
    \/ \E l \in DOMAIN info.lines : info.lines[l] = a

\* calculate_confidence, in hundredths: no byte of the text is a control or 0.
Confidence(text) ==
    LET chars == Cardinality({n \in DOMAIN text : text[n] = "char"})
    IN  IF 10 * chars > 8 * Len(text) THEN 80
        ELSE IF 2 * chars > Len(text) THEN 65 ELSE 50

Raised(c) == (c * 7) \div 10 + 30

\* Mutation: on to the next byte after a string too.
StepOver(n) == 1

\* How far the scan goes on after a candidate of n bytes, 0 for none.
Advance(n) == IF n = 0 THEN 1 ELSE n

\* One round of scan_string_candidates, the skipping of zeros a round of its own.
RecoverAt ==
    /\ step = "recover" /\ pos < sections[sec].size /\ pos < Len(Data)
    /\ LET len  == IF At(pos) = "nul" THEN 0 ELSE LengthFrom(pos)
           text == SubSeq(Data, pos + 1, pos + len)
           a    == sections[sec].va + pos
       IN  /\ candidates' =
                IF len = 0 THEN candidates
                ELSE Put(candidates, a,
                         [text |-> text,
                          confidence |-> IF Referenced(a) THEN Raised(Confidence(text))
                                         ELSE Confidence(text)])
           /\ pos' = pos + Advance(len)
    /\ UNCHANGED <<dwarfVars, sections, step, sec, start, buf, printable, strings>>

\* The bytes of the section are not in the file: the index is out of range.
Panic ==
    /\ step = "recover" /\ pos < sections[sec].size /\ pos >= Len(Data)
    /\ step' = "panicked"
    /\ UNCHANGED <<dwarfVars, sections, sec, pos, start, buf, printable, strings, candidates>>

EndRecover ==
    /\ step = "recover" /\ pos >= sections[sec].size
    /\ step' = "score"
    /\ UNCHANGED <<dwarfVars, sections, sec, pos, start, buf, printable, strings, candidates>>

\* A section with code makes up references for every candidate.
CodeSections == {k \in DOMAIN sections : sections[k].kind = "code" /\ sections[k].data # <<>>}

HasCode == CodeSections # {}

\* One with bytes in the file and no size in memory: addresses are taken modulo
\* the size.
DividesByZero == DOMAIN candidates # {} /\ \E k \in CodeSections : sections[k].size = 0

PanicInScore ==
    /\ step = "score" /\ DividesByZero
    /\ step' = "panicked"
    /\ UNCHANGED <<dwarfVars, sections, sec, pos, start, buf, printable, strings, candidates>>

Score(c) == IF HasCode THEN Raised(c.confidence) ELSE c.confidence

\* find_string_references, trace_string_usage and the choice of the best; the
\* table of the module is now this one.
Recover ==
    /\ step = "score" /\ ~DividesByZero
    /\ strings' = [a \in {b \in DOMAIN candidates : Score(candidates[b]) > 60} |->
                      candidates[a].text]
    /\ step' = "done"
    /\ UNCHANGED <<dwarfVars, sections, sec, pos, start, buf, printable, candidates>>

Finished == step \in {"done", "panicked"} /\ UNCHANGED loaderVars

LoaderNext ==
    \/ LoadDwarf \/ StartScan
    \/ ScanAscii \/ EndAscii \/ ScanWide \/ NextSection
    \/ EndScan \/ RecoverAt \/ Panic \/ EndRecover \/ Recover \/ PanicInScore
    \/ Finished

LoaderSpec == LoaderInit /\ [][LoaderNext]_loaderVars

-----------------------------------------------------------------------------
(* What the tables say.                                                    *)

Text == {"blank", "char"}

\* The bytes from k of section s on are the ASCII text t and its end.
ReadsAscii(s, k, t) ==
    LET data == sections[s].data
    IN  /\ k + Len(t) < Len(data)
        /\ SubSeq(data, k + 1, k + Len(t)) = t
        /\ data[k + Len(t) + 1] = "nul"

\* The bytes from k of section s on are the wide text t and its end.
ReadsWide(s, k, t) ==
    LET data == sections[s].data
    IN  /\ k + 2 * Len(t) + 1 < Len(data)
        /\ \A n \in 1 .. Len(t) : data[k + 2 * n - 1] = t[n] /\ data[k + 2 * n] = "nul"
        /\ data[k + 2 * Len(t) + 1] = "nul" /\ data[k + 2 * Len(t) + 2] = "nul"

Chars(t) == Cardinality({n \in DOMAIN t : t[n] = "char"})

EntriesReadBack ==
    \A a \in DOMAIN strings :
        /\ Chars(strings[a]) >= MinString
        /\ \E s \in DOMAIN sections :
            LET k == a - sections[s].va
            IN  k >= 0 /\ (ReadsAscii(s, k, strings[a]) \/ ReadsWide(s, k, strings[a]))

\* A literal at k of a section that has been scanned, not the rest of a longer
\* one.
IsLiteral(s, k, t) ==
    /\ ReadsAscii(s, k, t)
    /\ \A m \in DOMAIN t : t[m] \in Text
    /\ Chars(t) >= MinString
    /\ k = 0 \/ sections[s].data[k] \notin Text

LiteralsAreFound ==
    \A s \in 1 .. sec - 1 : sections[s].kind \in {"rodata", "data"} =>
        LET data == sections[s].data
        IN  \A k \in 0 .. Len(data) - 1 : \A n \in 1 .. Len(data) - k - 1 :
                IsLiteral(s, k, SubSeq(data, k + 1, k + n)) =>
                    sections[s].va + k \in DOMAIN strings

\* While the sections are scanned, twice each and one over the other, every
\* entry of the table is what a program reads at its address, a text to the
\* first zero, narrow or wide, with enough of it printable; and no ASCII literal
\* that is long enough is missed, whatever stands before it.
TablesAreText ==
    step \in {"ascii", "wide"} => EntriesReadBack /\ LiteralsAreFound

\* Of the recovered strings no two share a byte, so no literal of the output is
\* a tail of another one; and each is what the section has at its address, up
\* to no further than its end or a zero.
RecoveredAreDisjoint ==
    step \in {"recover", "score"} =>
        \A a, b \in DOMAIN candidates :
            /\ a < b => a + Len(candidates[a].text) <= b
            /\ sections[sec].va <= a
            /\ a + Len(candidates[a].text) <= sections[sec].va + Len(Data)
            /\ \A n \in DOMAIN candidates[a].text :
                /\ candidates[a].text[n] = Data[a - sections[sec].va + n]
                /\ candidates[a].text[n] # "nul"
=============================================================================
