----------------------------- MODULE Highlighter -----------------------------
(***************************************************************************)
(* The syntax highlighting of the code panel (rustdec-gui/src/ui/code.rs): *)
(* a text is coloured some lines at a time by an idle callback that puts   *)
(* itself back into the main loop, while the user goes on selecting.  The  *)
(* callback of an earlier text is not taken out and works on whatever the  *)
(* buffer holds when it runs.                                              *)
(***************************************************************************)
EXTENDS Naturals, FiniteSets

CONSTANTS
    MaxLines,     \* longest text
    LinesPerTick, \* 250
    MaxTexts      \* bound on the texts that are set

ASSUME HighlighterAssumption ==
    /\ MaxLines \in Nat \ {0} /\ MaxTexts \in Nat
    /\ LinesPerTick \in Nat \ {0}

VARIABLES
    text,         \* the buffer: the number of the text, its lines, whether it is code
    coloured,     \* the lines of it that highlight_range went over
    highlighting, \* the flag of the panel
    idle          \* the callbacks in the main loop: [text, next], next being next_line

vars == <<text, coloured, highlighting, idle>>

Init ==
    /\ text = [number |-> 0, lines |-> MaxLines, code |-> FALSE]
    /\ coloured = {}
    /\ highlighting = FALSE
    /\ idle = {}

Lines(t) == 0 .. t.lines - 1

Replaced(n, code) ==
    /\ text.number < MaxTexts
    /\ text' = [number |-> text.number + 1, lines |-> n, code |-> code]
    /\ coloured' = {}

\* AnalysisStarted, AnalysisError and a section that is no code; AnalysisDone
\* as well, when it finds the placeholder, but it leaves the flag alone.
ShowPlain ==
    /\ \E n \in 1 .. MaxLines : Replaced(n, FALSE)
    /\ highlighting' \in {FALSE, highlighting}
    /\ UNCHANGED idle

\* FunctionSelected, and SectionSelected for code: schedule_highlighting takes
\* the tags away and enters its callback.
ShowCode ==
    /\ \E n \in 1 .. MaxLines : Replaced(n, TRUE)
    /\ highlighting' = TRUE
    /\ idle' = idle \cup {[text |-> text'.number, next |-> 0]}

Least(a, b) == IF a < b THEN a ELSE b

\* Mutation: the flag ends the callback that finds it lowered.
EndsWithFlag(c, to) == to >= text.lines \/ ~highlighting

\* The callback does not enter itself again: the text, not the flag, decides.
Ends(c, to) == to >= text.lines

\* One run of an idle callback; with nothing left it colours nothing.
Tick(c) ==
    LET to == Least(c.next + LinesPerTick, text.lines)
    IN  /\ c \in idle
        /\ coloured' = coloured \cup {l \in Lines(text) : c.next <= l /\ l < to}
        /\ IF Ends(c, to)
           THEN /\ idle' = idle \ {c}
                /\ highlighting' = FALSE
           ELSE /\ idle' = (idle \ {c}) \cup {[c EXCEPT !.next = to]}
                /\ UNCHANGED highlighting
        /\ UNCHANGED text

Run(n) == \E c \in idle : c.text = n /\ Tick(c)

Next ==
    \/ ShowPlain \/ ShowCode
    \/ \E n \in 1 .. MaxTexts : Run(n)

\* The main loop runs every idle callback; nobody has to select anything.
Spec == Init /\ [][Next]_vars /\ \A n \in 1 .. MaxTexts : WF_vars(Run(n))

-----------------------------------------------------------------------------
\* However many callbacks of earlier texts are still in the main loop, and
\* whatever they do to the flag the callbacks share: a function that stays on
\* the screen is coloured to its last line.
TextIsColoured ==
    \A n \in 1 .. MaxTexts :
        text.number = n /\ text.code ~> text.number # n \/ coloured = Lines(text)
=============================================================================
