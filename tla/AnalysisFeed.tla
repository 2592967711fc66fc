---------------------------- MODULE AnalysisFeed ----------------------------
(***************************************************************************)
(* What the bridge promises its listeners, with no channel and no task: of *)
(* each load they hear AnalysisStarted at once and then, one at a time, a  *)
(* growing prefix of one of two transcripts: the error alone, or sections, *)
(* every function in analysis order, AnalysisDone and CallGraphReady; and  *)
(* the transcript of every load that was started is completed some day.    *)
(* Loads are independent: nothing is said of how their transcripts mix.    *)
(***************************************************************************)
EXTENDS Naturals, Sequences

CONSTANTS Files, FunctionsOf, MaxLoads

VARIABLES
    started,  \* the files whose load was announced, in order
    heard     \* heard[l]: what the listeners heard of load l since

feedVars == <<started, heard>>

Said(kind, fn) == [kind |-> kind, fn |-> fn]

Success(f) ==
    <<Said("SectionsLoaded", 0)>>
    \o [i \in 1 .. Len(FunctionsOf[f]) |-> Said("AnalysisFunctionReady", i)]
    \o <<Said("AnalysisDone", 0), Said("CallGraphReady", 0)>>

Failure == <<Said("AnalysisError", 0)>>

Transcripts(f) == {Success(f), Failure}

FeedInit ==
    /\ started = <<>>
    /\ heard = [l \in 1 .. MaxLoads |-> <<>>]

Start(f) ==
    /\ Len(started) < MaxLoads
    /\ started' = Append(started, f)
    /\ UNCHANGED heard

\* One more event of a transcript that agrees with all that was heard.
Hear(l) ==
    /\ l <= Len(started)
    /\ \E t \in Transcripts(started[l]) :
        /\ Len(heard[l]) < Len(t)
        /\ heard[l] = SubSeq(t, 1, Len(heard[l]))
        /\ heard' = [heard EXCEPT ![l] = Append(@, t[Len(@) + 1])]
    /\ UNCHANGED started

FeedNext ==
    \/ \E f \in Files : Start(f)
    \/ \E l \in 1 .. MaxLoads : Hear(l)

FeedSafety == FeedInit /\ [][FeedNext]_feedVars

FeedSpec ==
    /\ FeedSafety
    /\ \A l \in 1 .. MaxLoads : WF_feedVars(Hear(l))
=============================================================================
