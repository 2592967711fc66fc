--------------------------- MODULE FrameAnalysis ---------------------------
(***************************************************************************)
(* crates/rustdec-lift/src/frame.rs, analyse_frame: from one id each for   *)
(* rbp and rsp, find what derives from it, drop the prologue and the       *)
(* epilogues, and let slots stand for the pointers into the frame.         *)
(*                                                                         *)
(* Recognition of arrays is left out: it takes two local slots, and every  *)
(* access through rbp comes out at distance 0, so there is one.            *)
(***************************************************************************)
EXTENDS X86Lift

\* All statements of the function, block after block.
AllStmts == FlattenSeq([b \in 1 .. Len(blocks) |-> blocks[b].stmts])

From(s, ops, ids) == IsOp(s, ops) /\ s.args[1].var /\ s.args[1].n \in ids

IsConst(v, ks) == ~v.var /\ v.n \in ks

CalleeSaved == {"rbx", "r12", "r13", "r14", "r15"}

CalleeIds == {id \in DOMAIN names : names[id] \in CalleeSaved}

(***************************************************************************)
(* detect_frame_size: the first constant above 8 that the entry block      *)
(* subtracts from a value of rsp; 0 if there is none.                      *)
(***************************************************************************)
FrameSizeBound == 65536

FrameSize(rsp) ==
    LET step(a, s) ==
            IF a.size # 0 \/ ~From(s, Arithmetic \cup {"Value"}, a.ids) THEN a
            ELSE [ids  |-> a.ids \cup {s.lhs},
                  size |-> IF s.op = "Sub" /\ IsConst(s.args[2], 9 .. FrameSizeBound - 1)
                           THEN s.args[2].n ELSE 0]
    IN  FoldLeft(step, [ids |-> {rsp}, size |-> 0], blocks[1].stmts).size

\* collect_reg_ids_from_seed: one round over the statements is enough, since
\* a statement reads what earlier ones computed.
Spine(seed) ==
    FoldLeft(LAMBDA ids, s :
                IF From(s, Arithmetic \cup {"Value", "Cast"}, ids) THEN ids \cup {s.lhs} ELSE ids,
             {seed}, AllStmts)

Defs(id) == {s \in ToSet(AllStmts) : IsAssign(s) /\ s.lhs = id}

(***************************************************************************)
(* resolve_offset: the distance of a pointer from a set of ids, as a set   *)
(* of one number, or of none.                                              *)
(***************************************************************************)
Offset(ptr, ids) ==
    LET off[id \in Nat] ==
            IF id \in ids THEN {0}
            ELSE UNION {CASE ~s.args[1].var -> {}
                          [] s.op = "Sub" /\ ~s.args[2].var -> {o - s.args[2].n : o \in off[s.args[1].n]}
                          [] s.op = "Add" /\ ~s.args[2].var -> {o + s.args[2].n : o \in off[s.args[1].n]}
                          [] s.op \in {"Value", "Cast"} -> off[s.args[1].n]
                          [] OTHER -> {} : s \in {d \in Defs(id) : d.args # <<>>}}
    IN  IF ptr.var THEN off[ptr.n] ELSE {}

-----------------------------------------------------------------------------
(* eliminate_prologue.                                                     *)

RspDec(s, rsps) == From(s, {"Sub"}, rsps) /\ IsConst(s.args[2], {8})

\* The second half of the push whose first half is statement d.
StoreOf(s, d, ids) ==
    IsStore(s) /\ s.args[1] = V(d.lhs) /\ s.args[2].var /\ s.args[2].n \in ids

\* mode is where the scan has got to: before or after the frame is allocated,
\* in a push after it, or past the prologue.  dec is the first half of a push.
Prologue(rbps, rsps, size) ==
    LET stmts == blocks[1].stmts
        Scan(p, i) ==
            LET s == stmts[i]
            IN  CASE RspDec(s, rsps) /\ p.dec = 0 -> [p EXCEPT !.dec = i]
                  [] p.dec # 0 /\ StoreOf(s, stmts[p.dec], rbps) ->
                        [p EXCEPT !.drop = @ \cup {p.dec, i}, !.dec = 0, !.pushed = TRUE]
                  [] p.dec # 0 /\ StoreOf(s, stmts[p.dec], CalleeIds \ rbps) ->
                        [p EXCEPT !.drop = @ \cup {p.dec, i}, !.dec = 0,
                                  !.saved = @ \cup {o - size : o \in Offset(s.args[1], rsps)}]
                  [] p.dec = 0 /\ p.pushed /\ ~p.moved /\ From(s, {"Value"}, rsps) ->
                        [p EXCEPT !.drop = @ \cup {i}, !.moved = TRUE]
                  [] p.dec = 0 /\ p.moved /\ size > 0 /\ From(s, {"Sub"}, rsps) /\ IsConst(s.args[2], {size}) ->
                        [p EXCEPT !.drop = @ \cup {i}, !.mode = "after"]
                  [] OTHER -> [p EXCEPT !.mode = "stop"]
        ScanAfter(p, i) ==
            CASE p.dec = 0 /\ RspDec(stmts[i], rsps) -> [p EXCEPT !.dec = i]
              [] p.dec # 0 /\ StoreOf(stmts[i], stmts[p.dec], CalleeIds) ->
                    [p EXCEPT !.drop = @ \cup {p.dec, i}, !.dec = 0]
              [] OTHER -> [p EXCEPT !.mode = "stop"]
        step(p, i) == CASE p.mode = "before" -> Scan(p, i)
                        [] p.mode = "after" -> ScanAfter(p, i)
                        [] OTHER -> p
    IN  FoldLeftDomain(step, [mode |-> "before", dec |-> 0, pushed |-> FALSE, moved |-> FALSE,
                              drop |-> {}, saved |-> {}], stmts)

\* eliminate_epilogue: the statements at the end of a block that undo a frame.
Undoes(s, rbps, rsps) ==
    \/ From(s, {"Value"}, rbps) /\ s.lhs \in rsps
    \/ From(s, {"Add"}, rsps) /\ IsConst(s.args[2], {8})
    \/ From(s, {"Load"}, rsps) /\ s.lhs \in rbps

Epilogue(stmts, rbps, rsps) ==
    {i \in 1 .. Len(stmts) : \A j \in i .. Len(stmts) : Undoes(stmts[j], rbps, rsps)}

Dropped(stmts, drop) == [i \in 1 .. Len(stmts) |-> IF i \in drop THEN Nop ELSE stmts[i]]

Stripped(b, rbps, rsps, size) ==
    LET stmts == IF b = 1 THEN Dropped(blocks[1].stmts, Prologue(rbps, rsps, size).drop)
                          ELSE blocks[b].stmts
    IN  IF blocks[b].term.kind = "Return" THEN Dropped(stmts, Epilogue(stmts, rbps, rsps))
                                          ELSE stmts

-----------------------------------------------------------------------------
(* resolve_frame_ptr and rewrite_frame_accesses.                           *)

\* The offset from rbp of the slot a pointer names, if it names one.
SlotOf(ptr, rbps, rsps, size) ==
    LET byRbp == Offset(ptr, rbps)
    IN  IF byRbp # {} THEN byRbp
        ELSE {o - size : o \in {p \in Offset(ptr, rsps) : size > 0 \/ p < 0}}

Accesses(s) == IsStore(s) \/ IsLoad(s)

Named(s, rbps, rsps, size) ==
    LET offs == SlotOf(s.args[1], rbps, rsps, size)
    IN  IF Accesses(s) /\ offs # {}
        THEN [s EXCEPT !.args[1] = V(SlotId(CHOOSE o \in offs : TRUE))]
        ELSE s
=============================================================================
