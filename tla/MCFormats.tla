----------------------------- MODULE MCFormats -----------------------------
(* The perf ring, run as it is; or, in an initial state of its own, an input *)
(* of the functions of KVLines or LogSecret.                                 *)
EXTENDS PerfRing, KVLines, LogSecret

TwoProps == <<"path", "sha256">>
Strings(n) == UNION {[1 .. k -> Chars] : k \in 0 .. n}
Objects == [key : Strings(2), props : [1 .. 2 -> Strings(1)], comment : Strings(1)]
Another == [key |-> <<Bare, Bare, Bare>>, props |-> <<<<Quote, Escape>>, <<>>>>,
            comment |-> <<Mark, Blank, Mark>>]

(* Address 4 has CLIENT_RANDOM, 5 another label; functions are at 8 and 9,   *)
(* and at 20, in no segment.                                                 *)
TwoLabels == 4 :> "CLIENT_RANDOM" @@ 5 :> "EXPORTER_SECRET"
TwoSegments == <<[addr |-> 1, len |-> 6, off |-> 0], [addr |-> 8, len |-> 2, off |-> 6]>>
Inst(op, dst, src, val) == [op |-> op, dst |-> dst, src |-> src, val |-> val]
Insts == {Inst("adrp", 1, 0, 3), Inst("adr", 0, 0, 8), Inst("add", 1, 1, 1),
          Inst("add", 0, 1, 2), Inst("bl", 0, 0, 9), Inst("blr", 0, 0, 0),
          Inst("bcond", 0, 0, 0), Inst("cbz", 0, 0, 0), Inst("ret", 0, 0, 0),
          Inst("other", 1, 0, 0)}
CallOf(label, op, f) ==
  <<Inst("adrp", 1, 0, 3), Inst("add", 1, 1, label), Inst(op, 0, 0, f)>>
Tails == {<<>>, CallOf(1, "b", 8), CallOf(1, "bl", 20), CallOf(2, "bl", 8), CallOf(2, "bl", 9)}
Codes == {a \o b : a \in [1 .. 4 -> Insts], b \in Tails}

vars == <<ringVars, objs, sym, code>>
NoInput == objs = {} /\ code = <<>>

Init ==
  /\ RingInit
  /\ \/ objs = {} /\ sym = NoAddr /\ code = <<>>
     \/ \E o \in Objects : objs \in {{o}, {o, Another}} /\ sym = NoAddr /\ code = <<>>
     \/ objs = {} /\ sym \in {NoAddr, 9, 20} /\ code \in Codes

RunRing == NoInput /\ RingNext /\ UNCHANGED <<objs, sym, code>>
Checked == (~NoInput \/ samples = MaxSamples) /\ UNCHANGED vars
Next == RunRing \/ Checked

Spec == Init /\ [][Next]_vars
=============================================================================
