----------------------------- MODULE LogSecret -----------------------------
(***************************************************************************)
(* LogSecret (src/internal/analyze): where ssl_log_secret is in a library. *)
(* Without a symbol, the code is read once from start to end with the      *)
(* registers whose value is known, and a call with the address of a keylog *)
(* label in x1 is taken for a call of ssl_log_secret.                      *)
(*                                                                         *)
(* An instruction is a record: what the analysis looks at, and for "other" *)
(* (also what cannot be decoded) the register that it really writes.       *)
(***************************************************************************)
EXTENDS Integers, Sequences, FiniteSets

CONSTANTS
  Regs,        \* registers; x1 is one of them
  LabelAt,     \* addrLabel: the addresses at which there is a keylog label
  Segments     \* loadSegments: sequence of [addr, len, off]

VARIABLES
  sym,         \* the input: the symbol of MiniDebugInfo, or NoAddr
  code         \* and the instructions

X1 == 1
ClientRandomLabel == "CLIENT_RANDOM"
Labels == {LabelAt[a] : a \in DOMAIN LabelAt}
Unknown == -1
NoAddr == -1                         \* the error of FileOffset and of the heuristic

ASSUME LogSecretAssumption ==
  X1 \in Regs /\ DOMAIN LabelAt \subseteq Nat \ {0} /\ ClientRandomLabel \in Labels

FileOffset(vaddr) ==
  LET In(g) == vaddr \in g.addr .. g.addr + g.len - 1
      in == {k \in DOMAIN Segments : In(Segments[k])}
      k == CHOOSE k \in in : \A j \in in : k <= j IN
  IF in = {} THEN NoAddr ELSE vaddr - Segments[k].addr + Segments[k].off

-----------------------------------------------------------------------------
(* regValues, and the effect of an instruction on it.                        *)

NoneKnown == [r \in Regs |-> Unknown]

Calls == {"bl", "b", "blr", "bcond"}     \* BL, B, BLR and BR, B with a condition
Ends == Calls \cup {"cbz", "ret"}
Instructions == [op : Ends \cup {"adrp", "adr", "add", "other"}, dst : Regs, src : Regs, val : Int]

TrackThrough(rv, in) ==              \* mutant: a call leaves the registers known
  CASE in.op \in {"adrp", "adr"} -> [rv EXCEPT ![in.dst] = in.val]
    [] in.op = "add" -> [rv EXCEPT ![in.dst] =
                           IF rv[in.src] = Unknown THEN Unknown ELSE rv[in.src] + in.val]
    [] in.op \in Ends \ {"bl", "blr"} -> NoneKnown
    [] OTHER -> rv

Track(rv, in) ==
  CASE in.op \in {"adrp", "adr"} -> [rv EXCEPT ![in.dst] = in.val]
    [] in.op = "add" -> [rv EXCEPT ![in.dst] =
                           IF rv[in.src] = Unknown THEN Unknown ELSE rv[in.src] + in.val]
    [] in.op \in Ends -> NoneKnown
    [] OTHER -> rv

(* Known(is)[i]: after the first i instructions.                             *)
Known(is) ==
  LET rv[i \in 0 .. Len(is)] == IF i = 0 THEN NoneKnown ELSE Track(rv[i - 1], is[i]) IN rv

Target(rv, in) ==                    \* 0: none
  CASE in.op \in {"bl", "b"} -> in.val
    [] in.op = "blr" -> IF rv[in.src] = Unknown THEN 0 ELSE rv[in.src]
    [] OTHER -> 0

(* candidates: the calls with the label, and what they call.                 *)
Sites(is, label) ==
  {i \in 1 .. Len(is) :
     LET rv == Known(is)[i - 1] IN
     /\ is[i].op \in Calls /\ Target(rv, is[i]) # 0
     /\ rv[X1] \in DOMAIN LabelAt /\ LabelAt[rv[X1]] = label}
Candidates(is, label) == {Target(Known(is)[i - 1], is[i]) : i \in Sites(is, label)}

(* The one call with CLIENT_RANDOM, if the calls with other labels agree.    *)
LogSecretHeuristic(is) ==
  LET vaddr == CHOOSE a \in Candidates(is, ClientRandomLabel) : TRUE IN
  IF Cardinality(Sites(is, ClientRandomLabel)) # 1 THEN NoAddr
  ELSE IF \E l \in Labels : Candidates(is, l) # {} /\ vaddr \notin Candidates(is, l)
  THEN NoAddr ELSE FileOffset(vaddr)

(* The symbol of MiniDebugInfo comes first, if it can be mapped.             *)
LogSecret(minidebug, is) ==
  IF minidebug # NoAddr /\ FileOffset(minidebug) # NoAddr THEN FileOffset(minidebug)
  ELSE LogSecretHeuristic(is)

-----------------------------------------------------------------------------
(* External: what the processor does.  A call leaves nothing in the          *)
(* registers, what follows a branch that is taken is reached from somewhere  *)
(* else; a condition that fails changes nothing.                             *)

Execute(rv, in) ==
  CASE in.op \in {"adrp", "adr"} -> [rv EXCEPT ![in.dst] = in.val]
    [] in.op = "add" -> [rv EXCEPT ![in.dst] =
                           IF rv[in.src] = Unknown THEN Unknown ELSE rv[in.src] + in.val]
    [] in.op = "other" -> [rv EXCEPT ![in.dst] = Unknown]
    [] in.op \in {"bl", "b", "blr", "ret"} -> NoneKnown
    [] OTHER -> rv

Real(is) ==
  LET rv[i \in 0 .. Len(is)] == IF i = 0 THEN NoneKnown ELSE Execute(rv[i - 1], is[i]) IN rv

CalledWith(is, label) ==
  {Target(Real(is)[i - 1], is[i]) :
     i \in {j \in 1 .. Len(is) :
              LET rv == Real(is)[j - 1] IN
              /\ is[j].op \in Calls \ {"bcond"}
              /\ rv[X1] \in DOMAIN LabelAt /\ LabelAt[rv[X1]] = label}} \ {0}

(* "It's not going to get split": no instruction that the analysis ignores   *)
(* writes a register that it takes for known.                                *)
DirectLoads(is) ==
  \A i \in 1 .. Len(is) : is[i].op = "other" => Known(is)[i - 1][is[i].dst] = Unknown

(* What is found without a symbol is a function that the code really calls   *)
(* with CLIENT_RANDOM, and for each label that was seen, one that the code   *)
(* really calls with that label: never another function, where a probe would *)
(* read other arguments as secrets.                                          *)
LogSecretIsCalled ==
  LET found == LogSecret(sym, code) IN
  DirectLoads(code) /\ found # NoAddr /\ found # FileOffset(sym) =>
    \E a \in CalledWith(code, ClientRandomLabel) :
      /\ FileOffset(a) = found
      /\ \A l \in Labels : Candidates(code, l) # {} => a \in CalledWith(code, l)
=============================================================================
