----------------------------- MODULE MCBPFProbe -----------------------------
(* Two configurations, and two uprobes of which one may have either.         *)
EXTENDS BPFProbe

ThreeTargets == {[key |-> "k1", cfg |-> "g1"], [key |-> "k2", cfg |-> "g1"],
                 [key |-> "k1", cfg |-> "g2"]}
=============================================================================
