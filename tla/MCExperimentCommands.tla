------------------------ MODULE MCExperimentCommands ------------------------
(* ExperimentCommands with values for TLC: one study of one context, of     *)
(* four trials at most.  The first fails its objective; the third, in a      *)
(* worktree with changes, repeats the second, as a sampler that is resumed   *)
(* does, and scores the same; the fourth is of another validation design.    *)
EXTENDS ExperimentCommands

CONSTANTS x, t1, t2

MCTuners == {t1, t2}
MCRunIds == {x} \X (1 .. 4)
ByNumber(f) == [i \in MCRunIds |-> f[i[2]]]
MCVerdict == ByNumber(<<"objective", "complete", "complete", "complete">>)
MCRobust == ByNumber(<<2, 1, 1, 3>>)
MCRest == ByNumber(<<0, 0, 0, 0>>)
MCIdOrder == ByNumber(<<4, 3, 2, 1>>)
MCKeys == ByNumber(<<"a", "a", "a", "b">>)
MCDirty == {<<x, 3>>}

Asked(name, ns, dirty) ==
    [name |-> name, ids |-> [n \in DOMAIN ns |-> <<x, ns[n]>>], dirty |-> dirty]
MCCommands == {Asked("report", <<2>>, FALSE), Asked("compare", <<2, 3>>, TRUE),
               Asked("compare", <<3, 1>>, FALSE), Asked("compare", <<2, 4>>, FALSE)}
MCSymmetry == Permutations(MCTuners)
=============================================================================
