--------------------------------- MODULE MCWebDav ---------------------------------
(* Two collections 1/ and 2/, one of them with a collection 1/2/ inside, and files *)
(* in all of them.  No MOVE goes to a collection its source is in.                 *)
EXTENDS WebDav, TLC

CONSTANTS r1, r2

MCReqs  == {r1, r2}
MCFold  == [n \in Names |-> n]
MCFiles == {<<1, 1>>, <<1, 2, 1>>}
MCDirs  == {<<1, 2>>}
MCTargets == {Path(<<1>>, TRUE), Path(<<2>>, FALSE)}
MCTransfers == {<<Path(<<1>>, FALSE), Path(<<2>>, FALSE)>>, <<Path(<<1>>, TRUE), Path(<<2>>, TRUE)>>, <<Path(<<1, 1>>, FALSE), Path(<<2>>, FALSE)>>,
                <<Path(<<1>>, TRUE), Path(<<1, 2>>, TRUE)>>}

Symmetry == Permutations(MCReqs)

\* Two names that differ in case only.
RenameFold      == [n \in Names |-> 1]
RenameFiles     == {<<1, 1>>}
RenameTransfers == {<<Path(<<1>>, TRUE), Path(<<2>>, TRUE)>>}

=================================================================================
