-------------------------- MODULE MCSourceResearch --------------------------
(* Instances of SourceResearch for TLC.                                    *)
EXTENDS SourceResearch, TLC

CONSTANTS r1, r2, r3, s1, s2

\* One request; and three, of which any two are asked: both about one security,
\* or one about each.
SingleRequest == r1 :> s1
SameOrOther == r1 :> s1 @@ r2 :> s1 @@ r3 :> s2

\* Provider runs, tabs and recovery handlers are interchangeable, and so are the
\* two requests about one security.
Alike == Permutations(Runs) \union Permutations(Tabs) \union Permutations(Operators)
            \union Permutations({r1, r2})
=============================================================================
