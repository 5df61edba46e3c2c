----------------------------- MODULE MCGitRead -----------------------------
(***************************************************************************)
(* GitRead for TLC: a clean tree, one with every code git has and a few    *)
(* twice, and one where lines were only deleted.                           *)
(***************************************************************************)
EXTENDS GitRead, FiniteSetsExt

MCClean == [ status |-> << >>, ins |-> 0, del |-> 0, upstream |-> << 0, 0 >> ]
MCEachCode == FoldSet(LAMBDA c, s : Append(s, c), << >>, Codes)
MCAll == [ status |-> MCEachCode \o << << "?", "?" >>, << "A", "M" >> >>,
           ins |-> 3, del |-> 2, upstream |-> << 1, 2 >> ]
MCDeleted == [ status |-> << << " ", "D" >> >>, ins |-> 0, del |-> 4,
               upstream |-> << 0, 3 >> ]

MCWorkTrees == { MCClean, MCAll, MCDeleted }
MCOneTree == { MCClean }
MCScopes == { {}, { "system", "global" }, { "global", "local" } }
MCNoScopes == { {} }
=============================================================================
