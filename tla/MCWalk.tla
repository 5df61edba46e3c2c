------------------------------- MODULE MCWalk -------------------------------
(***************************************************************************)
(* Walk for TLC: a project with directories "app" and "lib", one that is   *)
(* never entered ("dist"), and a file of that name, which is not skipped.  *)
(***************************************************************************)
EXTENDS Walk

CONSTANTS plain, anyMain, topMain, dirApp

App == << "app" >>
Lib == << "lib" >>
Dist == << "dist" >>

MCOrder == << ".gitignore", "app", "dist", "lib", "main" >>
MCDirs == { << >>, App, Lib, Dist }
MCFiles == { << ".gitignore" >>, << "main" >>, << "app", ".gitignore" >>,
             << "app", "dist" >>, << "app", "main" >>, << "lib", "main" >>, << "dist", "main" >> }

\* As .gitignore files: nothing, "main", "/main" and "app/".
MCRulesIn ==
  [ c \in Contents |->
      LET rule(n, a, d) == { [ name |-> n, anchored |-> a, dirOnly |-> d ] }
      IN  CASE c = plain -> {}
            [] c = anyMain -> rule("main", FALSE, FALSE)
            [] c = topMain -> rule("main", TRUE, FALSE)
            [] c = dirApp -> rule("app", FALSE, TRUE) ]

\* Two of them are as long.
MCSizeIn == [ c \in Contents |-> IF c = plain THEN 0 ELSE IF c = dirApp THEN 2 ELSE 1 ]

\* Every .gitignore or none at the top, with one in app, or with another kind
\* of main in app, or of app itself.
MCTrees ==
  LET with(c) == [ kind |-> "file", content |-> c, time |-> 1 ]
      node(k) == [ with(plain) EXCEPT !.kind = k ]
      tree(top, inner, kinds) ==
        [ p \in MCDirs \cup { << "main" >>, << "app", "dist" >>, << "app", "main" >>,
                              << "lib", "main" >>, << "dist", "main" >> }
                \cup { << ".gitignore" >> : c \in top }
                \cup { << "app", ".gitignore" >> : c \in inner } |->
            CASE p = << ".gitignore" >> -> with(CHOOSE c \in top : TRUE)
              [] p = << "app", ".gitignore" >> -> with(CHOOSE c \in inner : TRUE)
              [] p = App -> node(kinds[1])
              [] p \in { << >>, Lib, Dist } -> node("dir")
              [] p = << "app", "main" >> -> node(kinds[2])
              [] OTHER -> node("file") ]
      none == { {} }
      others == { << "dir", k >> : k \in { "big", "locked", "link" } }
                  \cup { << "lockedDir", "file" >> }
  IN  { tree(top, inner, kinds) :
          top \in none \cup { { c } : c \in Contents },
          inner \in none \cup { { anyMain } }, kinds \in { << "dir", "file" >> } }
        \cup { tree(top, {}, kinds) : top \in none \cup { { c } : c \in Contents },
                                      kinds \in others }
=============================================================================
