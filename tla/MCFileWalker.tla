---------------------------- MODULE MCFileWalker ----------------------------
(* A small tree for FileWalker: the root holds a directory with three      *)
(* regular files, a regular file of its own and an excluded directory with  *)
(* a file.  Both checkers can be busy while the queue fills up.             *)
EXTENDS FileWalker

Tree == <<"/", "/d", "/d/a", "/d/b", "/d/c", "/e", "/x", "/x/f">>
MCPath == Range(Tree)
MCPlace == [p \in MCPath |-> CHOOSE i \in DOMAIN Tree : Tree[i] = p]
MCDir == {"/", "/d", "/x"}
MCRegular == {"/d/a", "/d/b", "/d/c", "/e", "/x/f"}
MCChildren == [d \in MCDir |-> CASE d = "/" -> {"/d", "/e", "/x"}
                                 [] d = "/d" -> {"/d/a", "/d/b", "/d/c"}
                                 [] d = "/x" -> {"/x/f"}]
MCContentRegexes == <<"secret", "key">>
MCPathMatch == {<<"/d/a", "etc">>, <<"/d/a", "conf">>, <<"/d/b", "etc">>, <<"/e", "conf">>}
MCContentMatch == {<<"/d/a", "secret">>, <<"/d/a", "key">>, <<"/d/b", "secret">>, <<"/d/b", "key">>}
=============================================================================
