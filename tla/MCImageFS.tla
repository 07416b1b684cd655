------------------------------ MODULE MCImageFS ------------------------------
(* Two goroutines on one image's FS.                                       *)
EXTENDS ImageFS

File(name, size) ==
  [name |-> name, dir |-> FALSE, data |-> size > 0, missing |-> FALSE, size |-> size,
   children |-> <<>>]
Gone(name) == [File(name, 0) EXCEPT !.missing = TRUE]
Dir(name, children) == [File(name, 0) EXCEPT !.dir = TRUE, !.children = children]

MCMetadata ==
  {<<>>,
   <<Dir(0, <<>>)>>,
   <<Dir(0, <<Dir(1, <<File(1, 0), Gone(3), File(5, 2)>>), File(2, 1), Dir(4, <<>>)>>)>>}
MCInvalid == <<-1>>

OnPaths(op, paths) == {[op |-> op, path |-> p, n |-> 0] : p \in paths}
OnOpened(op, counts) == {[op |-> op, path |-> <<>>, n |-> n] : n \in counts}

(* Paths that are there, one through a file, ones between and behind the   *)
(* names of a directory, and none.                                         *)
MCRequests ==
  OnPaths("open", {<<1>>, <<1, 3>>, <<1, 5>>})
    \cup OnPaths("stat", {<<4>>, <<1, 4>>, <<2, 1>>, <<5>>})
    \cup OnPaths("readdir", {<<>>, <<2>>, MCInvalid})
    \cup OnOpened("next", {0, 1}) \cup OnOpened("read", {1, 3})
=============================================================================
