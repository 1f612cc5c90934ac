-------------------------------- MODULE MCFs --------------------------------
EXTENDS Fs, TLC

CONSTANTS a, b

C(op, abs, path, new) == [op |-> op, abs |-> abs, path |-> path, new |-> new]

(* Files and directories under the same names, in the root, in a directory  *)
(* that comes and goes and in the current directory.                        *)
MCCalls == {
  C("mkdir", TRUE, <<a>>, <<>>),
  C("create", TRUE, <<a, b>>, <<>>),
  C("mkdir", FALSE, <<b>>, <<>>),
  C("link", TRUE, <<a, b>>, <<b>>),
  C("unlink", TRUE, <<a>>, <<>>),
  C("unlink", TRUE, <<a, ".">>, <<>>),
  C("mknod", TRUE, <<b>>, <<>>),
  C("unlink", TRUE, <<a, b>>, <<>>),
  C("unlink", TRUE, <<b>>, <<>>),
  C("open", TRUE, <<b>>, <<>>),
  C("open", TRUE, <<b, a>>, <<>>),
  C("chdir", TRUE, <<a>>, <<>>),
  C("chdir", TRUE, <<>>, <<>>) }

Symmetry == Permutations(Procs)
=============================================================================
