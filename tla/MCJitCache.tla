----------------------------- MODULE MCJitCache -----------------------------
(* An instance of JitCache: blocks at mirrors, code that branches.         *)
EXTENDS JitCache

At(cpu, start, codes) == [cpu |-> cpu, start |-> start, codes |-> codes]
Code(body, literal)   == [body |-> body, literal |-> literal]

\* A block that loads a literal in another range, or, when a branch is taken, does
\* not; and the other CPU's block at a mirror of it.
MirrorKeys ==
  {At(9, 0, {Code(<<0>>, <<2>>), Code(<<0>>, <<>>)}), At(7, 4, {Code(<<4>>, <<>>)})}
=============================================================================
