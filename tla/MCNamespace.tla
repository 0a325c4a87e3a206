---------------------------- MODULE MCNamespace ----------------------------
(***************************************************************************)
(* An instance of Namespace for TLC: two groups of three inodes; an        *)
(* archive with a file, its directory and a file whose name has a          *)
(* blank; paths to that file, to something below that file, to the         *)
(* directory by way of "..", and the name with a blank again.              *)
(***************************************************************************)
EXTENDS Namespace

MCWords == {"", ".", "..", "a", "b", "c", "x", "dev", "bin", "module"}

a == <<"a">>
b == <<"b">>
c == <<"c">>
cx == <<"c", "x">>

MCSystemDirs == << <<"dev">>, <<"bin">> >>

MCArchive ==
  << [type |-> "FILE", parts |-> <<a, b>>],
     [type |-> "DIR", parts |-> <<a>>],
     [type |-> "FILE", parts |-> <<cx>>] >>

Rel(parts) == [abs |-> FALSE, parts |-> parts]

MCPaths == {Abs(<<a, b>>), Abs(<<a, b, c>>), Abs(<<cx>>), Rel(<<DotDot, a>>)}
=============================================================================
