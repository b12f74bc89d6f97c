------------------------------- MODULE MCDNS -------------------------------
(* Model values for DNS: names over two letters that share suffixes, some   *)
(* with empty labels.                                                       *)
EXTENDS DNS

a == 97
b == 98
ProperNames == {<<Dot>>, <<b>>, <<a, Dot, b>>, <<b, Dot, a, Dot, b>>, <<b, Dot, b, Dot>>, <<a, b, Dot, b>>, <<a, a, a, Dot, b>>}
SomeNames == ProperNames \cup {<<a, Dot, Dot, b>>, <<b, Dot, Dot>>}
=============================================================================
