----------------------------- MODULE MCConnect -----------------------------
(* A small instance: chunks that are empty, split and too many.            *)
EXTENDS Connect

SmallPayloads == {<<0>>, <<3>>, <<2, 0, 1>>, <<1, 1, 1, 1>>}
=============================================================================
