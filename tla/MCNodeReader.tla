---------------------------- MODULE MCNodeReader ----------------------------
(* NodeReader for TLC: hosts with one or two memory arrays, full and empty   *)
(* slots.                                                                    *)
EXTENDS NodeReader

MCTables ==
    {<<Array, "m1", "m2", Array, Empty>>,
     <<Array, "m1", Empty, Array, Empty, "m2">>}
=============================================================================
