-------------------------- MODULE MCDisplayMemory --------------------------
(* The D-cache writes one block that differs from what the memory holds     *)
(* initially, in the frame or beside it.                                    *)
EXTENDS DisplayMemory
MCData == {<< 1, 2 >>}
=============================================================================
