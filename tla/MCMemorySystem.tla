-------------------------- MODULE MCMemorySystem --------------------------
(* Blocks of the instances: two whose halves differ, so that swapped or    *)
(* mixed halves show, or a single one.                                     *)
EXTENDS MemorySystem
MCTwoBlocks == {<< "b1", "b2" >>, << "b2", "b1" >>}
MCOneBlock == {<< "b0", "b0" >>}
============================================================================
