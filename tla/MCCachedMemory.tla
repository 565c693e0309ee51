--------------------------- MODULE MCCachedMemory ---------------------------
(* Blocks of two words. Three blocks compete for the two ways of set 0, and *)
(* both words of one of them are stored to, so that a store has to be       *)
(* merged with a word stored before; a block of set 1 is stored to, so that *)
(* a flush has something to save at both ends of a way.                     *)
EXTENDS CachedMemory
MCLoadPlaces == {<< 0, 0, 0 >>, << 0, 0, 1 >>, << 1, 0, 0 >>, << 2, 0, 0 >>}
MCStores == {<< 0, 0, 0, 1 >>, << 0, 0, 1, 1 >>, << 1, 1, 0, 1 >>}
============================================================================
