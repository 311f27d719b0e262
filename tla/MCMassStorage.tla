--------------------------- MODULE MCMassStorage ---------------------------
(* A small instance of MassStorage: a disk of two blocks in one erase      *)
(* sector.  Commands of one and of two blocks cover the change of block in *)
(* a transfer and the command beyond the end; blocks of two packets, and   *)
(* two kinds of content, tell the order of packets and blocks.             *)
EXTENDS MassStorage
=============================================================================
