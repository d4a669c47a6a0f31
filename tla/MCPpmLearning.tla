---------------------------- MODULE MCPpmLearning ----------------------------
(***************************************************************************)
(* PpmLearning for TLC, without lag: two tagged tables, the longer with an *)
(* entry for each of two branches, counters of two bits, and a history of  *)
(* two directions.                                                         *)
(***************************************************************************)
EXTENDS PpmLearning

MCBaseIndex(address) == 0
MCIndex(t, address, hist) == IF t = Tables THEN address ELSE 0
MCTag(t, address, hist) ==
    IF t = 1 THEN (address + hist) % 2 ELSE (hist + (hist \div 2)) % 2
MCSalt(address, hist) == address + hist
=============================================================================
