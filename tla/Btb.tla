--------------------------------- MODULE Btb ---------------------------------
(***************************************************************************)
(* BTB<CAPACITY> (predictors/common/btb.rs): one target and one valid bit  *)
(* per index, no tags; without an entry the next address is the sequential *)
(* one, which wraps around the address space.                              *)
(***************************************************************************)
EXTENDS Integers

CONSTANTS
    BtbCapacity,    \* CAPACITY
    AddressSpace    \* 2^64: addresses are smaller

ASSUME BtbAssumption == BtbCapacity \in Nat \ {0} /\ AddressSpace \in Nat \ {0}

Address == 0..AddressSpace - 1

BtbIndices == 0..BtbCapacity - 1

Btb == [buffer : [BtbIndices -> Address], valid : [BtbIndices -> BOOLEAN]]

NewBtb == [buffer |-> [i \in BtbIndices |-> 0], valid |-> [i \in BtbIndices |-> FALSE]]

BtbIndex(address) == (address \div 4) % BtbCapacity

Sequential(address) == (address + 4) % AddressSpace

\* Address zero is a target like any other: only the valid bit tells a miss.
BtbPredict(btb, address) ==
    IF btb.valid[BtbIndex(address)] THEN btb.buffer[BtbIndex(address)]
                                    ELSE Sequential(address)

BtbUpdate(btb, address, target) ==
    [btb EXCEPT !.buffer[BtbIndex(address)] = target,
                !.valid[BtbIndex(address)] = TRUE]
=============================================================================
