------------------------------- MODULE PpmHash -------------------------------
(***************************************************************************)
(* The hash functions of PPM (predictors/common/ppm.rs), which Ppm takes   *)
(* as parameters: how address and history select the entry and the tag in  *)
(* each table.  A number is the set of positions of its ones, so that      *)
(* exclusive or is SymDiff.                                                *)
(***************************************************************************)
EXTENDS Integers, Sequences, FiniteSetsExt

CONSTANTS
    Addresses,      \* sets of positions below 64
    MaxTaken        \* bound: taken directions within the history

TableIds == 1..4
HistoryBits == 80
Seen(t) == CASE t = 1 -> 10 [] t = 2 -> 20 [] t = 3 -> 40 [] t = 4 -> 80

Bits(width) == 0..width - 1

ASSUME AddressesAssumption == Addresses \subseteq SUBSET Bits(64)
ASSUME MaxTakenAssumption == MaxTaken \in Nat

VARIABLES
    history,        \* global_history, the newest direction at 0
    address         \* the branch that is looked up

hashVars == <<history, address>>

Resized(ones, width) == ones \cap Bits(width)

\* Mutant: only whole groups are folded.
Groups_Whole(length, width) == length \div width

\* INPUT.div_ceil(OUTPUT)
Groups(length, width) == (length + width - 1) \div width

\* group as u8 * OUTPUT as u8
Shift(group, width) == (group * width) % 256

\* history >> shift: Value reduces the count by its own width.
Chunk(ones, length, group, width) ==
    Resized({i - (Shift(group, width) % length) : i \in ones}, width)

Fold(ones, length, width) ==
    LET folded[n \in 0..Groups(length, width)] ==
          IF n = 0 THEN {} ELSE SymDiff(folded[n - 1], Chunk(ones, length, n - 1, width))
    IN  folded[Groups(length, width)]

BaseIndex(a) == Resized(a, 12)

AddressIndex(a) ==
    SymDiff(Resized(a, 10), Resized({i - 10 : i \in a}, 10))

Folded(h, t) ==
    IF Seen(t) = 10 THEN Resized(h, 10) ELSE Fold(Resized(h, Seen(t)), Seen(t), 10)

Index(t, a, h) == SymDiff(AddressIndex(a), Folded(h, t))

\* Mutant: the second register is not shifted.
Tag_Unshifted(t, a, h) ==
    LET seen == Resized(h, Seen(t))
    IN  SymDiff(SymDiff(Resized(a, 8), Fold(seen, Seen(t), 8)), Fold(seen, Seen(t), 7))

Tag(t, a, h) ==
    LET seen == Resized(h, Seen(t))
        csr1 == Fold(seen, Seen(t), 8)
        csr2 == Fold(seen, Seen(t), 7)
    IN  SymDiff(SymDiff(Resized(a, 8), csr1), Resized({i + 1 : i \in csr2}, 8))

Salt(a, h) == SymDiff(Resized(a, 16), Resized(h, 16))

HashInit == history = {} /\ address \in Addresses

\* update ends with the history shifted by one and the direction entered.
Pushed(h, taken) ==
    Resized({i + 1 : i \in h}, HistoryBits) \cup IF taken THEN {0} ELSE {}

Update(taken) ==
    /\ Cardinality(Pushed(history, taken)) <= MaxTaken
    /\ history' = Pushed(history, taken)
    /\ UNCHANGED address

HashNext == \E taken \in BOOLEAN : Update(taken)

HashSpec == HashInit /\ [][HashNext]_hashVars

-----------------------------------------------------------------------------
(***************************************************************************)
(* Properties.                                                             *)
(***************************************************************************)

\* Folding by shifts computes what circular shift registers hold, for every
\* length and width folded, also those where the last group is short.
Registers ==
    [length : {20, 40, 80}, width : {10}] \cup [length : {10, 20, 40, 80}, width : {7, 8}]

Hardware == INSTANCE FoldedHistory WITH
    Length <- HistoryBits,
    csr <- [r \in Registers |-> Fold(Resized(history, r.length), r.length, r.width)]

FoldsAreRegisters == Hardware!Spec

\* Each table sees the directions of its own length of history, all of them and
\* no older ones: another direction there gives another entry, and in the first
\* three tables also another tag, while older directions change neither.  (The
\* tag of the fourth is blind to seven directions: see the README.)
EachDirectionCounts ==
    \A t \in TableIds :
      LET index == Index(t, address, history)
          tag == Tag(t, address, history)
      IN  \A i \in Bits(HistoryBits) :
            LET other == SymDiff(history, {i})
            IN  /\ i < Seen(t) <=> Index(t, address, other) # index
                /\ i < Seen(t) /\ t < 4 => Tag(t, address, other) # tag
                /\ i >= Seen(t) => Tag(t, address, other) = tag
=============================================================================
