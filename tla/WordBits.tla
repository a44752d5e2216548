------------------------------ MODULE WordBits ------------------------------
(***************************************************************************)
(* The state words and slots of SpscTable bit by bit, as                   *)
(* src/src/table_ipc/spsc.rs computes them with shifts and masks: a word   *)
(* of MaxWeak reading bits, the valid bit and GenBits of generation        *)
(* (40 + 1 + 23 in the code).  The properties relate both forms in every   *)
(* state the ring reaches.                                                 *)
(***************************************************************************)
EXTENDS SpscTable, Bitwise, FiniteSetsExt

log2(n)   == CHOOSE k \in 0 .. n : 2^k = n
len_bits  == log2(Size)
GenBits   == log2(GenMod)
WordValues == 0 .. 2^(GenBits + 1 + MaxWeak) - 1

VALID_MASK == 2^MaxWeak

(* Mutant: the mask is the length itself.                                  *)
LenMaskWrong == 2^len_bits
len_mask     == 2^len_bits - 1

slot_bits(i)       == i & len_mask
generation_bits(i) == shiftR(i, len_bits)

(* A shift of an u64 drops what leaves it at the upper end.                *)
new_generation_field(i) ==
  (generation_bits(i) * 2^(MaxWeak + 1)) % 2^(GenBits + 1 + MaxWeak)

mask(bit)        == 2^bit
get_valid_bit(v) == v & VALID_MASK = VALID_MASK

(* Mutant: the valid bit is taken for the lowest of the generation.        *)
GetGenerationLow(v) == shiftR(v, MaxWeak)
get_generation(v)   == shiftR(v, MaxWeak + 1)

(* The word that stands for a record of SpscTable.                         *)
Encoded(word) ==
  word.generation * 2^(MaxWeak + 1) + (IF word.valid THEN VALID_MASK ELSE 0)
    + MapThenSumSet(LAMBDA bit : 2^bit, word.reading)
-----------------------------------------------------------------------------
(* The fields of a state word never run into each other, whatever the      *)
(* generation has grown to: the producer's swap and store make the words   *)
(* they should, the fetch_or and fetch_and of an observer change its own   *)
(* bit alone, and what the checks of weak_observe extract is what was put  *)
(* in (spsc.rs:316-341, 412-426, 450-493).                                 *)
WordDecodes ==
  /\ new_generation_field(tail_index) = Encoded(StateWord(tail_index, FALSE))
  /\ new_generation_field(tail_index) | VALID_MASK
       = Encoded(StateWord(tail_index, TRUE))
  /\ \A s \in Slots :
       LET word == weak_readers[s]
           v    == Encoded(word)
       IN  /\ v \in WordValues
           /\ get_generation(v) = word.generation
           /\ get_valid_bit(v) = word.valid
           /\ \A bit \in 0 .. MaxWeak - 1 :
                /\ v | mask(bit)
                     = Encoded([word EXCEPT !.reading = @ \cup {bit}])
                /\ v & (2^(GenBits + 1 + MaxWeak) - 1 - mask(bit))
                     = Encoded([word EXCEPT !.reading = @ \ {bit}])

(* Slot and generation determine an index, so no two rows of one element   *)
(* have the same generation ("this makes ABA problems impossible",         *)
(* spsc.rs:169-170) until the field that keeps it wraps.                   *)
IndexDecodes ==
  \A i \in 0 .. tail_index :
    /\ slot_bits(i) = mod_len(i)
    /\ i = generation_bits(i) * 2^len_bits + slot_bits(i)
    /\ slot_bits(i) = slot_bits(tail_index)
         /\ get_generation(new_generation_field(i))
              = get_generation(new_generation_field(tail_index))
         => (tail_index - i) % (Size * GenMod) = 0
=============================================================================
