---------------------------- MODULE MasterSlots ----------------------------
(***************************************************************************)
(* master/PpMaster.cc: rangeSetSlots() and resetSlots(), the two operations*)
(* on the bitset idToSlots_[serverId] that says which slots a server has.  *)
(*                                                                         *)
(* An integer is the set of its 1 bits.  rangeSetSlots() computes its mask *)
(* in int and resetSlots() in uint64_t, words far narrower than the bitset;*)
(* the widths are constants, so that what is lost beyond them is lost here *)
(* too.  A shift by the width or more is undefined: the machine's shift    *)
(* takes the amount modulo the width ("wrap"), a folded constant is zero.  *)
(***************************************************************************)
EXTENDS Naturals, FiniteSets, FiniteSetsExt

CONSTANTS
  IntBits,      \* width of int
  WordBits,     \* width of unsigned long long, and block_size
  SlotsNum,     \* SLOTS_NUM
  Ends,         \* the bounds rangeSetSlots() is called with
  Counts,       \* the numbers resetSlots() is called with
  MaxCalls      \* bound on the calls in a behaviour

ASSUME WidthsAssumption ==
  /\ {IntBits, WordBits, SlotsNum, MaxCalls} \subseteq Nat
  /\ IntBits < WordBits /\ SlotsNum % WordBits = 0 /\ SlotsNum # 0
  /\ Ends \subseteq 0..SlotsNum /\ Counts \subseteq Nat

VARIABLES
  slots,     \* idToSlots_[serverId]
  last,      \* the last call, its argument, what it returned, and slots before it
  calls      \* calls so far

slotsVars == <<slots, last, calls>>

SlotsInit == slots = {} /\ last = [op |-> "none"] /\ calls = 0

-----------------------------------------------------------------------------
(* Machine words *)

\* bits << n in a word of the given width; sem is what an oversized n does.
ShiftLeft(bits, n, width, sem) ==
  LET by == IF n < width THEN n ELSE n % width
  IN  IF n >= width /\ sem = "zero" THEN {}
      ELSE {b + by : b \in bits} \cap 0..(width - 1)

ShiftRight(bits, n, width, sem) ==
  LET by == IF n < width THEN n ELSE n % width
  IN  IF n >= width /\ sem = "zero" THEN {} ELSE {b - by : b \in {c \in bits : c >= by}}

\* bits - 1, for a power of two or zero.
MinusOne(bits, width) == IF bits = {} THEN 0..(width - 1) ELSE 0..(Min(bits) - 1)

\* int to unsigned long long: the sign bit fills the upper half.
SignExtend(bits) ==
  IF IntBits - 1 \in bits THEN bits \cup IntBits..(WordBits - 1) ELSE bits

Complement(bits) == (0..(WordBits - 1)) \ bits

Lowest(bits, n) == {b \in bits : Cardinality({c \in bits : c < b}) < n}

-----------------------------------------------------------------------------
(* rangeSetSlots() *)

\* ((1 << (end - start)) - 1) << start, as the bitset's constructor takes it.
Mask(start, end, sem) ==
  LET one == ShiftLeft({0}, end - start, IntBits, sem)
  IN  SignExtend(ShiftLeft(MinusOne(one, IntBits), start, IntBits, sem))

rangeSetSlots(start, end) ==
  /\ calls < MaxCalls
  /\ start < end
  /\ \E sem \in {"wrap", "zero"} : slots' = slots \cup Mask(start, end, sem)
  /\ last' = [op |-> "set", range |-> start..(end - 1), before |-> slots]
  /\ calls' = calls + 1

-----------------------------------------------------------------------------
(* resetSlots() *)

NumBlocks == SlotsNum \div WordBits   \* num_blocks

\* Mutant of Block: the while loop runs one bit too far.
BlockTooFar(s, i, n, ones, sem) ==
  LET block == ShiftRight(s.slots, i * WordBits, WordBits, sem)
      reset == Lowest(block, n - Cardinality(s.ret) + 1)
  IN  [s EXCEPT !.ret = @ \cup {i * WordBits + b : b \in reset}, !.count = n]

\* One turn of the for over the blocks: state s of the loop, block i, n wanted.
\* ones is (1ULL << block_size) - 1, all bits or none.
Block(s, i, n, ones, sem) ==
  LET block == ShiftRight(s.slots, i * WordBits, WordBits, sem)
      reset == Lowest(block, n - s.count)
      mask  == ones \ UNION {ShiftLeft({0}, i * WordBits + b, WordBits, sem) : b \in reset}
  IN  [slots |-> s.slots \cap Complement(ShiftLeft(mask, i * WordBits, WordBits, sem)),
       ret   |-> s.ret \cup {i * WordBits + b : b \in reset},
       count |-> s.count + Cardinality(reset)]

\* The states of the loop: it stops when n positions are found.
Turns(n, ones, sem) ==
  LET after[i \in 0..NumBlocks] ==
        IF i = 0 THEN [slots |-> slots, ret |-> {}, count |-> 0]
        ELSE LET s == after[i - 1]
             IN  IF s.count < n THEN Block(s, i - 1, n, ones, sem) ELSE s
  IN  after

\* The whole loop.
Blocks(n, ones, sem) == Turns(n, ones, sem)[NumBlocks]

\* to_ullong() throws when a slot beyond the word is set; rangeSetSlots(), whose
\* mask is a word, never sets one.
resetSlots(n) ==
  /\ calls < MaxCalls
  /\ \A b \in slots : b < WordBits
  /\ \E ones \in {{}, 0..(WordBits - 1)}, sem \in {"wrap", "zero"} :
       LET end == Blocks(n, ones, sem)
       IN  /\ slots' = end.slots
           /\ last' = [op |-> "reset", n |-> n, ret |-> end.ret, before |-> slots]
  /\ calls' = calls + 1

SlotsNext ==
  \/ \E start, end \in Ends : rangeSetSlots(start, end)
  \/ \E n \in Counts : resetSlots(n)

SlotsSpec == SlotsInit /\ [][SlotsNext]_slotsVars

-----------------------------------------------------------------------------
(* Properties *)

\* rangeSetSlots() sets start to end - 1 and nothing else.
RangeIsSet == last.op = "set" => slots = last.before \cup last.range

\* resetSlots(n) of a server that has at least n slots returns n of its own, although
\* what it shifts in the blocks behind the first is undefined.
ResetReturnsOwnSlots ==
  last.op = "reset" /\ last.n <= Cardinality(last.before)
    => last.ret \subseteq last.before /\ Cardinality(last.ret) = last.n

=============================================================================
