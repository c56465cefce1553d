------------------------------ MODULE SlaxBit ------------------------------
(* The bit: extension functions (src/extensions/bit/ext_bit.c).  A script  *)
(* calls one function after the other on the value it got from the last   *)
(* one: a bit string, most significant bit first, a number, or a string   *)
(* "0x...".  A bit string is a sequence over 0..1 and may be longer than  *)
(* an unsigned long long, which has Word bits.                            *)
EXTENDS Integers, Sequences, SequencesExt, FiniteSetsExt

CONSTANTS Word,      \* bits of an unsigned long long (64 in C)
          MaxBits,   \* bound: longest bit string a call may return
          Args,      \* bit strings passed as the other argument
          Counts     \* numbers passed as count, length or bit number

VARIABLES acc,       \* the value the last call returned
          was, fn, arg  \* that call: its first argument, name, second one

vars == <<acc, was, fn, arg>>

Bits(s)   == [is |-> "bits", s |-> s, n |-> 0]
Number(n) == [is |-> "number", s |-> <<>>, n |-> n]
Hex(n)    == [is |-> "hex", s |-> <<>>, n |-> n]

ULLMax == 2 ^ Word - 1
Zeros(n) == [i \in 1 .. n |-> 0]

\* The number a bit string stands for.
Val(s) == SumSet({2 ^ (Len(s) - i) : i \in {j \in 1 .. Len(s) : s[j] = 1}})
\* The bit of weight 2^k, zero beyond the width.
Bit(s, k) == IF k < Len(s) THEN s[Len(s) - k] ELSE 0

\* The shortest bit string of a word, "0" for zero.
WordBits(v) ==
    LET width == Max({1} \cup {k \in 1 .. Word : v >= 2 ^ (k - 1)})
    IN  [i \in 1 .. width |-> (v \div 2 ^ (width - i)) % 2]

\* A number out of range becomes ULLONG_MAX; a string is left as it is.
StringVal(x) == IF x.is = "bits" THEN x.s
                ELSE WordBits(IF x.n < 0 \/ x.n > ULLMax THEN ULLMax ELSE x.n)

-----------------------------------------------------------------------------
(* The functions.                                                          *)

OpAnd(l, r)  == IF l = 1 /\ r = 1 THEN 1 ELSE 0
OpOr(l, r)   == IF l = 1 \/ r = 1 THEN 1 ELSE 0
OpNand(l, r) == IF l = 1 /\ r = 1 THEN 0 ELSE 1
OpNor(l, r)  == IF l = 1 \/ r = 1 THEN 0 ELSE 1
OpXor(l, r)  == IF l # r THEN 1 ELSE 0
OpXnor(l, r) == IF l = r THEN 1 ELSE 0

Ops == {"and", "or", "nand", "nor", "xor", "xnor"}
OpOf(op, l, r) == CASE op = "and"  -> OpAnd(l, r)  [] op = "or"   -> OpOr(l, r)
                    [] op = "nand" -> OpNand(l, r) [] op = "nor"  -> OpNor(l, r)
                    [] op = "xor"  -> OpXor(l, r)  [] op = "xnor" -> OpXnor(l, r)

\* Wrong: lined up at their left ends.
OperationLeft(op, lv, rv) ==
    [i \in 1 .. Max({Len(lv), Len(rv)}) |->
        OpOf(op, IF i <= Len(lv) THEN lv[i] ELSE 0, IF i <= Len(rv) THEN rv[i] ELSE 0)]

\* The operands are lined up at their right ends.
Operation(op, lv, rv) ==
    LET width == Max({Len(lv), Len(rv)})
        PadTo(s) == Zeros(width - Len(s)) \o s
    IN  [i \in 1 .. width |-> OpOf(op, PadTo(lv)[i], PadTo(rv)[i])]

Not(s) == [i \in 1 .. Len(s) |-> 1 - s[i]]

Mask(width, maxw) == Zeros(Max({maxw, width, 1}) - width) \o [i \in 1 .. width |-> 1]

\* Wrong: the bits beyond a word are lost.
ToWordWide(s) == Val(s) % (ULLMax + 1)

\* Shared by to-int and to-hex: more than Word digits give -1.
ToWord(s) == IF Len(s) > Word THEN -1 ELSE Val(s)

ToInt(s) == Number(ToWord(s))
ToHex(s) == IF ToWord(s) = -1 THEN Number(-1) ELSE Hex(ToWord(s))

FromInt(x, width) ==
    LET s == StringVal(x) IN Zeros(Max({0, width - Len(s)})) \o s

\* Any 'e' is taken for the exponent of a floating point number.
HasE(n) == \E k \in 0 .. Word \div 4 : (n \div 16 ^ k) % 16 = 14
FromHex(n, maxw) ==
    LET s == WordBits(IF HasE(n) THEN 0 ELSE n)
    IN  Zeros(Max({0, maxw - Len(s)})) \o s

ClearOrSet(s, bitnum, value) ==
    IF bitnum >= Len(s)
    THEN <<value>> \o Zeros(bitnum - Len(s)) \o s
    ELSE [s EXCEPT ![Len(s) - bitnum] = value]

\* The digits of the longer one that stick out on the left decide first;
\* then xmlStrcmp on two strings of one length.
CompareText(s, t) ==
    LET Differ == {i \in 1 .. Min({Len(s), Len(t)}) : s[i] # t[i]}
    IN  IF Differ = {} THEN 0 ELSE s[Min(Differ)] - t[Min(Differ)]
Compare(s, t) ==
    LET delta == Len(s) - Len(t)
        Out(u, d) == \E i \in 1 .. d : u[i] = 1
    IN  CASE delta < 0 /\ Out(t, -delta) -> -1
          [] delta > 0 /\ Out(s, delta)  -> 1
          [] OTHER -> CompareText(SubSeq(s, 1 + Max({0, delta}), Len(s)),
                                  SubSeq(t, 1 + Max({0, -delta}), Len(t)))

ShiftLeft(s, num) == SubSeq(s, num + 1, Len(s)) \o Zeros(Min({num, Len(s)}))
ShiftRight(s, num, fill) ==
    [i \in 1 .. Min({num, Len(s)}) |-> IF fill THEN s[1] ELSE 0]
        \o SubSeq(s, 1, Len(s) - num)

-----------------------------------------------------------------------------
Init == /\ acc \in {Bits(s) : s \in Args} \cup {Number(c) : c \in Counts}
        /\ was = acc /\ fn = "none" /\ arg = Number(0)

Return(name, other, value) ==
    /\ Len(value.s) <= MaxBits
    /\ acc' = value /\ was' = acc /\ fn' = name /\ arg' = other

IsBits == acc.is \in {"bits", "number"}   \* usable as a bit string

Operate == \E op \in Ops, t \in Args : IsBits /\
    Return(op, Bits(t), Bits(Operation(op, StringVal(acc), t)))

Invert == IsBits /\ Return("not", Number(0), Bits(Not(StringVal(acc))))

MakeMask == \E c \in Counts : acc.is = "number" /\ acc.n \in 0 .. MaxBits /\
    Return("mask", Number(c), Bits(Mask(acc.n, c)))

Convert ==
    \/ IsBits /\ Return("to-int", Number(0), ToInt(StringVal(acc)))
    \/ IsBits /\ Return("to-hex", Number(0), ToHex(StringVal(acc)))
    \/ \E c \in Counts : acc.is = "number" /\
            Return("from-int", Number(c), Bits(FromInt(acc, c)))
    \/ \E c \in Counts : acc.is = "hex" /\
            Return("from-hex", Number(c), Bits(FromHex(acc.n, c)))

Clear == \E c \in Counts : IsBits /\
    Return("clear", Number(c), Bits(ClearOrSet(StringVal(acc), c, 0)))
Set == \E c \in Counts : IsBits /\
    Return("set", Number(c), Bits(ClearOrSet(StringVal(acc), c, 1)))

Order == \E t \in Args : IsBits /\
    Return("compare", Bits(t), Number(Compare(StringVal(acc), t)))

Shift == \E c \in Counts : IsBits /\
    \/ Return("shift-left", Number(c), Bits(ShiftLeft(StringVal(acc), c)))
    \/ Return("shift-right", Number(c), Bits(ShiftRight(StringVal(acc), c, FALSE)))
    \/ Return("ashift-right", Number(c), Bits(ShiftRight(StringVal(acc), c, TRUE)))

Next == Operate \/ Invert \/ MakeMask \/ Convert \/ Clear \/ Set \/ Order \/ Shift

Spec == Init /\ [][Next]_vars

-----------------------------------------------------------------------------
\* Every function that returns a bit string gives each bit, counted from
\* the right end, the value its name says, whatever the widths of the
\* operands are (extBitOperation, extBitClearOrSet, extBitShift).
BitsByWeight ==
    LET old == StringVal(was)
        Sign == old[1]
    IN  acc.is = "bits" => \A k \in 0 .. Len(acc.s) - 1 :
        LET b == Bit(acc.s, k) IN
        /\ fn \in Ops => b = OpOf(fn, Bit(old, k), Bit(arg.s, k))
        /\ fn = "not" => b = 1 - Bit(old, k)
        /\ fn = "mask" => (b = 1 <=> k < was.n)
        /\ fn \in {"clear", "set"} =>
             b = IF k # arg.n THEN Bit(old, k) ELSE IF fn = "set" THEN 1 ELSE 0
        /\ fn = "shift-left" => b = IF k < arg.n THEN 0 ELSE Bit(old, k - arg.n)
        /\ fn = "shift-right" => b = Bit(old, k + arg.n)
        /\ fn = "ashift-right" =>
             b = IF k + arg.n < Len(old) THEN Bit(old, k + arg.n) ELSE Sign

\* A conversion keeps the number a bit string stands for or says -1 when
\* it has more digits than a word, and compare orders two bit strings as
\* their numbers, leading zeros or not (extBitToInt, extBitFromInt,
\* extBitFromHex, extBitCompare).
NumbersAgree ==
    LET v == Val(StringVal(was)) IN
    /\ fn \in {"to-int", "to-hex"} =>
         acc.n = IF Len(StringVal(was)) > Word THEN -1 ELSE v
    /\ fn = "from-int" /\ was.n >= 0 => Val(acc.s) = was.n
    /\ fn = "from-hex" /\ ~HasE(was.n) => Val(acc.s) = was.n
    /\ fn = "compare" => /\ (acc.n > 0 <=> v > Val(arg.s))
                         /\ (acc.n < 0 <=> v < Val(arg.s))

\* The functions of bit: agree with each other on what a bit string is.
BitFunctions == BitsByWeight /\ NumbersAgree
=============================================================================
