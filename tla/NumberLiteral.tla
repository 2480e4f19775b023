---------------------------- MODULE NumberLiteral ---------------------------
(***************************************************************************)
(* parse_number_literal (util.rs): the value of a number literal, given as *)
(* a sequence of characters.  Upper and lower case letters are one         *)
(* character.  An Option is a set with at most one element.                *)
(***************************************************************************)
EXTENDS Integers, Sequences

\* The largest value from_str_radix returns: i128::MAX in the program.
CONSTANT MaxValue

Digits == <<"0", "1", "2", "3", "4", "5", "6", "7", "8", "9", "a", "b", "c", "d", "e", "f">>

\* Suffixes and separators, removed wherever they are.
Ignored == {"'", "u", "l", "z"}

DigitsBelow(radix) == {Digits[d] : d \in 1 .. radix}

DigitValue(c) == (CHOOSE d \in DOMAIN Digits : Digits[d] = c) - 1

Positional(s, radix) ==
    LET upto[i \in 0 .. Len(s)] ==
            IF i = 0 THEN 0 ELSE upto[i - 1] * radix + DigitValue(s[i])
    IN  upto[Len(s)]

StartsWith(s, chars) == s # <<>> /\ s[1] \in chars

\* i128::from_str_radix, which takes a sign of its own.
from_str_radix(s, radix) ==
    LET digits == IF StartsWith(s, {"+", "-"}) THEN Tail(s) ELSE s
        value  == IF StartsWith(s, {"-"}) THEN - Positional(digits, radix)
                                          ELSE Positional(digits, radix)
    IN  IF digits = <<>> \/ \E i \in DOMAIN digits : digits[i] \notin DigitsBelow(radix)
        THEN {} ELSE {value} \cap (- MaxValue - 1) .. MaxValue

Format(offset, radix) == [offset |-> offset, radix |-> radix]

\* The prefix is looked for in the first two characters, if there are two.
FormatOf(s) ==
    CASE Len(s) < 2 \/ s[1] # "0" -> Format(0, 10)
      [] Len(s) > 1 /\ s[1] = "0" /\ s[2] = "x" -> Format(2, 16)
      [] Len(s) > 1 /\ s[1] = "0" /\ s[2] = "b" -> Format(2, 2)
      [] OTHER -> Format(1, 8)

parse_number_literal(input) ==
    LET kept     == SelectSeq(input, LAMBDA c : c \notin Ignored)
        negative == StartsWith(kept, {"-"})
        rest     == IF negative THEN Tail(kept) ELSE kept
        format   == FormatOf(rest)
    IN  {IF negative THEN - v ELSE v :
            v \in from_str_radix(SubSeq(rest, format.offset + 1, Len(rest)), format.radix)}

=============================================================================
