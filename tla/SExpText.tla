-------------------------------- MODULE SExpText --------------------------------
(***************************************************************************)
(* S-expressions and their text: the characters util/read_s_exp.c tells    *)
(* apart, the UTF-8 decoder of util/ucs.c, the numbers a word stands for,  *)
(* and the cells a datum occupies.                                         *)
(*                                                                         *)
(* A character is a string of one character. Wide has two bytes in a file, *)
(* Lead and Trail; every other character is its own byte.                  *)
(***************************************************************************)
EXTENDS Integers, Sequences, FiniteSetsExt, SequencesExt

CONSTANTS
  LongMax,    \* LONG_MAX
  Scale       \* bound: a flonum is a multiple of 1 / Scale, a power of ten

ASSUME SExpTextAssumption == LongMax \in Nat /\ Scale \in Nat \ {0}

Lead == "lead"
Trail == "trail"
Wide == "wide"
EOF == "EOF"
Quote == "quote"   \* an escaped one, within a string

Spaces == {" ", "\t", "\n"}
Letters == {"a", "b", "f", "t", "x", Wide}
SpecialInitials == {"!", "?"}
DigitOf == [c \in {"0", "1", "2", "3", "4", "5", "6", "7", "8", "9",
                   "a", "b", "f", "t", "x"} |->
  CASE c = "0" -> 0 [] c = "1" -> 1 [] c = "2" -> 2 [] c = "3" -> 3
    [] c = "4" -> 4 [] c = "5" -> 5 [] c = "6" -> 6 [] c = "7" -> 7
    [] c = "8" -> 8 [] c = "9" -> 9 [] c = "a" -> 10 [] c = "b" -> 11
    [] c = "f" -> 15 [] c = "t" -> 29 [] c = "x" -> 33]
Decimals == {c \in DOMAIN DigitOf : DigitOf[c] < 10}

\* char_type and get_char_type
CharType(c) ==
  CASE c \in Spaces -> "space"
    [] c \in Letters -> "letter"
    [] c \in SpecialInitials -> "special initial"
    [] c \in Decimals -> "digit"
    [] c \in {"+", "-", ".", "@"} -> "special subsequent"
    [] OTHER -> "other"
InWord(c) == c # EOF /\ CharType(c) \notin {"space", "other"}
Initial(c) == CharType(c) \in {"letter", "special initial"}

CharToNumber(c, base) ==
  IF c \in DOMAIN DigitOf /\ DigitOf[c] < base THEN DigitOf[c] ELSE -1

\* u4s_from_u8s: the characters, and the bytes after the last whole one. A
\* byte that does not go on with the sequence begun is dropped with it.
Decode(bytes) ==
  LET n == Len(bytes)
      begun[i \in 0..n] == i > 0 /\ bytes[i] = Lead /\ ~begun[i - 1]
      ended == [i \in 1..n |->
                  CASE begun[i - 1] /\ bytes[i] = Trail -> <<Wide>>
                    [] ~begun[i - 1] /\ bytes[i] \notin {Lead, Trail} -> <<bytes[i]>>
                    [] OTHER -> <<>>]
      last == Max({0} \cup {i \in 1..n : ended[i] # <<>>})
  IN  [chars |-> FlattenSeq(ended),
       rest |-> SubSeq(bytes, last + 1, n)]

-----------------------------------------------------------------------------
(* Data                                                                    *)

\* free_s_exp: the cells that are given back with a datum, and for a symbol one
\* reference. NULL, the truth values, nil and errors are the program's own.
Freed(k, kids) ==
  CASE k = "cons" -> 1 + kids[1].cells + kids[2].cells
    [] k \in {"integer", "flonum", "string", "symbol"} -> 1
    [] OTHER -> 0

Datum(k, num, str, kids) ==
  [k |-> k, num |-> num, str |-> str, kids |-> kids, cells |-> Freed(k, kids)]
Nil == Datum("nil", 0, <<>>, <<>>)
True == Datum("true", 0, <<>>, <<>>)
False == Datum("false", 0, <<>>, <<>>)
Integer(n) == Datum("integer", n, <<>>, <<>>)
Flonum(n) == Datum("flonum", n, <<>>, <<>>)
Str(s) == Datum("string", 0, s, <<>>)
Symbol(s) == Datum("symbol", 0, s, <<>>)
Pair(car, cdr) == Datum("cons", 0, <<>>, <<car, cdr>>)
NullDatum == Datum("NULL", 0, <<>>, <<>>)
ErrorDatum == Datum("error", 0, <<>>, <<>>)

\* What s_exp_append has built of items, with the cdr of the last cell: a pair
\* for each of the last i items.
ListOf(items, tail) ==
  LET n == Len(items)
      last[i \in 0 .. n] ==
        IF i = 0 THEN tail ELSE Pair(items[n + 1 - i], last[i - 1])
  IN  last[n]

Signed(s) == s # <<>> /\ s[1] \in {"+", "-"}
Sign(s) == IF s # <<>> /\ s[1] = "-" THEN -1 ELSE 1
Unsigned(s) == IF Signed(s) THEN Tail(s) ELSE s

\* read_integer_from_word: digits after the first one too many are not read.
IntegerOf(s, base) ==
  LET Digit(a, c) ==
        LET v == CharToNumber(c, base)
        IN  IF ~a.ok \/ a.full THEN a
            ELSE IF v < 0 THEN [a EXCEPT !.ok = FALSE]
            ELSE IF a.n * base + v > LongMax
            THEN [a EXCEPT !.n = LongMax, !.full = TRUE]
            ELSE [a EXCEPT !.n = @ * base + v]
      r == FoldLeft(Digit, [ok |-> TRUE, full |-> FALSE, n |-> 0], Unsigned(s))
  IN  IF r.ok THEN Integer(r.n * Sign(s)) ELSE ErrorDatum

\* read_flonum_from_word: the first point ends the whole part. Digits beyond
\* the last one Scale has room for add nothing.
FlonumOf(s) ==
  LET u == Unsigned(s)
      points == {i \in DOMAIN u : u[i] = "."}
      p == IF points = {} THEN Len(u) + 1
           ELSE CHOOSE i \in points : \A j \in points : i <= j
      whole == SubSeq(u, 1, p - 1)
      fraction == SubSeq(u, p + 1, Len(u))
      n == FoldLeft(LAMBDA a, c : a * 10 + CharToNumber(c, 10), 0, whole)
      r == FoldLeft(LAMBDA a, c : [n |-> a.n + CharToNumber(c, 10) * a.unit,
                                   unit |-> a.unit \div 10],
                    [n |-> 0, unit |-> Scale \div 10], fraction)
  IN  IF \A c \in Range(whole \o fraction) : CharToNumber(c, 10) >= 0
      THEN Flonum((n * Scale + r.n) * Sign(s)) ELSE ErrorDatum

\* read_integer_or_flonum_from_word
NumberOf(s) ==
  LET n == IntegerOf(s, 10) IN IF n.k # "error" THEN n ELSE FlonumOf(s)

\* Mutant of Peculiar: a sign begins a number, even alone.
PeculiarDots == {<<".", ".", ".">>}

\* The identifiers that do not begin as others do.
Peculiar == {<<"+">>, <<"-">>, <<".", ".", ".">>}

\* What read_integer, read_integer_or_flonum and read_symbol_or_number, as w.to
\* says, take a word for. A stray character makes a word of no characters: the
\* code looks at the first one all the same.
Meaning(w) ==
  LET s == w.str
  IN  IF w.to # "symbol" THEN "number"
      ELSE IF s = <<>> THEN "stray"
      ELSE IF s \in Peculiar THEN "symbol"
      ELSE IF s[1] \in {"+", "-", "."} THEN "number"
      ELSE IF Initial(s[1]) /\ \A i \in 2..Len(s) : InWord(s[i]) THEN "symbol"
      ELSE "bad symbol"

\* What a word of no characters may become when it is not an error.
Garbage == {Integer(0), Symbol(<<"garbage">>)}

=============================================================================
