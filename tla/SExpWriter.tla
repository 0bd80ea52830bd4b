------------------------------- MODULE SExpWriter -------------------------------
(***************************************************************************)
(* The writer of util/write_s_exp_u8s.c. A quotation mark within a string  *)
(* is Quote, so that the text of a file, which escapes it, and the         *)
(* writer's, which does not, differ.                                       *)
(***************************************************************************)
EXTENDS SExpText

DigitText == <<"0", "1", "2", "3", "4", "5", "6", "7", "8", "9">>
RECURSIVE NatText(_)
NatText(n) ==
  (IF n < 10 THEN <<>> ELSE NatText(n \div 10)) \o <<DigitText[(n % 10) + 1]>>
Abs(n) == IF n < 0 THEN -n ELSE n
SignText(n) == IF n < 0 THEN <<"-">> ELSE <<>>
FractionText(n) == Tail(NatText(Scale + (n % Scale)))

\* u8s_write_list and u8s_write_s_exp
RECURSIVE ListText(_), Text(_)
ListText(d) ==
  LET cdr == d.kids[2]
  IN  Text(d.kids[1]) \o
      CASE cdr.k = "cons" -> <<" ">> \o ListText(cdr)
        [] cdr = Nil -> <<>>
        [] OTHER -> <<" ", ".", " ">> \o Text(cdr)
Text(d) ==
  CASE d.k = "true" -> <<"#", "t">>
    [] d.k = "false" -> <<"#", "f">>
    [] d.k = "nil" -> <<"(", ")">>
    [] d.k = "cons" -> <<"(">> \o ListText(d) \o <<")">>
    [] d.k = "integer" -> SignText(d.num) \o NatText(Abs(d.num))
    [] d.k = "flonum" -> SignText(d.num) \o NatText(Abs(d.num) \div Scale) \o
                         <<".">> \o FractionText(Abs(d.num))
    [] d.k = "string" -> <<"\"">> \o d.str \o <<"\"">>
    [] OTHER -> d.str

\* The bytes of a file with that text: Quote as the grammar wants it.
Bytes(text) ==
  FlattenSeq([i \in DOMAIN text |->
    CASE text[i] = Wide -> <<Lead, Trail>>
      [] text[i] = Quote -> <<"\\", "\"">>
      [] OTHER -> <<text[i]>>])

=============================================================================
