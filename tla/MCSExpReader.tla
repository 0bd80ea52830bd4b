------------------------------ MODULE MCSExpReader ------------------------------
(***************************************************************************)
(* Files that hold a few data in several layouts, and the same files with  *)
(* one byte lost or another one put in its place.                          *)
(***************************************************************************)
EXTENDS SExpReader, SExpWriter

A == Symbol(<<"a">>)
Minus == Symbol(<<"-">>)
Dots == Symbol(<<".", ".", ".">>)
Long == Symbol(<<"t", Wide, "-", "1">>)

Atoms == {A, Minus, Long, True, False, Nil, Integer(7), Integer(-LongMax),
          Flonum(125), Flonum(-1005), Str(<<>>), Str(<<Wide, ".", ";">>),
          Str(<<"a", Quote, "(">>)}
Lists == {ListOf(<<d>>, Nil) : d \in Atoms}
         \cup {ListOf(<<d, A>>, Nil) : d \in Atoms}
         \cup {ListOf(<<A>>, d) : d \in Atoms}
         \cup {ListOf(<<ListOf(<<d>>, A), Long>>, Nil) : d \in {A, Nil, Str(<<>>)}}
MCContents == {<<d>> : d \in Atoms \cup Lists \cup {Dots}}
            \cup {<<A, d, A>> : d \in {Long, Nil, Integer(0), Str(<<Wide>>)}}
            \cup {<<>>, <<Dots, ListOf(<<Integer(1)>>, Nil)>>}

MCPartings == {<<" ">>, <<" ", "\n", "\t">>, <<";", "(", "\"", "\n">>}
MCEnds == {<<>>, <<"\n">>}

MCDamagedContents == {<<ListOf(<<Long, Str(<<Quote>>)>>, Integer(7))>>,
                      <<ListOf(<<ListOf(<<A>>, Nil)>>, Nil), True>>,
                      <<Flonum(125), Str(<<Wide, "a">>)>>}
MCDamage == {<<>>, <<")">>, <<"(">>, <<".">>, <<"\"">>, <<"\\">>, <<";">>,
             <<"#">>, <<"9">>, <<Lead>>, <<Trail>>}

\* Their texts, the spaces laid out as parting.
Laid(text, parting) ==
  FlattenSeq([i \in DOMAIN text |->
                IF text[i] = " " THEN parting ELSE <<text[i]>>])
FileText(data, parting) ==
  Bytes(Laid(FlattenSeq([i \in DOMAIN data |->
               (IF i = 1 THEN <<>> ELSE <<" ">>) \o Text(data[i])]), parting))

Sound == {[text |-> FileText(data, parting) \o end, data |-> data,
           sound |-> TRUE, chars |-> <<>>] : data \in MCContents, parting \in MCPartings,
                             end \in MCEnds}
Damaged ==
  UNION {LET text == FileText(data, <<" ", "\n">>)
         IN  {[text |-> SubSeq(text, 1, i - 1) \o bytes
                        \o SubSeq(text, i + 1, Len(text)),
               data |-> data, sound |-> FALSE, chars |-> <<>>] :
                i \in DOMAIN text, bytes \in MCDamage} :
         data \in MCDamagedContents}
MCInputs ==
  {[i EXCEPT !.chars = Decode(i.text).chars] : i \in Sound \cup Damaged}

=============================================================================
