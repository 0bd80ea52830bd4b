------------------------------- MODULE SExpReader -------------------------------
(***************************************************************************)
(* The reader of the settings files (util/read_s_exp.c): a buffer of       *)
(* characters decoded from UTF-8 with one character pushed back, a         *)
(* recursive reader of data, and the cells it allocates and has to free    *)
(* when the text is wrong or memory runs out. The C stack of read_list     *)
(* calls is the sequence frames; one action reads one character.           *)
(*                                                                         *)
(* Texts are sequences of bytes, each named by the character it is; one    *)
(* character takes the two bytes Lead and Trail. longs end at LongMax.     *)
(***************************************************************************)
EXTENDS SExpText

CONSTANTS
  None,
  INBUF_SIZE,
  Inputs,       \* the files: [text, chars, sound, data]
  MaxFailures,  \* bound: how many allocations fail
  MaxStray      \* bound: how often a word without characters is not an error

\* chars are the characters a file is decoded to; a sound one was written for a
\* list of data.
ASSUME SExpReaderAssumption ==
  /\ INBUF_SIZE \in Nat /\ INBUF_SIZE > 3
  /\ None \notin {EOF, Wide, "\n"}
  /\ \A i \in Inputs : /\ i.text \in Seq(Range(i.text)) /\ None \notin Range(i.text)
                       /\ i.chars = Decode(i.text).chars
  /\ MaxFailures \in Nat /\ MaxStray \in Nat

VARIABLES
  input,    \* what the file holds
  ctx,      \* struct s_exp_read_context, with the rest of the file
  at,       \* where the reader is
  comment,  \* within skip_line
  frames,   \* the lists begun: [items, tail, stage]; the first is read_all's
  word,     \* the string being read, and what it is to become
  val,      \* the datum just returned
  syms,     \* the names intern_symbol's table holds
  live,     \* cells allocated and references to symbols, the table's aside
  failures, strays

vars == <<input, ctx, at, comment, frames, word, val, syms, live, failures,
          strays>>

NewFrame == [items |-> <<>>, tail |-> Nil, stage |-> "items"]
NoWord == [to |-> "string", base |-> 10, str |-> <<>>]

Init ==
  /\ input \in Inputs
  /\ ctx = [file |-> input.text, pending |-> <<>>, buf |-> <<>>,
            push |-> None, line |-> 1, filled |-> FALSE]
  /\ at = "datum" /\ comment = FALSE
  /\ frames = <<NewFrame>>
  /\ word = NoWord /\ val = NullDatum /\ syms = {} /\ live = 0
  /\ failures = 0 /\ strays = 0

-----------------------------------------------------------------------------
(* Characters                                                              *)

\* fill_read_buf, when read_char finds the buffer empty: what is pending is
\* decoded again, before the next bytes. A block is lost when there is no
\* memory to decode it.
NeedsBlock == ctx.push = None /\ ctx.buf = <<>> /\ ctx.file # <<>> /\ ~ctx.filled

Fill ==
  LET n == Min({INBUF_SIZE - 1 - Len(ctx.pending), Len(ctx.file)})
      d == Decode(ctx.pending \o SubSeq(ctx.file, 1, n))
      after == [ctx EXCEPT !.file = SubSeq(@, n + 1, Len(@)), !.filled = TRUE]
  IN  /\ at \notin {"give", "done"} /\ NeedsBlock
      /\ \/ /\ ctx' = [after EXCEPT !.buf = d.chars, !.pending = d.rest]
            /\ UNCHANGED failures
         \/ failures < MaxFailures /\ failures' = failures + 1 /\ ctx' = after
      /\ UNCHANGED <<input, at, comment, frames, word, val, syms, live, strays>>

\* read_char: the next character, and the context after it.
Char == IF ctx.push # None THEN ctx.push
          ELSE IF ctx.buf = <<>> THEN EOF ELSE Head(ctx.buf)
Taken ==
  [ctx EXCEPT !.push = None, !.filled = FALSE,
              !.buf = IF ctx.push = None /\ @ # <<>> THEN Tail(@) ELSE @,
              !.line = @ + IF Char = "\n" THEN 1 ELSE 0]

\* Mutant of Pushback: the line begun is counted again when it is read again.
PushbackKeepsLine(x, c) == IF x.push # None THEN x ELSE [x EXCEPT !.push = c]

\* pushback_char
Pushback(x, c) ==
  IF x.push # None THEN x
  ELSE [x EXCEPT !.push = c, !.line = @ - IF c = "\n" THEN 1 ELSE 0]

-----------------------------------------------------------------------------
(* The reader                                                              *)

Give(d) == at' = "give" /\ val' = d
Error(x) == [ErrorDatum EXCEPT !.num = x.line]
Goto(state) == at' = state /\ UNCHANGED val
KeepsData == UNCHANGED <<frames, word, syms, live, strays>>

\* skip_ws_read_char goes on past spaces and comments.
Skipped(c) == c # EOF /\ (comment \/ c = ";" \/ CharType(c) = "space")
Skip(f) ==
  LET c == Char
  IN  /\ ~f /\ at \in {"datum", "first", "list", "close"}
      /\ Skipped(c)
      /\ ctx' = Taken
      /\ comment' = (c # "\n" /\ (comment \/ c = ";"))
      /\ UNCHANGED <<at, val>> /\ KeepsData

\* s_exp_empty_string, for read_string or, with what the word is to become,
\* for read_word.
BeginString(f, w) ==
  /\ \/ f /\ Give(ErrorDatum) /\ UNCHANGED <<word, live>>
     \/ /\ ~f /\ Goto(IF w.to = "string" THEN "string" ELSE "word")
        /\ word' = w /\ live' = live + 1
  /\ UNCHANGED <<frames, syms, strays>>

BeginWord(to, base) ==
  /\ Goto("first") /\ word' = [NoWord EXCEPT !.to = to, !.base = base]
  /\ UNCHANGED <<frames, syms, live, strays>>

\* read_s_exp
ReadSExp(f) ==
  LET c == Char
  IN  /\ at = "datum" /\ ~Skipped(c)
      /\ f => (c = "\"")
      /\ comment' = FALSE
      /\ ctx' = IF c \in {"(", "\"", "#", EOF} THEN Taken ELSE Pushback(Taken, c)
      /\ CASE c = "(" -> /\ frames' = Append(frames, NewFrame) /\ Goto("list")
                         /\ UNCHANGED <<word, syms, live, strays>>
           [] c = "\"" -> BeginString(f, NoWord)
           [] c = "#" -> Goto("hash") /\ KeepsData
           [] c = EOF -> Give(NullDatum) /\ KeepsData
           [] c \in Decimals -> BeginWord("number", 10)
           [] OTHER -> BeginWord("symbol", 10)

ReadHash(f) ==
  LET c == Char
      Base == [b |-> 2, o |-> 8, d |-> 10, x |-> 16]
  IN  /\ at = "hash" /\ ~f
      /\ ctx' = Taken
      /\ CASE c = "t" -> Give(True) /\ KeepsData
           [] c = "f" -> Give(False) /\ KeepsData
           [] c \in DOMAIN Base -> BeginWord("integer", Base[c])
           [] OTHER -> Give(Error(Taken)) /\ KeepsData
      /\ UNCHANGED comment

\* read_word up to its first character, which is put back here and read again
\* as the rest of the word is.
ReadFirst(f) ==
  LET c == Char
  IN  /\ at = "first" /\ ~Skipped(c)
      /\ comment' = FALSE
      /\ IF c = EOF
         THEN ~f /\ ctx' = Taken /\ Give(Error(Taken)) /\ KeepsData
         ELSE ctx' = Pushback(Taken, c) /\ BeginString(f, word)

\* s_exp_append_char_to_string; room is made at the first character.
AppendChar(f, c, state) ==
  /\ f => word.str = <<>>
  /\ IF f THEN Give(ErrorDatum) /\ live' = live - 1 /\ UNCHANGED word
     ELSE Goto(state) /\ word' = [word EXCEPT !.str = Append(@, c)]
          /\ UNCHANGED live
  /\ UNCHANGED <<frames, syms, strays>>

\* What the word read stands for, at context x. intern_symbol needs no memory
\* for a name it has; an integer there is no memory for is tried as a flonum.
Outcomes(f, x) ==
  LET m == Meaning(word)
      n == IF word.to = "integer" THEN IntegerOf(word.str, word.base)
           ELSE NumberOf(word.str)
  IN  CASE m = "stray" /\ ~f ->
             {Error(x)} \cup IF strays < MaxStray THEN Garbage ELSE {}
        [] m = "symbol" /\ ~f -> {Symbol(word.str)}
        [] m = "symbol" /\ f /\ word.str \notin syms -> {ErrorDatum}
        [] m = "number" /\ ~f -> {IF n.k = "error" THEN Error(x) ELSE n}
        [] m = "number" /\ f /\ n.k # "error" ->
             {IF n.k = "integer" /\ word.to # "integer" THEN FlonumOf(word.str)
              ELSE ErrorDatum}
        [] m = "bad symbol" /\ ~f -> {Error(x)}
        [] OTHER -> {}

WordDone(f, x) ==
  \E d \in Outcomes(f, x) :
    /\ Give(d)
    /\ live' = live - 1 + d.cells
    /\ syms' = syms \cup IF d.k = "symbol" THEN {d.str} ELSE {}
    /\ strays' = strays + IF Meaning(word) = "stray" /\ d.k # "error" THEN 1 ELSE 0
    /\ UNCHANGED <<frames, word>>

ReadWord(f) ==
  LET c == Char
  IN  /\ at = "word"
      /\ IF InWord(c)
         THEN ctx' = Taken /\ AppendChar(f, c, "word")
         ELSE LET x == IF c = EOF THEN Taken ELSE Pushback(Taken, c)
              IN  ctx' = x /\ WordDone(f, x)
      /\ UNCHANGED comment

\* Mutant of ReadString: the end of the file is not looked for.
ReadStringOn(f) ==
  LET c == Char
      fails == live' = live - 1 /\ Give(Error(Taken))
               /\ UNCHANGED <<frames, word, syms, strays>>
  IN  /\ at \in {"string", "escape"}
      /\ f => c # EOF /\ (c \notin {"\"", "\\"} \/ at = "escape")
      /\ ctx' = Taken
      /\ CASE c = EOF -> ~f /\ Goto(at) /\ KeepsData
           [] at = "string" /\ c = "\"" -> Give(Str(word.str)) /\ KeepsData
           [] at = "string" /\ c = "\\" -> Goto("escape") /\ KeepsData
           [] at = "escape" /\ c \notin {"\"", "\\"} -> ~f /\ fails
           [] OTHER -> AppendChar(f, IF c = "\"" THEN Quote ELSE c, "string")
      /\ UNCHANGED comment

\* read_string
ReadString(f) ==
  LET c == Char
      fails == live' = live - 1 /\ Give(Error(Taken))
               /\ UNCHANGED <<frames, word, syms, strays>>
  IN  /\ at \in {"string", "escape"}
      /\ f => c # EOF /\ (c \notin {"\"", "\\"} \/ at = "escape")
      /\ ctx' = Taken
      /\ CASE c = EOF -> fails
           [] at = "string" /\ c = "\"" -> Give(Str(word.str)) /\ KeepsData
           [] at = "string" /\ c = "\\" -> Goto("escape") /\ KeepsData
           [] at = "escape" /\ c \notin {"\"", "\\"} -> ~f /\ fails
           [] OTHER -> AppendChar(f, IF c = "\"" THEN Quote ELSE c, "string")
      /\ UNCHANGED comment

-----------------------------------------------------------------------------
(* read_list and read_all_s_exp                                            *)

Top == frames[Len(frames)]
Built == ListOf(Top.items, Top.tail)

\* Mutant of ListFails: what was to be added is forgotten.
ListFailsKeepsDatum(lost, d) ==
  /\ Give(d)
  /\ live' = live - Built.cells
  /\ frames' = IF Len(frames) = 1 THEN <<NewFrame>> ELSE Front(frames)

\* The list begun, and what was to be added to it, are freed.
ListFails(lost, d) ==
  /\ Give(d)
  /\ live' = live - Built.cells - lost
  /\ frames' = IF Len(frames) = 1 THEN <<NewFrame>> ELSE Front(frames)
ListDone == Give(Built) /\ frames' = Front(frames) /\ UNCHANGED live

ReadList(f) ==
  LET c == Char
  IN  /\ at = "list" /\ ~f /\ ~Skipped(c)
      /\ comment' = FALSE
      /\ ctx' = IF c \in {")", ".", EOF} THEN Taken ELSE Pushback(Taken, c)
      /\ CASE c = ")" -> ListDone
           [] c = EOF \/ (c = "." /\ Top.items = <<>>) -> ListFails(0, Error(Taken))
           [] c = "." /\ Top.items # <<>> ->
                /\ frames' = [frames EXCEPT ![Len(frames)].stage = "tail"]
                /\ Goto("datum") /\ UNCHANGED live
           [] OTHER -> Goto("datum") /\ UNCHANGED <<frames, live>>
      /\ UNCHANGED <<word, syms, strays>>

\* The parenthesis after the datum that follows a dot.
ReadClose(f) ==
  LET c == Char
  IN  /\ at = "close" /\ ~f /\ ~Skipped(c)
      /\ comment' = FALSE /\ ctx' = Taken
      /\ IF c = ")" THEN ListDone ELSE ListFails(0, Error(Taken))
      /\ UNCHANGED <<word, syms, strays>>

\* A datum has been read: it is appended to the list, or becomes its tail.
Receive(f) ==
  /\ at = "give"
  /\ IF val.k \in {"NULL", "error"}
     THEN /\ ~f
          /\ IF Len(frames) = 1
             THEN /\ at' = "done"
                  /\ val' = IF val.k = "NULL" THEN Built ELSE val
                  /\ live' = live - IF val.k = "NULL" THEN 0 ELSE Built.cells
                  /\ UNCHANGED frames
             ELSE ListFails(0, IF val.k = "NULL" THEN Error(ctx) ELSE val)
     ELSE IF Top.stage = "tail"
     THEN /\ ~f /\ Goto("close")
          /\ frames' = [frames EXCEPT ![Len(frames)].tail = val]
          /\ UNCHANGED live
     ELSE IF f THEN ListFails(val.cells, ErrorDatum)
     ELSE /\ Goto(IF Len(frames) = 1 THEN "datum" ELSE "list")
          /\ frames' = [frames EXCEPT ![Len(frames)].items = Append(@, val)]
          /\ live' = live + 1
  /\ UNCHANGED <<ctx, comment, word, syms, strays>>

Step(f) ==
  \/ Skip(f) \/ ReadSExp(f) \/ ReadHash(f) \/ ReadFirst(f) \/ ReadWord(f)
  \/ ReadString(f) \/ ReadList(f) \/ ReadClose(f) \/ Receive(f)

Next ==
  \/ Fill
  \/ /\ at \in {"give", "done"} \/ ~NeedsBlock
     /\ \E f \in BOOLEAN :     \* whether a cell or a string cannot be allocated
          /\ f => failures < MaxFailures
          /\ failures' = failures + IF f THEN 1 ELSE 0
          /\ Step(f)
     /\ UNCHANGED input

\* The reader is called once and runs to its end.
Spec == Init /\ [][Next]_vars /\ WF_vars(Next)

-----------------------------------------------------------------------------
(* Properties                                                              *)

\* The characters the reader has not been given yet, had the rest of the file
\* been decoded in one piece.
Ahead == ctx.buf \o Decode(ctx.pending \o ctx.file).chars
NewLines(s) == Cardinality({i \in DOMAIN s : s[i] = "\n"})

\* Wherever a block ends, even within a character, the reader is given the
\* characters of the file, each once; and the line number errors are reported
\* with counts the lines begun, a new line put back not being counted twice.
PlaceInFile ==
  LET ahead == Ahead
      given == Len(input.chars) - Len(ahead)
  IN  failures = 0 =>
        /\ given >= 0 /\ ahead = SubSeq(input.chars, given + 1, Len(input.chars))
        /\ ctx.line = 1 + NewLines(SubSeq(input.chars, 1, given))
                        - IF ctx.push = "\n" THEN 1 ELSE 0

\* A file that was written for a list of data is read as that list, however it
\* is laid out in lines, comments and blocks.
ReadsWhatIsWritten ==
  at = "done" /\ failures = 0 /\ input.sound => val = ListOf(input.data, Nil)

\* Whatever is wrong with the file, and whichever allocation fails, what is
\* allocated at the end is the datum returned: half-read lists, words and
\* strings are freed once, and symbols keep one reference per occurrence.
NothingLeaked == at = "done" => live = val.cells

\* A list, string or comment that does not end, at any place, ends the reader.
\* A stray character may keep it going: the word it makes has no characters,
\* and what the memory of that word holds decides.
ReaderEnds == <>(at = "done" \/ strays > 0)

=============================================================================
