------------------------------ MODULE KVLines ------------------------------
(***************************************************************************)
(* kvlines (src/internal/kvlines), the format of the cache: a magic line,  *)
(* and a line for each object: its type, its key, name=value for each      *)
(* property, and a comment.  A string that is not bare is quoted.          *)
(*                                                                         *)
(* A line is a sequence of characters, one of each class that the decoder  *)
(* tells apart; the names (type and properties) are single tokens, and all *)
(* values are strings: numbers and hashes are strings of bare characters.  *)
(***************************************************************************)
EXTENDS Integers, Sequences, FiniteSets, SequencesExt

CONSTANTS ObjName, Props             \* the type, and the sequence of its properties

VARIABLE objs                        \* the input: the objects of a file, by key

Bare == "a"
Blank == " "
Mark == "#"
Equal == "="
Quote == "\""
Escape == "\\"
Chars == {Bare, Blank, Mark, Equal, Quote, Escape}
Special == {Blank, Mark, Equal, Quote}          \* where cutBare stops
Names == {ObjName} \cup {Props[p] : p \in DOMAIN Props}

ASSUME KVLinesAssumption ==
  /\ ObjName \in STRING \ Chars /\ Props \in Seq(STRING \ Chars)
  /\ \A p, q \in DOMAIN Props : Props[p] = Props[q] => p = q

Failed == [ok |-> FALSE, tok |-> <<>>, rest |-> <<>>]
Cut(tok, rest) == [ok |-> TRUE, tok |-> tok, rest |-> rest]
From(s, i) == SubSeq(s, i, Len(s))

(* How many of the first characters are in C.                                *)
Span(s, C) == CHOOSE n \in 0 .. Len(s) : /\ \A i \in 1 .. n : s[i] \in C
                                         /\ n < Len(s) => s[n + 1] \notin C
TrimLeft(s) == From(s, Span(s, {Blank}) + 1)
TrimRight(s) ==
  SubSeq(s, 1, CHOOSE n \in 0 .. Len(s) : /\ n > 0 => s[n] # Blank
                                          /\ \A i \in n + 1 .. Len(s) : s[i] = Blank)

-----------------------------------------------------------------------------
(* Marshal. *)

IsBareRuneEqual(c) == c \in {Bare, Equal}         \* mutant: = is taken for bare
IsBareRune(c) == c = Bare

(* quoted[k]: the opening quote and the first k characters.                  *)
StrconvQuote(s) ==
  LET quoted[k \in 0 .. Len(s)] ==
        IF k = 0 THEN <<Quote>>
        ELSE quoted[k - 1] \o (IF s[k] \in {Quote, Escape} THEN <<Escape, s[k]>> ELSE <<s[k]>>) IN
  quoted[Len(s)] \o <<Quote>>

QuoteStr(s) == IF \A i \in 1 .. Len(s) : IsBareRune(s[i]) THEN s ELSE StrconvQuote(s)

(* line[p]: the line up to the p-th property.                                *)
EncodeObj(o) ==
  LET line[p \in 0 .. Len(Props)] ==
        IF p = 0 THEN <<ObjName, Blank>> \o QuoteStr(o.key)
        ELSE line[p - 1] \o (<<Blank, Props[p], Equal>> \o QuoteStr(o.props[p])) IN
  line[Len(Props)] \o (IF o.comment = <<>> THEN <<>> ELSE <<Blank, Mark, Blank>> \o o.comment)

Magic == <<Mark, Blank, ObjName>>
Marshal(os) == <<Magic>> \o SetToSeq({EncodeObj(o) : o \in os})

-----------------------------------------------------------------------------
(* Unmarshal. *)

CutBare(s) ==
  LET n == Span(s, (Chars \cup Names) \ Special) IN Cut(SubSeq(s, 1, n), From(s, n + 1))

(* end[k]: the position after k times round the loop; each time but those    *)
(* when it has ended is a character.                                         *)
CutQuoted(s) ==
  LET end[k \in 0 .. Len(s)] ==
        IF k = 0 THEN 2
        ELSE LET e == end[k - 1] IN
             IF e > Len(s) \/ s[e] = Quote THEN e ELSE IF s[e] = Escape THEN e + 2 ELSE e + 1
      last == end[Len(s)]
      n == CHOOSE n \in 0 .. Len(s) : end[n] = last /\ \A k \in 0 .. n - 1 : end[k] # last
      tok == [k \in 1 .. n |-> s[end[k - 1] + (IF s[end[k - 1]] = Escape THEN 1 ELSE 0)]] IN
  IF last > Len(s) THEN Failed ELSE Cut(tok, From(s, last + 1))

CutValue(line) ==
  LET s == TrimLeft(line) IN
  CASE s = <<>> -> Failed
    [] s # <<>> /\ s[1] = Quote -> CutQuoted(s)
    [] OTHER -> IF CutBare(s).tok = <<>> THEN Failed ELSE CutBare(s)

LineEnd(s) == TrimLeft(s) = <<>> \/ TrimLeft(s)[1] = Mark

CutComment(line) ==
  LET s == TrimLeft(line) IN
  IF s = <<>> \/ s[1] # Mark THEN <<>>
  ELSE TrimRight(IF Len(s) > 1 /\ s[2] = Blank THEN From(s, 3) ELSE From(s, 2))

(* A property that is known and new is cut off the line.                     *)
DecodeProp(st) ==
  LET name == CutBare(TrimLeft(st.rest))
      new == {p \in DOMAIN Props \ DOMAIN st.props : name.tok = <<Props[p]>>}
      s == From(name.rest, 2)
      val == IF s = <<>> \/ s[1] \in {Blank, Mark} THEN Cut(<<>>, s) ELSE CutValue(s) IN
  IF name.rest # <<>> /\ name.rest[1] = Equal /\ new # {} /\ val.ok
  THEN [ok |-> TRUE, rest |-> val.rest,
        props |-> [p \in new \cup DOMAIN st.props |-> IF p \in new THEN val.tok ELSE st.props[p]]]
  ELSE [st EXCEPT !.ok = FALSE]

DecodeObj(line) ==
  LET key == CutValue(line)
      st[i \in 0 .. Len(Props)] ==
        IF i = 0 THEN [ok |-> key.ok, rest |-> key.rest, props |-> <<>>]
        ELSE IF ~st[i - 1].ok \/ LineEnd(st[i - 1].rest) THEN st[i - 1]
        ELSE DecodeProp(st[i - 1])
      last == st[Len(Props)]
      ok == last.ok /\ LineEnd(last.rest) /\ DOMAIN last.props = 1 .. Len(Props) IN
  [ok |-> ok, obj |-> [key |-> key.tok, props |-> last.props, comment |-> CutComment(last.rest)]]

(* The objects, or that one of the lines is not understood.                  *)
Unmarshal(lines) ==
  LET trim == [n \in 1 .. Len(lines) |-> TrimRight(lines[n])]
      body == {n \in 2 .. Len(lines) : trim[n] # <<>> /\ trim[n][1] # Mark}
      dec == [n \in body |-> DecodeObj(CutBare(trim[n]).rest)] IN
  IF /\ lines # <<>> /\ trim[1] = Magic
     /\ \A n \in body : CutBare(trim[n]).tok = <<ObjName>> /\ dec[n].ok
     /\ \A m, n \in body : m # n => dec[m].obj.key # dec[n].obj.key
  THEN [ok |-> TRUE, objs |-> {dec[n].obj : n \in body}]
  ELSE [ok |-> FALSE, objs |-> {}]

-----------------------------------------------------------------------------
(* What is written to the cache file is read back, whatever is in the        *)
(* strings: the map has one object of a key, which is not empty, and a       *)
(* comment does not end with blanks.                                         *)
CacheRoundTrips ==
  (/\ \A o \in objs :
        o.key # <<>> /\ (o.comment # <<>> => o.comment[Len(o.comment)] # Blank)
   /\ \A o, p \in objs : o.key = p.key => o = p)
    => Unmarshal(Marshal(objs)) = [ok |-> TRUE, objs |-> objs]
=============================================================================
