------------------------------- MODULE UrlParams -------------------------------
(***************************************************************************)
(* Percent-encoding and lists of parameters (utils.cpp 113-236): queries,  *)
(* forms and cookies.  The parser reads a character at a time; characters  *)
(* are their codes, strings are sequences of them.                         *)
(***************************************************************************)
EXTENDS Integers, Sequences, SequencesExt

CONSTANTS Alphabet,  \* the characters that are read, of 0..255
          Delimiter, \* between two pairs: '&', or ';' in cookies; not a safe character
          MaxLength  \* bound on the text

Space == 32
Percent == 37
Plus == 43
Equals == 61
Digits == 48..57
Upper == 65..90
Lower == 97..122

VARIABLES text,  \* what has been read
          parser \* the variables of parse_params

vars == <<text, parser>>

-----------------------------------------------------------------------------
Safe == Upper \cup Lower \cup Digits \cup {45, 46, 95, 126}

HexDigit(n) == IF n < 10 THEN 48 + n ELSE 55 + n

\* One character of encode_url.
EncodeChar(c) == IF c \in Safe THEN <<c>> ELSE <<Percent, HexDigit(c \div 16), HexDigit(c % 16)>>

encode_url(s) == FlattenSeq([i \in DOMAIN s |-> EncodeChar(s[i])])

-----------------------------------------------------------------------------
HexValue(c) == CASE c \in Digits -> c - 48
                 [] c \in 65..70 -> c - 55
                 [] c \in 97..102 -> c - 87
                 [] OTHER -> -1

NoNumber == -1

\* What isspace accepts; the parser itself trims spaces only.
White == {Space} \cup 9..13

\* stoi of at most two characters, in base 16: white space, a sign, digits, and the
\* rest ignored.  Without a digit it throws.
stoi(s) ==
  LET blanks == CHOOSE n \in 0..Len(s) : /\ \A i \in 1..n : s[i] \in White
                                         /\ n = Len(s) \/ s[n + 1] \notin White
      signed == blanks < Len(s) /\ s[blanks + 1] \in {Plus, 45}
      num == SubSeq(s, blanks + 1 + (IF signed THEN 1 ELSE 0), Len(s))
      abs == IF Len(num) = 2 /\ HexValue(num[2]) >= 0 THEN 16 * HexValue(num[1]) + HexValue(num[2])
                                                      ELSE HexValue(num[1])
  IN CASE num = <<>> -> NoNumber
       [] num # <<>> /\ HexValue(num[1]) < 0 -> NoNumber
       [] OTHER -> IF signed /\ s[blanks + 1] = 45 THEN (256 - abs) % 256 ELSE abs

\* decode_url from position i on, with NoNumber where it throws.
decode_url(s) ==
  LET from[i \in Nat] ==
        IF i > Len(s) THEN <<>>
        ELSE IF s[i] = Percent THEN <<stoi(SubSeq(s, i + 1, IF i + 2 > Len(s) THEN Len(s) ELSE i + 2))>> \o from[i + 3]
        ELSE <<IF s[i] = Plus THEN Space ELSE s[i]>> \o from[i + 1]
  IN from[1]

Malformed(s) == NoNumber \in ToSet(decode_url(s))

-----------------------------------------------------------------------------
Start == [key |-> <<>>, value |-> <<>>, on |-> "key", dict |-> <<>>, list |-> <<>>, state |-> "reading"]

TrimRight(s) == SubSeq(s, 1, CHOOSE n \in 0..Len(s) : /\ n = 0 \/ s[n] # Space
                                                      /\ \A i \in (n + 1)..Len(s) : s[i] = Space)

Put(f, k, v) == [x \in DOMAIN f \cup {k} |-> IF x = k THEN v ELSE f[x]]
Without(f, k) == [x \in DOMAIN f \ {k} |-> f[x]]

\* The first value left in dict_params as well.
StoreLeavesDict(p, k, v) ==
  IF k \in DOMAIN p.list THEN [p EXCEPT !.list[k] = Append(@, v)]
  ELSE IF k \in DOMAIN p.dict THEN [p EXCEPT !.list = Put(@, k, <<p.dict[k], v>>)]
  ELSE [p EXCEPT !.dict = Put(@, k, v)]

\* One value for a key goes into dict_params; with a second they move to list_params.
Store(p, k, v) ==
  IF k \in DOMAIN p.list THEN [p EXCEPT !.list[k] = Append(@, v)]
  ELSE IF k \in DOMAIN p.dict THEN [p EXCEPT !.list = Put(@, k, <<p.dict[k], v>>), !.dict = Without(@, k)]
  ELSE [p EXCEPT !.dict = Put(@, k, v)]

\* A delimiter: the pair is trimmed, decoded and stored.
EndPair(p) ==
  LET key == TrimRight(p.key)
      value == TrimRight(p.value)
  IN IF key = <<>> /\ value = <<>> THEN [p EXCEPT !.key = key, !.value = value, !.on = "key"]
     ELSE IF Malformed(key) \/ Malformed(value) THEN [p EXCEPT !.state = "thrown"]
     ELSE Store([p EXCEPT !.key = <<>>, !.value = <<>>, !.on = "key"], decode_url(key), decode_url(value))

\* Leading blanks are dropped.
Pushed(s, c) == IF s = <<>> /\ c = Space THEN s ELSE Append(s, c)

\* '=' swaps the two strings, also the second one of a pair.
Step(p, c) == IF c = Equals THEN [p EXCEPT !.on = IF @ = "key" THEN "value" ELSE "key"]
              ELSE IF c = Delimiter THEN EndPair(p)
              ELSE IF p.on = "key" THEN [p EXCEPT !.key = Pushed(@, c)]
              ELSE [p EXCEPT !.value = Pushed(@, c)]

\* The appended delimiter ends the last pair.
Finish(p) == EndPair(p)

parse_params(s) == LET read[n \in 0..Len(s)] == IF n = 0 THEN Start
                                                ELSE IF read[n - 1].state = "thrown" THEN read[n - 1]
                                                ELSE Step(read[n - 1], s[n])
                       last == read[Len(s)]
                   IN IF last.state = "thrown" THEN last ELSE Finish(last)

-----------------------------------------------------------------------------
Init == text = <<>> /\ parser = Start

Read(c) == /\ parser.state # "thrown" /\ Len(text) < MaxLength
           /\ text' = Append(text, c)
           /\ parser' = Step(parser, c)

Next == \E c \in Alphabet : Read(c)

Spec == Init /\ [][Next]_vars

-----------------------------------------------------------------------------
\* The reference, with positions of a text s.  Where pairs end; what stands before such an
\* end; its characters after an even or odd number of '='; some without blanks around them.
Ends(s) == {i \in DOMAIN s : s[i] = Delimiter} \cup {Len(s) + 1}
Piece(s, e) == {i \in 1..(e - 1) : \A j \in i..(e - 1) : s[j] # Delimiter}
Marks(s, e, i) == Cardinality({j \in Piece(s, e) : s[j] = Equals /\ j < i})
Side(s, e, odd) == {i \in Piece(s, e) : s[i] # Equals /\ Marks(s, e, i) % 2 = odd}
Strip(s, I) == {i \in I : \E a, b \in I : a <= i /\ i <= b /\ s[a] # Space /\ s[b] # Space}

\* How many of some positions are up to i; the characters at these positions.
UpTo(I, i) == Cardinality({j \in I : j <= i})
Picked(s, I) == [n \in 1..Cardinality(I) |-> s[CHOOSE i \in I : UpTo(I, i) = n]]

Key(s, e) == Picked(s, Strip(s, Side(s, e, 0)))
Value(s, e) == Picked(s, Strip(s, Side(s, e, 1)))
Pairs(s) == {e \in Ends(s) : Key(s, e) # <<>> \/ Value(s, e) # <<>>}

\* The values that a result has for k.
Values(r, k) == IF k \in DOMAIN r.dict THEN <<r.dict[k]>> ELSE IF k \in DOMAIN r.list THEN r.list[k] ELSE <<>>

Result == IF parser.state = "thrown" THEN parser ELSE Finish(parser)

(* The result is what splitting the text gives: each piece a pair, blanks  *)
(* around keys and values stripped, the values of a key in their order,    *)
(* none lost; and it throws exactly when some piece has an escape without  *)
(* a number (utils.cpp 151-211).                                           *)
EveryPairOnce ==
  LET got == Result
      pairs == Pairs(text)
      bad == \E e \in pairs : Malformed(Key(text, e)) \/ Malformed(Value(text, e))
      keys == {decode_url(Key(text, e)) : e \in pairs}
  IN /\ got.state = "thrown" <=> bad
     /\ bad \/ /\ DOMAIN got.dict \cup DOMAIN got.list = keys
               /\ \A k \in keys :
                     LET at == {e \in pairs : decode_url(Key(text, e)) = k}
                     IN /\ Len(Values(got, k)) = Cardinality(at)
                        /\ \A e \in at : Values(got, k)[UpTo(at, e)] = decode_url(Value(text, e))

\* A result printed with encode_url.
Printed(r) == LET keys == SetToSeq(DOMAIN r.dict \cup DOMAIN r.list)
                pair(k, v) == encode_url(k) \o <<Equals>> \o encode_url(v) \o <<Delimiter>>
                all(k, vs) == FlattenSeq([m \in DOMAIN vs |-> pair(k, vs[m])])
            IN FlattenSeq([n \in DOMAIN keys |-> all(keys[n], Values(r, keys[n]))])

\* What was parsed, printed with encode_url and parsed again, is the same: no
\* blank, delimiter, '=' or '%' inside a key or a value gets lost or taken for syntax.
PrintedIsParsedAgain ==
  LET got == Result
      again == parse_params(Printed(got))
  IN got.state = "thrown" \/ (again.state # "thrown" /\ again.dict = got.dict /\ again.list = got.list)

(* Whatever text a client sends as its query, form or cookies: no pair is  *)
(* lost, split or mixed up, by the parser or on the way through encode_url.*)
ParamsKept == EveryPairOnce /\ PrintedIsParsedAgain
================================================================================
