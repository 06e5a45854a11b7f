------------------------------ MODULE GoProofs ------------------------------
(***************************************************************************)
(* Proofs of what the parser of Go sources promises.                       *)
(*                                                                         *)
(* The tokenizer (GoTokenizer.tla), for every text: a token is where it says *)
(* it is, and is a tag only in a struct.                                   *)
(*                                                                         *)
(* The recognizer (GoRecognizer.tla), for every list of tokens: the walk   *)
(* never stands still and yields no cgo import; for every list with balanced *)
(* brackets and whole clauses, its depth is the nesting of the text, and no *)
(* declaration outside of the brackets is lost.                            *)
(***************************************************************************)
EXTENDS GoTokenizer, GoRecognizer, OrderingProofs

-----------------------------------------------------------------------------
(* The tokenizer: where a token ends.                                       *)

TextOK == text \in Seq(Alphabet)

LEMMA TextIsChars ==
  ASSUME TextOK
  PROVE  /\ Len(text) \in Nat
         /\ DOMAIN text = 1..Len(text)
         /\ \A q \in 1..Len(text) : text[q] \in Alphabet
         /\ \A q \in Nat : At(q) # "EOF" => q \in 1..Len(text)
         /\ \A q \in 1..Len(text) : At(q) = text[q]
<1>1. /\ Len(text) \in Nat /\ DOMAIN text = 1..Len(text)
      /\ \A q \in 1..Len(text) : text[q] \in Alphabet
  BY DEF TextOK
<1>2. \A q : At(q) = IF q \in 1..Len(text) THEN text[q] ELSE "EOF"
  BY <1>1 DEF At
<1> QED BY <1>1, <1>2

(* The first position from p on in S, or the one after n.                    *)
LEMMA FirstIn ==
  ASSUME NEW n \in Nat, NEW p \in 1..(n + 1), NEW S
  PROVE  \E q \in p..(n + 1) :
           /\ q > n \/ q \in S
           /\ \A r \in p..(q - 1) : r <= n /\ r \notin S
<1> DEFINE C == {q \in p..(n + 1) : q > n \/ q \in S}
<1>1. C \in SUBSET Nat /\ n + 1 \in C
  OBVIOUS
<1>2. PICK q \in C : IsFirst(q, C)
  BY <1>1, LeastElement
<1>3. \A r \in C : q <= r
  BY <1>2 DEF IsFirst
<1>4. ASSUME NEW r \in p..(q - 1) PROVE r <= n /\ r \notin S
  <2>1. r \in p..(n + 1) /\ ~(q <= r)
    OBVIOUS
  <2>2. r \notin C
    BY <1>3, <2>1
  <2> QED BY <2>1, <2>2
<1> QED BY <1>4

LEMMA SkipEnds ==
  ASSUME TextOK, NEW p \in 1..(Len(text) + 1), NEW chars
  PROVE  Skip(p, chars) \in p..(Len(text) + 1)
<1> DEFINE S == {q \in 1..Len(text) : text[q] \notin chars}
<1>1. Len(text) \in Nat
  BY TextIsChars
<1>2. \A q \in 1..Len(text) : q \in S <=> text[q] \notin chars
  OBVIOUS
<1> HIDE DEF S
<1>3. PICK q \in p..(Len(text) + 1) :
        /\ q > Len(text) \/ q \in S
        /\ \A r \in p..(q - 1) : r <= Len(text) /\ r \notin S
  BY <1>1, FirstIn
<1>4. \A r \in p..(q - 1) : r \in 1..Len(text)
  BY <1>1, <1>3
<1>5. /\ q > Len(text) \/ text[q] \notin chars
      /\ \A r \in p..(q - 1) : r <= Len(text) /\ text[r] \in chars
  BY <1>1, <1>2, <1>3, <1>4
<1> QED BY <1>5 DEF Skip, FirstFailing

LEMMA BlanksStop ==
  ASSUME TextOK, NEW p \in 1..(Len(text) + 1)
  PROVE  WhitespaceEnd(p) \in p..(Len(text) + 1)
<1> DEFINE S == {q \in 1..Len(text) : ~Blank(q)}
<1>1. Len(text) \in Nat
  BY TextIsChars
<1>2. \A q \in 1..Len(text) : q \in S <=> ~Blank(q)
  OBVIOUS
<1> HIDE DEF S
<1>3. PICK q \in p..(Len(text) + 1) :
        /\ q > Len(text) \/ q \in S
        /\ \A r \in p..(q - 1) : r <= Len(text) /\ r \notin S
  BY <1>1, FirstIn
<1>4. \A r \in p..(q - 1) : r \in 1..Len(text)
  BY <1>1, <1>3
<1>5. /\ q > Len(text) \/ ~Blank(q)
      /\ \A r \in p..(q - 1) : r <= Len(text) /\ Blank(r)
  BY <1>1, <1>2, <1>3, <1>4
<1> QED BY <1>5 DEF WhitespaceEnd, FirstFailing

LEMMA LineCommentEnds ==
  ASSUME TextOK, NEW p \in 1..(Len(text) + 1)
  PROVE  LineCommentEnd(p) \in p..(Len(text) + 1)
<1> DEFINE S == {q \in 1..Len(text) : text[q] = "LF"}
<1>1. Len(text) \in Nat
  BY TextIsChars
<1>2. \A q \in 1..Len(text) : q \in S <=> text[q] = "LF"
  OBVIOUS
<1> HIDE DEF S
<1>3. PICK q \in p..(Len(text) + 1) :
        /\ q > Len(text) \/ q \in S
        /\ \A r \in p..(q - 1) : r <= Len(text) /\ r \notin S
  BY <1>1, FirstIn
<1>4. \A r \in p..(q - 1) : r \in 1..Len(text)
  BY <1>1, <1>3
<1>5. /\ q > Len(text) \/ ~(text[q] # "LF")
      /\ \A r \in p..(q - 1) : r <= Len(text) /\ text[r] # "LF"
  BY <1>1, <1>2, <1>3, <1>4
<1> QED BY <1>5 DEF LineCommentEnd, FirstFailing

LEMMA BlockCommentEnds ==
  ASSUME TextOK, NEW p \in 1..Len(text), At(p + 1) = "*"
  PROVE  BlockCommentEnd(p) \in Nat /\ (BlockCommentEnd(p) # 0 => p < BlockCommentEnd(p))
<1> DEFINE Shuts(q) == text[q] = "*" /\ At(q + 1) = "/"
           S == {q \in 1..Len(text) : Shuts(q)}
           end == FirstFailing(p + 2, LAMBDA r : ~(text[r] = "*" /\ At(r + 1) = "/"))
<1>1. Len(text) \in Nat
  BY TextIsChars
<1>2. \A q \in 1..Len(text) : q \in S <=> Shuts(q)
  OBVIOUS
<1> HIDE DEF S
<1>3. p + 2 \in 1..(Len(text) + 1)
  <2>1. p + 1 \in 1..Len(text)
    BY <1>1, TextIsChars
  <2> QED BY <1>1, <2>1
<1>4. PICK q \in (p + 2)..(Len(text) + 1) :
        /\ q > Len(text) \/ q \in S
        /\ \A r \in (p + 2)..(q - 1) : r <= Len(text) /\ r \notin S
  <2> DEFINE start == p + 2
  <2>1. start \in 1..(Len(text) + 1)
    BY <1>3
  <2> HIDE DEF start
  <2>2. \E q \in start..(Len(text) + 1) :
          /\ q > Len(text) \/ q \in S
          /\ \A r \in start..(q - 1) : r <= Len(text) /\ r \notin S
    BY <1>1, <2>1, FirstIn
  <2> QED BY <2>2 DEF start
<1>5. \A r \in (p + 2)..(q - 1) : r \in 1..Len(text)
  BY <1>1, <1>4
<1>6. /\ q > Len(text) \/ ~(~Shuts(q))
      /\ \A r \in (p + 2)..(q - 1) : r <= Len(text) /\ ~Shuts(r)
  <2>1. q > Len(text) \/ q \in 1..Len(text)
    BY <1>1, <1>4
  <2> HIDE DEF Shuts
  <2> QED BY <1>2, <1>4, <1>5, <2>1
<1>7. end \in (p + 2)..(Len(text) + 1)
  BY <1>6 DEF FirstFailing
<1>8. BlockCommentEnd(p) = IF end > Len(text) THEN 0 ELSE end + 2
  BY DEF BlockCommentEnd
<1> HIDE DEF end
<1> QED BY <1>1, <1>7, <1>8

LEMMA RawStringEnds ==
  ASSUME TextOK, NEW p \in 1..Len(text)
  PROVE  RawStringEnd(p) \in Nat /\ (RawStringEnd(p) # 0 => p < RawStringEnd(p))
<1> DEFINE S == {q \in 1..Len(text) : text[q] = "TICK"}
           end == FirstFailing(p + 1, LAMBDA r : text[r] # "TICK")
<1>1. Len(text) \in Nat /\ p + 1 \in 1..(Len(text) + 1)
  BY TextIsChars
<1>2. \A q \in 1..Len(text) : q \in S <=> text[q] = "TICK"
  OBVIOUS
<1> HIDE DEF S
<1>3. PICK q \in (p + 1)..(Len(text) + 1) :
        /\ q > Len(text) \/ q \in S
        /\ \A r \in (p + 1)..(q - 1) : r <= Len(text) /\ r \notin S
  BY <1>1, FirstIn
<1>4. \A r \in (p + 1)..(q - 1) : r \in 1..Len(text)
  BY <1>1, <1>3
<1>5. /\ q > Len(text) \/ ~(text[q] # "TICK")
      /\ \A r \in (p + 1)..(q - 1) : r <= Len(text) /\ text[r] # "TICK"
  BY <1>1, <1>2, <1>3, <1>4
<1>6. end \in (p + 1)..(Len(text) + 1)
  BY <1>5 DEF FirstFailing
<1>7. RawStringEnd(p) = IF end > Len(text) THEN 0 ELSE end + 1
  BY DEF RawStringEnd
<1> HIDE DEF end
<1> QED BY <1>1, <1>6, <1>7

LEMMA EscapesStayInside ==
  ASSUME TextOK, NEW q \in 1..Len(text), EscapeLength(q) # 0
  PROVE  EscapeLength(q) \in Nat /\ q + EscapeLength(q) \in (q + 1)..(Len(text) + 1)
<1>1. Len(text) \in Nat
  BY TextIsChars
<1>2. "EOF" \notin HexDigits /\ "EOF" \notin OctalDigits /\ "EOF" \notin SimpleEscapes
  BY AlphabetAssumption DEF AlphabetAssumption, HexDigits, OctalDigits, SimpleEscapes
<1> DEFINE Numeric(first, k, set) ==
      IF \A r \in first..(first + k - 1) : At(r) \in set THEN first + k - q ELSE 0
<1>3. ASSUME NEW first \in {q + 1, q + 2}, NEW k \in {2, 3, 4, 8}, NEW set,
             "EOF" \notin set, Numeric(first, k, set) # 0
      PROVE  /\ Numeric(first, k, set) \in Nat
             /\ q + Numeric(first, k, set) \in (q + 1)..(Len(text) + 1)
  <2>1. /\ \A r \in first..(first + k - 1) : At(r) \in set
        /\ Numeric(first, k, set) = first + k - q
    BY <1>3
  <2>2. first + k - 1 \in first..(first + k - 1) /\ first + k - 1 \in Nat
    OBVIOUS
  <2>3. At(first + k - 1) # "EOF"
    BY <1>3, <2>1, <2>2
  <2>4. first + k - 1 <= Len(text)
    BY <2>2, <2>3, TextIsChars
  <2> QED BY <1>1, <2>1, <2>2, <2>4
<1>4. \/ At(q + 1) \in SimpleEscapes /\ EscapeLength(q) = 2
      \/ EscapeLength(q) = Numeric(q + 2, 2, HexDigits)
      \/ EscapeLength(q) = Numeric(q + 2, 4, HexDigits)
      \/ EscapeLength(q) = Numeric(q + 2, 8, HexDigits)
      \/ EscapeLength(q) = Numeric(q + 1, 3, OctalDigits)
  <2>1. EscapeLength(q) =
          CASE At(q + 1) \in SimpleEscapes -> 2
            [] At(q + 1) = "x" -> Numeric(q + 2, 2, HexDigits)
            [] At(q + 1) = "u" -> Numeric(q + 2, 4, HexDigits)
            [] At(q + 1) = "U" -> Numeric(q + 2, 8, HexDigits)
            [] At(q + 1) \in OctalDigits -> Numeric(q + 1, 3, OctalDigits)
            [] OTHER -> 0
    BY DEF EscapeLength
  <2> HIDE DEF Numeric
  <2> QED BY <2>1
<1>5. CASE At(q + 1) \in SimpleEscapes /\ EscapeLength(q) = 2
  <2>1. q + 1 \in 1..Len(text)
    BY <1>2, <1>5, TextIsChars
  <2> QED BY <1>1, <1>5, <2>1
<1> HIDE DEF Numeric
<1> QED BY <1>2, <1>3, <1>4, <1>5

(* The scan of a string literal is defined by recursion over the rest of the *)
(* text: there is such a function, from the last position back to the first. *)
LEMMA StringEnd ==
  ASSUME TextOK, NEW p \in 1..Len(text)
  PROVE  StringScan(p).end \in Nat /\ (StringScan(p).end # 0 => p < StringScan(p).end)
<1> DEFINE n == Len(text)
           D == (p + 1)..(n + 1)
           E(f, q) ==
             CASE At(q) = "QUOTE" -> Ended(q + 1)
               [] At(q) \in {"LF", "EOF"} -> Malformed("unterminated_string")
               [] At(q) = "BACKSLASH" ->
                    IF At(q + 1) = "EOF" THEN Malformed("unterminated_string")
                    ELSE IF EscapeLength(q) = 0 THEN Malformed("invalid_escape")
                    ELSE f[q + EscapeLength(q)]
               [] OTHER -> f[q + 1]
           From(k, f) == /\ f = [q \in D |-> f[q]]
                         /\ \A q \in k..(n + 1) : f[q] = E(f, q)
           scan == CHOOSE f : f = [q \in D |-> E(f, q)]
<1>1. StringScan(p) = scan[p + 1]
  BY DEF StringScan
<1>2. n \in Nat
  BY TextIsChars
<1> HIDE DEF n
<1>3. ASSUME NEW q \in D, NEW f
      PROVE  /\ \/ E(f, q) = Ended(q + 1)
                \/ \E reason : E(f, q) = Malformed(reason)
                \/ q < n + 1 /\ \E r \in (q + 1)..(n + 1) : E(f, q) = f[r]
             /\ \A g : (\A r \in (q + 1)..(n + 1) : g[r] = f[r]) =>
                          E(g, q) = E(f, q)
  <2>0. q \in Nat /\ (At(q) # "EOF" => q \in 1..n)
    BY TextIsChars, <1>2 DEF n
  <2>1. CASE At(q) = "QUOTE"
    BY <2>1
  <2>2. CASE At(q) \in {"LF", "EOF"}
    BY <2>2
  <2>3. CASE At(q) = "BACKSLASH"
    <3>1. CASE At(q + 1) = "EOF" \/ EscapeLength(q) = 0
      BY <2>3, <3>1
    <3>2. CASE At(q + 1) # "EOF" /\ EscapeLength(q) # 0
      <4>1. q + EscapeLength(q) \in (q + 1)..(n + 1)
        BY <2>0, <2>3, <3>2, EscapesStayInside DEF n
      <4>2. \A g : E(g, q) = g[q + EscapeLength(q)]
        BY <2>3, <3>2
      <4> QED BY <1>2, <2>0, <4>1, <4>2
    <3> QED BY <3>1, <3>2
  <2>4. CASE At(q) \notin {"QUOTE", "LF", "EOF", "BACKSLASH"}
    <3>1. q + 1 \in (q + 1)..(n + 1)
      BY <1>2, <2>0, <2>4
    <3>2. \A g : E(g, q) = g[q + 1]
      BY <2>4
    <3> QED BY <1>2, <2>0, <3>1, <3>2
  <2> QED BY <2>1, <2>2, <2>3, <2>4
<1> HIDE DEF E
<1>4. \E f : f = [q \in D |-> E(f, q)]
  <2> DEFINE K == {k \in D : \E f : From(k, f)}
  <2>1. K \in SUBSET Nat /\ n + 1 \in K
    <3>1. n + 1 \in D
      BY <1>2 DEF n
    <3> DEFINE f == [q \in D |-> E([r \in D |-> 0], q)]
    <3>2. f = [q \in D |-> f[q]]
      OBVIOUS
    <3>3. \A r : r \notin ((n + 1) + 1)..(n + 1)
      BY <1>2
    <3>4. E(f, n + 1) = E([r \in D |-> 0], n + 1)
      <4> HIDE DEF f
      <4> QED BY <1>3, <3>1, <3>3
    <3>5. f[n + 1] = E([r \in D |-> 0], n + 1)
      BY <3>1
    <3>6. \A q \in (n + 1)..(n + 1) : q = n + 1
      BY <1>2
    <3> HIDE DEF f
    <3>7. From(n + 1, f)
      BY <3>2, <3>4, <3>5, <3>6
    <3> QED BY <1>2, <3>1, <3>7
  <2>2. PICK k \in K : IsFirst(k, K)
    BY <2>1, LeastElement
  <2>3. PICK f : From(k, f)
    BY <2>2
  <2>4. k \in D /\ k \in Nat
    BY <1>2
  <2>5. k = p + 1
    <3> SUFFICES ASSUME k # p + 1 PROVE FALSE
      OBVIOUS
    <3>1. k - 1 \in D /\ k - 1 < k
      BY <1>2, <2>4
    <3> DEFINE g == [q \in D |-> IF q = k - 1 THEN E(f, k - 1) ELSE f[q]]
    <3>2. g = [q \in D |-> g[q]]
      OBVIOUS
    <3>3. \A q \in D : g[q] = IF q = k - 1 THEN E(f, k - 1) ELSE f[q]
      OBVIOUS
    <3> HIDE DEF g
    <3>4. ASSUME NEW q \in (k - 1)..(n + 1) PROVE g[q] = E(g, q)
      <4>1. q \in D /\ \A r \in (q + 1)..(n + 1) : r \in D /\ r # k - 1
        BY <1>2, <2>4, <3>1
      <4>2. \A r \in (q + 1)..(n + 1) : g[r] = f[r]
        BY <3>3, <4>1
      <4>3. E(g, q) = E(f, q)
        BY <1>3, <4>1, <4>2
      <4>4. CASE q = k - 1
        BY <3>3, <4>1, <4>3, <4>4
      <4>5. CASE q # k - 1
        <5>0. k - 1 <= q /\ q <= n + 1 /\ q \in Nat
          BY <1>2, <4>1
        <5>1. q \in k..(n + 1)
          <6> HIDE DEF K, D, From
          <6> QED BY <1>2, <2>4, <4>5, <5>0
        <5>2. f[q] = E(f, q)
          BY <2>3, <5>1
        <5>3. g[q] = f[q]
          BY <3>3, <4>1, <4>5
        <5> QED BY <4>3, <5>2, <5>3
      <4> QED BY <4>4, <4>5
    <3>5. From(k - 1, g)
      BY <3>2, <3>4
    <3>6. k - 1 \in K
      BY <3>1, <3>5
    <3> QED BY <2>2, <2>4, <3>1, <3>6 DEF IsFirst
  <2>6. f = [q \in D |-> E(f, q)]
    <3>1. \A q \in D : f[q] = E(f, q)
      BY <2>3, <2>5
    <3>2. f = [q \in D |-> f[q]]
      BY <2>3
    <3> QED BY <3>1, <3>2
  <2> QED BY <2>6
<1>5. scan = [q \in D |-> E(scan, q)]
  BY <1>4
<1> HIDE DEF scan
<1>6. \A q \in D : scan[q] = E(scan, q)
  BY <1>5
<1> DEFINE Good(q) == scan[q].end \in Nat /\ (scan[q].end # 0 => p < scan[q].end)
           Bad == {q \in D : ~Good(q)}
<1>7. Bad = {}
  <2> SUFFICES ASSUME Bad # {} PROVE FALSE
    OBVIOUS
  <2>1. Bad \in SUBSET (0..(n + 1)) /\ n + 1 \in Nat
    BY <1>2
  <2>2. PICK q \in Bad : \A r \in Bad : r <= q
    <3> HIDE DEF Bad
    <3> QED BY <2>1, GreatestElement
  <2>3. q \in D /\ q \in Nat /\ p < q /\ ~Good(q)
    BY <1>2
  <2>4. \A r \in (q + 1)..(n + 1) : r \in D /\ ~(r <= q)
    BY <1>2, <2>3
  <2>5. \A r \in (q + 1)..(n + 1) : Good(r)
    BY <2>2, <2>4
  <2>6. \/ scan[q] = Ended(q + 1)
        \/ \E reason : scan[q] = Malformed(reason)
        \/ \E r \in (q + 1)..(n + 1) : scan[q] = scan[r]
    BY <1>3, <1>6, <2>3
  <2>7. CASE scan[q] = Ended(q + 1)
    BY <2>3, <2>7 DEF Ended
  <2>8. CASE \E reason : scan[q] = Malformed(reason)
    BY <2>3, <2>8 DEF Malformed
  <2>9. CASE \E r \in (q + 1)..(n + 1) : scan[q] = scan[r]
    BY <2>3, <2>5, <2>9
  <2> QED BY <2>6, <2>7, <2>8, <2>9
<1>8. p + 1 \in D
  BY <1>2 DEF n
<1> QED BY <1>1, <1>7, <1>8

LEMMA NumberEnds ==
  ASSUME TextOK, NEW p \in 1..Len(text)
  PROVE  NumberEnd(p) \in Nat /\ p <= NumberEnd(p)
<1> DEFINE n == Len(text)
           radix == text[p] = "0" /\ At(p + 1) \in {"x", "X", "o", "O", "b", "B"}
           hex == radix /\ At(p + 1) \in {"x", "X"}
           run == (IF hex THEN HexDigits ELSE Digits)
           start == IF radix THEN p + 2 ELSE p
           whole == Skip(start, run \cup {"_"})
           fraction == IF At(whole) # "." \/ At(whole + 1) = "." THEN whole
                       ELSE IF At(whole + 1) \in run
                         THEN Skip(whole + 1, run \cup {"_"}) ELSE whole + 1
           sign == IF At(fraction + 1) \in {"+", "-"} THEN fraction + 2
                   ELSE fraction + 1
           exponent == IF At(fraction) \in (IF hex THEN {"p", "P"} ELSE {"e", "E"})
                         THEN Skip(sign, Digits \cup {"_"}) ELSE fraction
<1>1. NumberEnd(p) = IF At(exponent) = "i" THEN exponent + 1 ELSE exponent
  BY DEF NumberEnd
<1>2. n \in Nat /\ \A q \in Nat : At(q) # "EOF" => q \in 1..n
  BY TextIsChars
<1>3. p \in 1..n
  OBVIOUS
<1>4. "EOF" \notin run
  BY AlphabetAssumption DEF AlphabetAssumption, HexDigits
<1>5. \A chars : \A q \in 1..(n + 1) : Skip(q, chars) \in q..(n + 1)
  BY SkipEnds
<1>6. start \in p..(n + 1)
  <2>1. radix => p + 1 \in 1..n
    BY <1>2, <1>3
  <2> QED BY <1>2, <1>3, <2>1
<1> HIDE DEF n, run, start, hex
<1>7. whole \in p..(n + 1)
  <2>1. whole \in start..(n + 1)
    <3>1. start \in 1..(n + 1)
      BY <1>2, <1>3, <1>6
    <3> QED BY <1>5, <3>1
  <2> HIDE DEF whole
  <2> QED BY <1>2, <1>3, <1>6, <2>1
<1> HIDE DEF whole
<1>8. fraction \in p..(n + 1)
  <2>0. whole \in Nat
    BY <1>2, <1>3, <1>7
  <2>1. CASE At(whole) # "." \/ At(whole + 1) = "."
    BY <1>7, <2>1
  <2>2. CASE /\ ~(At(whole) # "." \/ At(whole + 1) = ".")
             /\ At(whole + 1) \in run
    <3>1. whole \in 1..n /\ whole + 1 \in 1..n
      BY <1>2, <1>4, <2>0, <2>2
    <3>2. fraction = Skip(whole + 1, run \cup {"_"})
      BY <2>2
    <3>3. fraction \in (whole + 1)..(n + 1)
      <4>1. whole + 1 \in 1..(n + 1)
        BY <1>2, <3>1
      <4> HIDE DEF fraction
      <4> QED BY <1>5, <3>2, <4>1
    <3> HIDE DEF fraction
    <3> QED BY <1>2, <1>3, <1>7, <2>0, <3>3
  <2>3. CASE /\ ~(At(whole) # "." \/ At(whole + 1) = ".")
             /\ At(whole + 1) \notin run
    <3>1. whole \in 1..n
      BY <1>2, <2>0, <2>3
    <3>2. fraction = whole + 1
      BY <2>3
    <3> HIDE DEF fraction
    <3>3. p <= whole /\ p \in Nat
      BY <1>2, <1>3, <1>7, <2>0
    <3> QED BY <1>2, <3>1, <3>2, <3>3
  <2> QED BY <2>1, <2>2, <2>3
<1> HIDE DEF fraction
<1>9. exponent \in p..(n + 1)
  <2>0. fraction \in Nat
    BY <1>2, <1>3, <1>8
  <2>1. CASE At(fraction) \in (IF hex THEN {"p", "P"} ELSE {"e", "E"})
    <3>1. fraction \in 1..n
      <4>1. At(fraction) # "EOF"
        BY <2>1
      <4> QED BY <1>2, <2>0, <4>1
    <3>2. sign \in (fraction + 1)..(n + 1)
      <4>1. At(fraction + 1) \in {"+", "-"} => fraction + 1 \in 1..n
        BY <1>2, <2>0
      <4> QED BY <1>2, <3>1, <4>1
    <3>3. exponent = Skip(sign, Digits \cup {"_"})
      BY <2>1
    <3> HIDE DEF sign, exponent
    <3>4. exponent \in sign..(n + 1)
      <4>1. sign \in 1..(n + 1)
        BY <1>2, <3>1, <3>2
      <4> QED BY <1>5, <3>3, <4>1
    <3> QED BY <1>2, <1>3, <1>8, <3>1, <3>2, <3>4
  <2>2. CASE At(fraction) \notin (IF hex THEN {"p", "P"} ELSE {"e", "E"})
    <3>1. exponent = fraction
      BY <2>2
    <3> QED BY <1>8, <3>1
  <2> QED BY <2>1, <2>2
<1> HIDE DEF exponent
<1> QED BY <1>1, <1>2, <1>3, <1>9

LEMMA WordsAndOperatorsEnd ==
  ASSUME TextOK, NEW p \in 1..Len(text)
  PROVE  /\ WordEnd(p) \in Nat /\ p <= WordEnd(p)
         /\ OperatorEnd(p) \in Nat /\ p <= OperatorEnd(p)
<1>1. Len(text) \in Nat /\ p \in 1..(Len(text) + 1)
  BY TextIsChars
<1>2. WordEnd(p) \in p..(Len(text) + 1)
  BY <1>1, SkipEnds DEF WordEnd
<1>3. OperatorEnd(p) \in {p + 1, p + 2, p + 3}
  BY DEF OperatorEnd
<1> QED BY <1>1, <1>2, <1>3

-----------------------------------------------------------------------------
(* Where the tokens are.                                                    *)

(* The line feeds before p, and the last of them.                            *)
FeedsBefore(p) == {q \in 1..(p - 1) : text[q] = "LF"}

LastOf(S) == IF S = {} THEN 0 ELSE CHOOSE p \in S : \A q \in S : q <= p

Kinds == NamedKinds \cup Alphabet

Emitted == [kind : Kinds, from : Nat, line : Nat, column : Nat]

TokenizerTypes ==
  /\ TextOK
  /\ pos \in Nat /\ pos >= 1
  /\ line \in Nat /\ column \in Nat
  /\ frames \in Seq(BOOLEAN)
  /\ tokens \in Seq(Emitted)

PlaceInv ==
  /\ line = 1 + Cardinality(FeedsBefore(pos))
  /\ column = pos - LastOf(FeedsBefore(pos))
  /\ TokensAreWhereTheySay

(* A token is appended, and the scan is past it.                             *)
Emits(kind, end) ==
  /\ kind \in Kinds
  /\ end \in Nat /\ pos <= end
  /\ tokens' = Append(tokens, [kind |-> kind, from |-> pos, line |-> line,
                               column |-> column])
  /\ pos' = end
  /\ line' = line + Cardinality(Feeds(end))
  /\ column' = ColumnAfter(end)
  /\ text' = text

LEMMA LastOfMany ==
  ASSUME NEW n \in Nat, NEW S \in SUBSET (1..n)
  PROVE  /\ LastOf(S) \in 0..n
         /\ S # {} => LastOf(S) \in S /\ \A q \in S : q <= LastOf(S)
         /\ S # {} => \A p \in S : (\A q \in S : q <= p) => p = LastOf(S)
<1>1. CASE S = {}
  BY <1>1 DEF LastOf
<1>2. CASE S # {}
  <2>0. \A p \in S : p \in Nat /\ p \in 0..n
    OBVIOUS
  <2>1. S \in SUBSET (0..n)
    OBVIOUS
  <2>2. \E p \in S : \A q \in S : q <= p
    BY <1>2, <2>1, GreatestElement
  <2>3. LastOf(S) \in S /\ \A q \in S : q <= LastOf(S)
    BY <1>2, <2>2 DEF LastOf
  <2>4. ASSUME NEW p \in S, \A q \in S : q <= p PROVE p = LastOf(S)
    <3>1. p <= LastOf(S) /\ LastOf(S) <= p
      BY <2>3, <2>4
    <3>2. p \in Nat /\ LastOf(S) \in Nat
      BY <2>0, <2>3
    <3> QED BY <3>1, <3>2
  <2>5. LastOf(S) \in 0..n
    BY <2>0, <2>3
  <2> QED BY <2>3, <2>4, <2>5
<1> QED BY <1>1, <1>2

LEMMA PlacesFollow ==
  ASSUME TokenizerTypes, PlaceInv, NEW kind, NEW end, Emits(kind, end)
  PROVE  /\ PlaceInv'
         /\ pos' \in Nat /\ pos' >= 1 /\ line' \in Nat /\ column' \in Nat
         /\ tokens' \in Seq(Emitted)
<1> DEFINE B == FeedsBefore(pos)
           F == Feeds(end)
           A == FeedsBefore(end)
           token == [kind |-> kind, from |-> pos, line |-> line, column |-> column]
<1>1. pos \in Nat /\ pos >= 1 /\ end \in Nat /\ pos <= end /\ end - 1 \in Nat
  BY DEF TokenizerTypes, Emits
<1>2. A = B \cup F /\ B \cap F = {}
  <2>1. \A q : q \in 1..(end - 1) <=> (q \in 1..(pos - 1) \/ q \in pos..(end - 1))
    BY <1>1
  <2>2. \A q : ~(q \in 1..(pos - 1) /\ q \in pos..(end - 1))
    BY <1>1
  <2> QED BY <2>1, <2>2 DEF FeedsBefore, Feeds
<1>3. /\ A \in SUBSET (1..(end - 1)) /\ F \in SUBSET (1..(end - 1))
      /\ B \in SUBSET (1..(pos - 1)) /\ pos - 1 \in Nat
      /\ \A b \in B, f \in F : b < f
      /\ \A b \in B : b \in Nat
      /\ \A f \in F : f \in Nat
  BY <1>1 DEF FeedsBefore, Feeds
<1> HIDE DEF A, B, F
<1>4. /\ IsFiniteSet(B) /\ IsFiniteSet(F)
      /\ Cardinality(B) \in Nat /\ Cardinality(F) \in Nat
      /\ Cardinality(A) = Cardinality(B) + Cardinality(F)
  <2>1. IsFiniteSet(1..(end - 1)) /\ IsFiniteSet(1..(pos - 1))
    BY <1>1, FS_Interval
  <2>2. IsFiniteSet(B) /\ IsFiniteSet(F)
    BY <1>3, <2>1, FS_Subset
  <2>3. Cardinality(B) \in Nat /\ Cardinality(F) \in Nat
    BY <2>2, FS_CardinalityType
  <2>4. Cardinality(B \cup F) = Cardinality(B) + Cardinality(F) - Cardinality(B \cap F)
    BY <2>2, FS_Union
  <2>5. Cardinality(B \cap F) = 0
    BY <1>2, FS_EmptySet
  <2> QED BY <1>2, <2>2, <2>3, <2>4, <2>5
<1>5. line = 1 + Cardinality(B) /\ column = pos - LastOf(B)
  BY DEF PlaceInv, B
<1>6. line' = 1 + Cardinality(A)
  BY <1>4, <1>5 DEF Emits, F
<1>7. LastOf(B) \in 0..(pos - 1) /\ LastOf(A) \in 0..(end - 1)
  BY <1>1, <1>3, LastOfMany
<1>8. column' = end - LastOf(A)
  <2>1. CASE F = {}
    <3>1. A = B
      BY <1>2, <2>1
    <3>2. column' = column + (end - pos)
      BY <2>1 DEF Emits, ColumnAfter, F
    <3> QED BY <1>1, <1>5, <1>7, <3>1, <3>2
  <2>2. CASE F # {}
    <3>1. column' = end - LastOf(F)
      BY <2>2 DEF Emits, ColumnAfter, F, LastOf
    <3>2. LastOf(F) \in F /\ \A q \in F : q <= LastOf(F)
      BY <1>1, <1>3, <2>2, LastOfMany
    <3>3. LastOf(F) \in A /\ \A q \in A : q <= LastOf(F)
      <4>1. \A b \in B : b < LastOf(F) /\ b \in Nat
        BY <1>3, <3>2
      <4>2. LastOf(F) \in Nat
        BY <1>3, <3>2
      <4> QED BY <1>2, <3>2, <4>1, <4>2
    <3>4. LastOf(F) = LastOf(A)
      BY <1>1, <1>3, <3>3, LastOfMany
    <3> QED BY <3>1, <3>4
  <2> QED BY <2>1, <2>2
<1>9. pos' = end /\ text' = text /\ tokens' = Append(tokens, token)
  BY DEF Emits
<1>10. FeedsBefore(pos)' = A
  BY <1>9 DEF FeedsBefore, A
<1>11. token \in Emitted /\ line \in Nat /\ column \in Nat
  BY <1>1 DEF TokenizerTypes, Emits, Emitted
<1>12. /\ tokens' \in Seq(Emitted)
       /\ DOMAIN tokens' = 1..(Len(tokens) + 1)
       /\ DOMAIN tokens = 1..Len(tokens) /\ Len(tokens) \in Nat
       /\ \A i \in DOMAIN tokens : tokens'[i] = tokens[i]
       /\ tokens'[Len(tokens) + 1] = token
  <2>1. tokens \in Seq(Emitted)
    BY DEF TokenizerTypes
  <2> HIDE DEF Emitted, token
  <2> QED BY <1>9, <1>11, <2>1
<1>13. TokensAreWhereTheySay'
  <2> DEFINE Placed(t) == /\ t.line = 1 + Cardinality(FeedsBefore(t.from))
                          /\ t.column = t.from - LastOf(FeedsBefore(t.from))
  <2>1. TokensAreWhereTheySay <=> \A i \in DOMAIN tokens : Placed(tokens[i])
    BY DEF TokensAreWhereTheySay, FeedsBefore, LastOf
  <2>2. TokensAreWhereTheySay' <=> \A i \in DOMAIN tokens' : Placed(tokens'[i])
    BY <1>9 DEF TokensAreWhereTheySay, FeedsBefore, LastOf
  <2>3. Placed(token)
    <3>1. token.from = pos /\ token.line = line /\ token.column = column
      OBVIOUS
    <3> HIDE DEF token
    <3> QED BY <3>1, <1>5 DEF B
  <2>4. \A i \in DOMAIN tokens' : i \in DOMAIN tokens \/ i = Len(tokens) + 1
    BY <1>12
  <2> HIDE DEF Placed, token
  <2> QED BY <1>12, <2>1, <2>2, <2>3, <2>4 DEF PlaceInv
<1>14. column' \in Nat /\ line' \in Nat /\ pos' \in Nat /\ pos' >= 1
  BY <1>1, <1>4, <1>6, <1>7, <1>8, <1>9
<1>15. LastOf(FeedsBefore(pos))' = LastOf(A)
  BY <1>10 DEF LastOf
<1> QED BY <1>6, <1>8, <1>9, <1>10, <1>12, <1>13, <1>14, <1>15 DEF PlaceInv

-----------------------------------------------------------------------------
(* Tags.                                                                    *)

Opening == "{"
Closing == "}"

CountIn(ts, kind, i, j) == Cardinality({n \in i..j : ts[n].kind = kind})

BalancedIn(ts, i, j) == CountIn(ts, Opening, i, j) = CountIn(ts, Closing, i, j)

AdjacentIn(ts, i, j) == \A k \in (i + 1)..(j - 1) : ts[k].kind \in Trivia

AfterStruct(ts, b) ==
  \E s \in 1..(b - 1) : ts[s].kind = "struct" /\ AdjacentIn(ts, s, b)

(* A literal in backticks at i is the tag of a field.                        *)
IsTag(ts, i) ==
  /\ \E n \in 1..(i - 1) : ts[n].kind = "identifier" /\ AdjacentIn(ts, n, i)
  /\ \E b \in 1..(i - 1) :
       /\ ts[b].kind = Opening /\ BalancedIn(ts, b + 1, i - 1)
       /\ \A c \in (b + 1)..(i - 1) :
            ts[c].kind = Opening => ~BalancedIn(ts, c + 1, i - 1)
       /\ AfterStruct(ts, b)

(* The brace at b leaves m braces open, itself included, ...                 *)
Ahead(ts, b, m) ==
  CountIn(ts, Opening, b + 1, Len(ts)) + 1 = CountIn(ts, Closing, b + 1, Len(ts)) + m

(* ... and is the last to do so: it is the m-th open one, from the inside.   *)
OpensAt(ts, b, m) ==
  /\ b \in 1..Len(ts) /\ ts[b].kind = Opening /\ Ahead(ts, b, m)
  /\ \A c \in (b + 1)..Len(ts) : ts[c].kind = Opening => ~Ahead(ts, c, m)

(* The stack has a frame for each open brace, and no other.                  *)
FramesInv ==
  /\ \A m \in 1..Len(frames) :
       \E b \in DOMAIN tokens :
         /\ OpensAt(tokens, b, m)
         /\ frames[Len(frames) + 1 - m] <=> AfterStruct(tokens, b)
  /\ \A b \in DOMAIN tokens : \A m \in Nat \ {0} :
       OpensAt(tokens, b, m) => m <= Len(frames)

LEMMA CountsAreNumbers ==
  ASSUME NEW ts, NEW kind, NEW i \in Nat, NEW j \in Nat
  PROVE  CountIn(ts, kind, i, j) \in Nat
<1>1. IsFiniteSet(i..j)
  BY FS_Interval
<1>2. IsFiniteSet({n \in i..j : ts[n].kind = kind})
  BY <1>1, FS_Subset
<1> QED BY <1>2, FS_CardinalityType DEF CountIn

LEMMA Appended ==
  ASSUME NEW ts \in Seq(Emitted), NEW t \in Emitted, NEW u, u = Append(ts, t)
  PROVE  /\ u \in Seq(Emitted)
         /\ Len(ts) \in Nat /\ Len(u) = Len(ts) + 1
         /\ DOMAIN ts = 1..Len(ts) /\ DOMAIN u = 1..(Len(ts) + 1)
         /\ \A n \in 1..Len(ts) : u[n] = ts[n]
         /\ u[Len(ts) + 1] = t
<1> HIDE DEF Emitted
<1> QED OBVIOUS

(* How a token is counted.                                                   *)
One(t, kind) == IF t.kind = kind THEN 1 ELSE 0

(* u is ts, whose length is N, and t after it.                               *)
Extends(u, ts, t, N) ==
  N \in Nat /\ (\A n \in 1..N : u[n] = ts[n]) /\ u[N + 1] = t

CountsFollow(u, ts, t, N, kind) ==
  /\ \A i \in Nat \ {0} : \A j \in 0..N :
       CountIn(u, kind, i, j) = CountIn(ts, kind, i, j)
  /\ \A i \in 1..(N + 1) :
       CountIn(u, kind, i, N + 1) = CountIn(ts, kind, i, N) + One(t, kind)
  /\ CountIn(u, kind, N + 2, N + 1) = 0

LEMMA CountsGrow ==
  ASSUME NEW u, NEW ts, NEW t, NEW N, NEW kind, Extends(u, ts, t, N)
  PROVE  CountsFollow(u, ts, t, N, kind)
<1>1. /\ N \in Nat
      /\ \A n \in 1..N : u[n] = ts[n]
      /\ u[N + 1] = t
  BY DEF Extends
<1>2. ASSUME NEW i \in Nat \ {0}, NEW j \in 0..N
      PROVE  CountIn(u, kind, i, j) = CountIn(ts, kind, i, j)
  <2>1. \A n \in i..j : n \in 1..N
    BY <1>1
  <2>2. \A n \in i..j : u[n] = ts[n]
    BY <1>1, <2>1
  <2>3. {n \in i..j : u[n].kind = kind} = {n \in i..j : ts[n].kind = kind}
    BY <2>2
  <2> QED BY <2>3 DEF CountIn
<1>3. ASSUME NEW i \in 1..(N + 1)
      PROVE  CountIn(u, kind, i, N + 1) = CountIn(ts, kind, i, N) + One(t, kind)
  <2> DEFINE S == {n \in i..N : ts[n].kind = kind}
             S1 == {n \in i..(N + 1) : u[n].kind = kind}
  <2>1. \A n : n \in i..(N + 1) <=> (n \in i..N \/ n = N + 1)
    BY <1>1
  <2>2. \A n \in i..N : n \in 1..N /\ n # N + 1
    BY <1>1
  <2>3. \A n \in i..N : u[n] = ts[n]
    BY <1>1, <2>2
  <2>4. IsFiniteSet(S)
    <3>1. IsFiniteSet(i..N)
      BY <1>1, FS_Interval
    <3> QED BY <3>1, FS_Subset
  <2>5. Cardinality(S) \in Nat
    BY <2>4, FS_CardinalityType
  <2>6. /\ CountIn(u, kind, i, N + 1) = Cardinality(S1)
        /\ CountIn(ts, kind, i, N) = Cardinality(S)
    BY DEF CountIn
  <2>7. CASE t.kind = kind
    <3>1. S1 = S \cup {N + 1} /\ N + 1 \notin S
      BY <1>1, <2>1, <2>2, <2>3, <2>7
    <3>2. Cardinality(S \cup {N + 1}) =
            IF N + 1 \in S THEN Cardinality(S) ELSE Cardinality(S) + 1
      BY <2>4, FS_AddElement
    <3>3. Cardinality(S1) = Cardinality(S) + 1
      BY <3>1, <3>2
    <3>4. One(t, kind) = 1
      BY <2>7 DEF One
    <3> QED BY <2>6, <3>3, <3>4
  <2>8. CASE t.kind # kind
    <3>1. S1 = S
      BY <1>1, <2>1, <2>2, <2>3, <2>8
    <3>2. One(t, kind) = 0
      BY <2>8 DEF One
    <3> HIDE DEF S, S1
    <3> QED BY <2>5, <2>6, <3>1, <3>2
  <2> QED BY <2>7, <2>8
<1>4. CountIn(u, kind, N + 2, N + 1) = 0
  <2>1. \A n \in (N + 2)..(N + 1) : FALSE
    BY <1>1
  <2>2. {n \in (N + 2)..(N + 1) : u[n].kind = kind} = {}
    BY <2>1
  <2> QED BY <2>2, FS_EmptySet DEF CountIn
<1> QED BY <1>2, <1>3, <1>4 DEF CountsFollow

(* What was said of the tokens so far stays.                                 *)
LEMMA PrefixStays ==
  ASSUME NEW ts \in Seq(Emitted), NEW t \in Emitted, NEW u, u = Append(ts, t),
         NEW N, N = Len(ts)
  PROVE  /\ \A i \in 1..N : \A j \in 1..(N + 1) :
              AdjacentIn(u, i, j) <=> AdjacentIn(ts, i, j)
         /\ \A b \in 1..(N + 1) : AfterStruct(u, b) <=> AfterStruct(ts, b)
         /\ \A i \in 1..(N + 1) : IsTag(u, i) <=> IsTag(ts, i)
<1>0. N = Len(ts) /\ ts \in Seq(Emitted) /\ t \in Emitted /\ u = Append(ts, t)
  OBVIOUS
<1>1. N \in Nat /\ (\A n \in 1..N : u[n] = ts[n]) /\ u[N + 1] = t
  BY <1>0, Appended
<1>b. ASSUME NEW kind
      PROVE  \A i \in Nat \ {0} : \A j \in 0..N :
               CountIn(u, kind, i, j) = CountIn(ts, kind, i, j)
  <2>1. Extends(u, ts, t, N)
    BY <1>1 DEF Extends
  <2>2. CountsFollow(u, ts, t, N, kind)
    BY <2>1, CountsGrow
  <2> QED BY <2>2 DEF CountsFollow
<1>2. ASSUME NEW i \in 1..N, NEW j \in 1..(N + 1)
      PROVE  AdjacentIn(u, i, j) <=> AdjacentIn(ts, i, j)
  <2>1. \A k \in (i + 1)..(j - 1) : k \in 1..N
    BY <1>1
  <2>2. \A k \in (i + 1)..(j - 1) : u[k] = ts[k]
    BY <1>1, <2>1
  <2> QED BY <2>2 DEF AdjacentIn
<1>3. ASSUME NEW b \in 1..(N + 1) PROVE AfterStruct(u, b) <=> AfterStruct(ts, b)
  <2>1. \A s \in 1..(b - 1) : s \in 1..N
    BY <1>1
  <2>2. \A s \in 1..(b - 1) :
          u[s] = ts[s] /\ (AdjacentIn(u, s, b) <=> AdjacentIn(ts, s, b))
    BY <1>1, <1>2, <2>1
  <2> QED BY <2>2 DEF AfterStruct
<1>4. ASSUME NEW i \in 1..(N + 1) PROVE IsTag(u, i) <=> IsTag(ts, i)
  <2>1. \A n \in 1..(i - 1) : n \in 1..N /\ n \in 1..(N + 1)
    BY <1>1
  <2>2. \A n \in 1..(i - 1) :
          /\ u[n] = ts[n]
          /\ AdjacentIn(u, n, i) <=> AdjacentIn(ts, n, i)
          /\ AfterStruct(u, n) <=> AfterStruct(ts, n)
    BY <1>1, <1>2, <1>3, <2>1
  <2>3. \A n \in 1..(i - 1) :
          BalancedIn(u, n + 1, i - 1) <=> BalancedIn(ts, n + 1, i - 1)
    <3> TAKE n \in 1..(i - 1)
    <3>1. n + 1 \in Nat \ {0} /\ i - 1 \in 0..N
      BY <1>1
    <3>2. CountIn(u, Opening, n + 1, i - 1) = CountIn(ts, Opening, n + 1, i - 1)
      BY <3>1, <1>b
    <3>3. CountIn(u, Closing, n + 1, i - 1) = CountIn(ts, Closing, n + 1, i - 1)
      BY <3>1, <1>b
    <3> QED BY <3>2, <3>3 DEF BalancedIn
  <2>4. \A b \in 1..(i - 1) : \A c \in (b + 1)..(i - 1) : c \in 1..(i - 1)
    BY <1>1
  <2>5. (\E n \in 1..(i - 1) : u[n].kind = "identifier" /\ AdjacentIn(u, n, i))
          <=> \E n \in 1..(i - 1) : ts[n].kind = "identifier" /\ AdjacentIn(ts, n, i)
    BY <2>2
  <2>6. ASSUME NEW b \in 1..(i - 1)
        PROVE  (/\ u[b].kind = Opening /\ BalancedIn(u, b + 1, i - 1)
                /\ \A c \in (b + 1)..(i - 1) :
                     u[c].kind = Opening => ~BalancedIn(u, c + 1, i - 1)
                /\ AfterStruct(u, b)) <=>
               (/\ ts[b].kind = Opening /\ BalancedIn(ts, b + 1, i - 1)
                /\ \A c \in (b + 1)..(i - 1) :
                     ts[c].kind = Opening => ~BalancedIn(ts, c + 1, i - 1)
                /\ AfterStruct(ts, b))
    BY <2>2, <2>3, <2>4
  <2> QED BY <2>5, <2>6 DEF IsTag
<1> QED BY <1>2, <1>3, <1>4

(* A token shifts the numbers of the open braces, by one if it is a brace.   *)
Shifted(u, ts, N, m, k) ==
  \A b \in 1..(N + 1) : OpensAt(u, b, k) <=> b \in 1..N /\ OpensAt(ts, b, m)

LEMMA OpenBracesShift ==
  ASSUME NEW u, NEW ts, NEW t, NEW N, Extends(u, ts, t, N),
         N = Len(ts), Len(u) = N + 1,
         NEW m \in Nat \ {0}, NEW k \in Nat \ {0},
         k + One(t, Closing) = m + One(t, Opening)
  PROVE  Shifted(u, ts, N, m, k)
<1>0. k + One(t, Closing) = m + One(t, Opening)
  OBVIOUS
<1>a. N = Len(ts) /\ Extends(u, ts, t, N)
  OBVIOUS
<1>1. /\ N \in Nat /\ Len(u) = N + 1
      /\ \A n \in 1..N : u[n] = ts[n]
      /\ u[N + 1] = t
  BY DEF Extends
<1>b. ASSUME NEW kind
      PROVE  /\ \A i \in 1..(N + 1) :
                  CountIn(u, kind, i, N + 1) = CountIn(ts, kind, i, N) + One(t, kind)
             /\ CountIn(u, kind, N + 2, N + 1) = 0
  <2>1. Extends(u, ts, t, N)
    BY <1>1 DEF Extends
  <2>2. CountsFollow(u, ts, t, N, kind)
    BY <2>1, CountsGrow
  <2> QED BY <2>2 DEF CountsFollow
<1>d. Opening # Closing
  BY DEF Opening, Closing
<1>2. ASSUME NEW b \in 1..N PROVE Ahead(u, b, k) <=> Ahead(ts, b, m)
  <2> DEFINE o == CountIn(ts, Opening, b + 1, N)
             c == CountIn(ts, Closing, b + 1, N)
             o1 == CountIn(u, Opening, b + 1, N + 1)
             c1 == CountIn(u, Closing, b + 1, N + 1)
             i == One(t, Opening)
             d == One(t, Closing)
  <2>1. b + 1 \in 1..(N + 1) /\ b + 1 \in Nat
    BY <1>1
  <2>2. o \in Nat /\ c \in Nat
    BY <1>1, <2>1, CountsAreNumbers
  <2>3. o1 = o + i
    BY <1>b, <2>1
  <2>4. c1 = c + d
    BY <1>b, <2>1
  <2>5. i \in {0, 1} /\ d \in {0, 1} /\ k + d = m + i
    BY <1>0 DEF One
  <2>6. (Ahead(u, b, k) <=> o1 + 1 = c1 + k) /\ (Ahead(ts, b, m) <=> o + 1 = c + m)
    BY <1>a, <1>1 DEF Ahead
  <2> HIDE DEF o, c, o1, c1, i, d
  <2> QED BY <2>2, <2>3, <2>4, <2>5, <2>6
<1>3. t.kind = Opening => ~Ahead(u, N + 1, k)
  <2> SUFFICES ASSUME t.kind = Opening PROVE ~Ahead(u, N + 1, k)
    OBVIOUS
  <2>1. One(t, Opening) = 1 /\ One(t, Closing) = 0
    BY <1>d DEF One
  <2>2. k = m + 1
    BY <1>0, <2>1
  <2>3. N + 1 + 1 = N + 2
    BY <1>1
  <2>4. CountIn(u, Opening, N + 2, N + 1) = 0
    BY <1>b
  <2>5. CountIn(u, Closing, N + 2, N + 1) = 0
    BY <1>b
  <2>6. Ahead(u, N + 1, k) <=> 0 + 1 = 0 + k
    BY <1>1, <2>3, <2>4, <2>5, <1>a DEF Ahead
  <2> QED BY <2>2, <2>6
<1> SUFFICES ASSUME NEW b \in 1..(N + 1)
             PROVE  OpensAt(u, b, k) <=> b \in 1..N /\ OpensAt(ts, b, m)
  BY DEF Shifted
<1>4. OpensAt(u, b, k) <=>
        /\ b \in 1..(N + 1) /\ u[b].kind = Opening /\ Ahead(u, b, k)
        /\ \A c \in (b + 1)..(N + 1) : u[c].kind = Opening => ~Ahead(u, c, k)
  BY <1>a, <1>1 DEF OpensAt
<1>5. OpensAt(ts, b, m) <=>
        /\ b \in 1..N /\ ts[b].kind = Opening /\ Ahead(ts, b, m)
        /\ \A c \in (b + 1)..N : ts[c].kind = Opening => ~Ahead(ts, c, m)
  BY <1>a, <1>1 DEF OpensAt
<1>6. u[b].kind = Opening /\ Ahead(u, b, k) => b \in 1..N
  <2>1. b \in 1..N \/ b = N + 1
    BY <1>1
  <2> QED BY <1>1, <1>3, <2>1
<1>7. ASSUME b \in 1..N
      PROVE  (\A c \in (b + 1)..(N + 1) : u[c].kind = Opening => ~Ahead(u, c, k))
               <=> \A c \in (b + 1)..N : ts[c].kind = Opening => ~Ahead(ts, c, m)
  <2>1. \A c : c \in (b + 1)..(N + 1) <=> (c \in (b + 1)..N \/ c = N + 1)
    BY <1>1, <1>7
  <2>2. \A c \in (b + 1)..N : c \in 1..N
    BY <1>1, <1>7
  <2>3. \A c \in (b + 1)..N :
          /\ u[c] = ts[c]
          /\ Ahead(u, c, k) <=> Ahead(ts, c, m)
    BY <1>1, <1>2, <2>2
  <2>4. u[N + 1].kind = Opening => ~Ahead(u, N + 1, k)
    BY <1>1, <1>3
  <2> QED BY <2>1, <2>3, <2>4
<1>8. b \in 1..N => b \in 1..(N + 1)
  BY <1>1
<1>9. b \in 1..N => (u[b] = ts[b] /\ (Ahead(u, b, k) <=> Ahead(ts, b, m)))
  BY <1>1, <1>2
<1> QED BY <1>4, <1>5, <1>6, <1>7, <1>8, <1>9

LEMMA PreviousIs ==
  ASSUME tokens \in Seq(Emitted), NEW kind, kind \notin Trivia, kind # "none",
         NEW N, N = Len(tokens)
  PROVE  Previous = kind <=>
           \E n \in 1..N : tokens[n].kind = kind /\ AdjacentIn(tokens, n, N + 1)
<1>1. N = Len(tokens) /\ kind \notin Trivia /\ kind # "none"
  OBVIOUS
<1>2. N \in Nat /\ DOMAIN tokens = 1..N
  BY <1>1
<1>3. Significant \in SUBSET (0..N) /\ Significant \in SUBSET (1..N)
  BY <1>2 DEF Significant
<1>4. \A n \in 1..N : n \in Significant <=> tokens[n].kind \notin Trivia
  BY <1>2 DEF Significant
<1>5. CASE Significant = {}
  <2>1. Previous = "none"
    BY <1>5 DEF Previous
  <2> QED BY <1>1, <1>4, <1>5, <2>1
<1>6. CASE Significant # {}
  <2> DEFINE last == CHOOSE i \in Significant : \A j \in Significant : j <= i
  <2>1. \E i \in Significant : \A j \in Significant : j <= i
    BY <1>2, <1>3, <1>6, GreatestElement
  <2>2. last \in Significant /\ \A j \in Significant : j <= last
    BY <2>1
  <2>3. Previous = tokens[last].kind
    BY <1>6 DEF Previous
  <2> HIDE DEF last
  <2>4. last \in 1..N
    BY <1>3, <2>2
  <2>5. AdjacentIn(tokens, last, N + 1)
    <3> SUFFICES ASSUME NEW k \in (last + 1)..(N + 1 - 1) PROVE tokens[k].kind \in Trivia
      BY DEF AdjacentIn
    <3>1. k \in 1..N /\ ~(k <= last)
      BY <1>2, <2>4
    <3> QED BY <1>4, <2>2, <3>1
  <2>6. ASSUME NEW n \in 1..N, tokens[n].kind = kind, AdjacentIn(tokens, n, N + 1)
        PROVE  n = last
    <3>1. n <= last
      BY <1>1, <1>4, <2>2, <2>6
    <3>2. \A k \in (n + 1)..(N + 1 - 1) : tokens[k].kind \in Trivia
      BY <2>6 DEF AdjacentIn
    <3>3. tokens[last].kind \notin Trivia
      BY <1>4, <2>2, <2>4
    <3>4. ~(n < last)
      <4> SUFFICES ASSUME n < last PROVE FALSE
        OBVIOUS
      <4>1. last \in (n + 1)..(N + 1 - 1)
        BY <1>2, <2>4
      <4> QED BY <3>2, <3>3, <4>1
    <3> QED BY <2>4, <3>1, <3>4
  <2> QED BY <2>3, <2>4, <2>5, <2>6
<1> QED BY <1>5, <1>6

LEMMA PreviousStruct ==
  ASSUME tokens \in Seq(Emitted), NEW N, N = Len(tokens)
  PROVE  (Previous = "struct") <=> AfterStruct(tokens, N + 1)
<1>1. (Previous = "struct") <=>
        \E n \in 1..N : tokens[n].kind = "struct" /\ AdjacentIn(tokens, n, N + 1)
  <2>1. "struct" \notin Trivia /\ "struct" # "none"
    BY DEF Trivia
  <2> QED BY <2>1, PreviousIs
<1>2. N \in Nat
  OBVIOUS
<1>3. \A n : n \in 1..(N + 1 - 1) <=> n \in 1..N
  BY <1>2
<1> QED BY <1>1, <1>3 DEF AfterStruct

LEMMA FramesKept ==
  ASSUME NEW kind, kind # Opening, kind # Closing
  PROVE  FramesAfter(kind) = frames
BY DEF FramesAfter, Opening, Closing

LEMMA FramesPushed == FramesAfter(Opening) = Append(frames, Previous = "struct")
BY DEF FramesAfter, Opening

LEMMA FramesPopped ==
  FramesAfter(Closing) =
    IF frames # << >> THEN SubSeq(frames, 1, Len(frames) - 1) ELSE frames
BY DEF FramesAfter, Opening, Closing

LEMMA BracesAreNoNames ==
  /\ Opening # Closing
  /\ {Opening, Closing} \cap NamedKinds = {}
  /\ "struct" \notin Trivia \cup {"none"} /\ "identifier" \notin Trivia \cup {"none"}
BY DEF Opening, Closing, NamedKinds, Trivia

LEMMA Shortened ==
  ASSUME NEW s \in Seq(BOOLEAN), NEW n \in 0..Len(s)
  PROVE  /\ SubSeq(s, 1, n) \in Seq(BOOLEAN)
         /\ Len(SubSeq(s, 1, n)) = n
         /\ \A i \in 1..n : SubSeq(s, 1, n)[i] = s[i]
OBVIOUS

(* The stack is maintained.                                                  *)
LEMMA FramesFollow ==
  ASSUME TokenizerTypes, FramesInv, NEW kind, NEW end, Emits(kind, end),
         frames' = FramesAfter(kind)
  PROVE  FramesInv' /\ frames' \in Seq(BOOLEAN)
<1> DEFINE N == Len(tokens)
           F == Len(frames)
           t == [kind |-> kind, from |-> pos, line |-> line, column |-> column]
           Frame(ts, m, struct) ==
             \E b \in DOMAIN ts : OpensAt(ts, b, m) /\ (struct <=> AfterStruct(ts, b))
<1>1. /\ tokens \in Seq(Emitted) /\ frames \in Seq(BOOLEAN) /\ t.kind = kind
      /\ t \in Emitted /\ tokens' = Append(tokens, t)
  BY DEF TokenizerTypes, Emits, Emitted
<1> HIDE DEF t
<1>2. /\ N \in Nat /\ N = Len(tokens) /\ DOMAIN tokens = 1..N
      /\ Len(tokens') = N + 1 /\ DOMAIN tokens' = 1..(N + 1)
      /\ tokens'[N + 1] = t
      /\ \A n \in 1..N : tokens'[n] = tokens[n]
  BY <1>1, Appended
<1>3. F \in Nat /\ \A i \in 1..F : frames[i] \in BOOLEAN
  BY <1>1
<1> HIDE DEF N
<1>4. \A b \in 1..(N + 1) : AfterStruct(tokens', b) <=> AfterStruct(tokens, b)
  BY <1>1, <1>2, PrefixStays
<1>5. ASSUME NEW m \in Nat \ {0}, NEW k \in Nat \ {0},
             k + One(t, Closing) = m + One(t, Opening)
      PROVE  \A b \in 1..(N + 1) :
               OpensAt(tokens', b, k) <=> b \in 1..N /\ OpensAt(tokens, b, m)
  <2>1. Extends(tokens', tokens, t, N)
    BY <1>2 DEF Extends
  <2>2. Shifted(tokens', tokens, N, m, k)
    BY <1>2, <1>5, <2>1, OpenBracesShift
  <2> QED BY <2>2 DEF Shifted
<1>6. ASSUME NEW m \in Nat \ {0}, NEW k \in Nat \ {0}, NEW struct,
             k + One(t, Closing) = m + One(t, Opening), Frame(tokens, m, struct)
      PROVE  Frame(tokens', k, struct)
  <2>1. PICK b \in 1..N : OpensAt(tokens, b, m) /\ (struct <=> AfterStruct(tokens, b))
    BY <1>2, <1>6
  <2>2. b \in 1..(N + 1)
    BY <1>2
  <2>3. OpensAt(tokens', b, k)
    BY <1>5, <1>6, <2>1, <2>2
  <2> QED BY <1>2, <1>4, <2>1, <2>2, <2>3
<1>7. /\ \A m \in 1..F : Frame(tokens, m, frames[F + 1 - m])
      /\ \A b \in 1..N : \A m \in Nat \ {0} : OpensAt(tokens, b, m) => m <= F
  BY <1>2 DEF FramesInv
<1>8. /\ \A m \in 1..F : m \in Nat \ {0}
      /\ \A m \in Nat \ {0} : m \in Nat
  BY <1>3
<1>9. /\ kind # Closing => One(t, Closing) = 0
      /\ kind # Opening => One(t, Opening) = 0
      /\ kind = Closing => One(t, Closing) = 1
      /\ kind = Opening => One(t, Opening) = 1
  BY <1>1 DEF One
<1>10. SUFFICES /\ frames' \in Seq(BOOLEAN)
                /\ \A m \in 1..Len(frames') :
                     Frame(tokens', m, frames'[Len(frames') + 1 - m])
                /\ \A b \in 1..(N + 1) : \A m \in Nat \ {0} :
                     OpensAt(tokens', b, m) => m <= Len(frames')
  BY <1>2 DEF FramesInv, OpensAt, Ahead, AfterStruct, AdjacentIn, CountIn
<1> HIDE DEF Frame
<1>11. CASE kind = Opening
  <2>1. One(t, Closing) = 0 /\ One(t, Opening) = 1
    BY <1>9, <1>11, BracesAreNoNames
  <2>2. frames' = Append(frames, Previous = "struct")
    BY <1>11, FramesPushed
  <2>3. /\ frames' \in Seq(BOOLEAN) /\ Len(frames') = F + 1
        /\ frames'[F + 1] = (Previous = "struct")
        /\ \A i \in 1..F : frames'[i] = frames[i]
    BY <1>1, <2>2
  <2>4. OpensAt(tokens', N + 1, 1)
    <3>1. Extends(tokens', tokens, t, N)
      BY <1>2 DEF Extends
    <3>2. CountIn(tokens', Opening, N + 1 + 1, N + 1) = 0
      <4>1. N + 1 + 1 = N + 2
        BY <1>2
      <4> QED BY <3>1, <4>1, CountsGrow DEF CountsFollow
    <3>3. CountIn(tokens', Closing, N + 1 + 1, N + 1) = 0
      <4>1. N + 1 + 1 = N + 2
        BY <1>2
      <4> QED BY <3>1, <4>1, CountsGrow DEF CountsFollow
    <3>4. Ahead(tokens', N + 1, 1)
      BY <1>2, <3>2, <3>3 DEF Ahead
    <3>5. \A c \in (N + 1 + 1)..(N + 1) : FALSE
      BY <1>2
    <3>6. N + 1 \in 1..(N + 1) /\ tokens'[N + 1].kind = Opening
      BY <1>1, <1>2, <1>11
    <3> QED BY <1>2, <3>4, <3>5, <3>6 DEF OpensAt
  <2>5. (Previous = "struct") <=> AfterStruct(tokens', N + 1)
    <3>1. N + 1 \in 1..(N + 1)
      BY <1>2
    <3> QED BY <1>1, <1>2, <1>4, <3>1, PreviousStruct
  <2>6. \A m \in 1..(F + 1) : Frame(tokens', m, frames'[F + 1 + 1 - m])
    <3> TAKE m \in 1..(F + 1)
    <3>1. CASE m = 1
      <4>1. F + 1 + 1 - m = F + 1 /\ N + 1 \in 1..(N + 1)
        BY <1>2, <1>3, <3>1
      <4> QED BY <1>2, <2>3, <2>4, <2>5, <3>1, <4>1 DEF Frame
    <3>2. CASE m # 1
      <4>1. /\ m - 1 \in 1..F /\ m \in Nat \ {0} /\ m - 1 \in Nat \ {0}
            /\ F + 1 + 1 - m = F + 1 - (m - 1) /\ F + 1 - (m - 1) \in 1..F
        BY <1>3, <3>2
      <4>2. m + One(t, Closing) = (m - 1) + One(t, Opening)
        BY <2>1, <4>1
      <4>3. Frame(tokens, m - 1, frames[F + 1 - (m - 1)])
        BY <1>7, <4>1
      <4>4. Frame(tokens', m, frames[F + 1 - (m - 1)])
        BY <1>6, <4>1, <4>2, <4>3
      <4> QED BY <2>3, <4>1, <4>4
    <3> QED BY <3>1, <3>2
  <2>7. ASSUME NEW b \in 1..(N + 1), NEW m \in Nat \ {0}, OpensAt(tokens', b, m)
        PROVE  m <= F + 1
    <3>1. CASE m = 1
      BY <1>3, <3>1
    <3>2. CASE m # 1
      <4>1. m - 1 \in Nat \ {0}
        BY <3>2
      <4>2. m + One(t, Closing) = (m - 1) + One(t, Opening)
        BY <2>1, <4>1
      <4>3. b \in 1..N /\ OpensAt(tokens, b, m - 1)
        BY <1>5, <2>7, <4>1, <4>2
      <4>4. m - 1 <= F
        BY <1>7, <4>1, <4>3
      <4> QED BY <1>3, <4>4
    <3> QED BY <3>1, <3>2
  <2> QED BY <2>3, <2>6, <2>7
<1>12. CASE kind = Closing
  <2>1. One(t, Closing) = 1 /\ One(t, Opening) = 0
    BY <1>9, <1>12, BracesAreNoNames
  <2> DEFINE G == IF F = 0 THEN 0 ELSE F - 1
  <2>2. /\ frames' \in Seq(BOOLEAN) /\ Len(frames') = G
        /\ \A i \in 1..G : frames'[i] = frames[i]
    <3>1. frames' = IF frames # << >> THEN SubSeq(frames, 1, F - 1) ELSE frames
      BY <1>12, FramesPopped
    <3>2. frames = << >> <=> F = 0
      BY <1>1
    <3>3. CASE F = 0
      BY <1>1, <3>1, <3>2, <3>3
    <3>4. CASE F # 0
      <4>1. frames' = SubSeq(frames, 1, F - 1) /\ F - 1 \in 0..F /\ G = F - 1
        BY <1>3, <3>1, <3>2, <3>4
      <4> QED BY <1>1, <4>1, Shortened
    <3> QED BY <3>3, <3>4
  <2>3. G \in Nat /\ G <= F
    BY <1>3
  <2>4. \A m \in 1..G : Frame(tokens', m, frames'[G + 1 - m])
    <3> TAKE m \in 1..G
    <3>1. /\ m \in Nat \ {0} /\ m + 1 \in 1..F /\ m + 1 \in Nat \ {0}
          /\ G + 1 - m = F + 1 - (m + 1) /\ G + 1 - m \in 1..G
      BY <1>3
    <3>2. m + One(t, Closing) = (m + 1) + One(t, Opening)
      BY <2>1, <3>1
    <3>3. Frame(tokens, m + 1, frames[F + 1 - (m + 1)])
      BY <1>7, <3>1
    <3>4. Frame(tokens', m, frames[F + 1 - (m + 1)])
      BY <1>6, <3>1, <3>2, <3>3
    <3> HIDE DEF G
    <3> QED BY <2>2, <3>1, <3>4
  <2>5. ASSUME NEW b \in 1..(N + 1), NEW m \in Nat \ {0}, OpensAt(tokens', b, m)
        PROVE  m <= G
    <3>1. m + 1 \in Nat \ {0}
      OBVIOUS
    <3>2. m + One(t, Closing) = (m + 1) + One(t, Opening)
      BY <2>1, <3>1
    <3>3. b \in 1..N /\ OpensAt(tokens, b, m + 1)
      BY <1>5, <2>5, <3>1, <3>2
    <3>4. m + 1 <= F
      BY <1>7, <3>1, <3>3
    <3> QED BY <1>3, <3>4
  <2> HIDE DEF G
  <2> QED BY <2>2, <2>4, <2>5
<1>13. CASE kind # Opening /\ kind # Closing
  <2>1. One(t, Closing) = 0 /\ One(t, Opening) = 0
    BY <1>9, <1>13
  <2>2. frames' = frames
    BY <1>13, FramesKept
  <2>3. \A m \in Nat \ {0} : m + One(t, Closing) = m + One(t, Opening)
    BY <2>1
  <2>4. \A m \in 1..F : Frame(tokens', m, frames[F + 1 - m])
    BY <1>6, <1>7, <1>8, <2>3
  <2>5. \A b \in 1..(N + 1) : \A m \in Nat \ {0} : OpensAt(tokens', b, m) => m <= F
    BY <1>5, <1>7, <2>3
  <2> QED BY <1>1, <2>2, <2>4, <2>5
<1> QED BY <1>11, <1>12, <1>13

TagKinds == {"struct_tag", "raw_string"}

TagsInv ==
  \A i \in DOMAIN tokens :
    tokens[i].kind \in TagKinds => (tokens[i].kind = "struct_tag" <=> IsTag(tokens, i))

LEMMA TagsAreTags ==
  ASSUME tokens \in Seq(Emitted)
  PROVE  TagsInv <=> TagsAreInStructs
<1>1. \A i, j : BalancedIn(tokens, i, j) <=> Balanced(i, j)
  BY DEF BalancedIn, Balanced, CountIn, Opening, Closing
<1>2. \A i, j : AdjacentIn(tokens, i, j) <=> Adjacent(i, j)
  BY DEF AdjacentIn, Adjacent
<1>3. ASSUME NEW i \in DOMAIN tokens
      PROVE  IsTag(tokens, i) <=>
              ( /\ \E n \in 1..(i - 1) : tokens[n].kind = "identifier" /\ Adjacent(n, i)
                /\ \E s, b \in 1..(i - 1) :
                     /\ tokens[b].kind = "{" /\ Balanced(b + 1, i - 1)
                     /\ \A c \in (b + 1)..(i - 1) :
                          tokens[c].kind = "{" => ~Balanced(c + 1, i - 1)
                     /\ tokens[s].kind = "struct" /\ s < b /\ Adjacent(s, b) )
  <2> DEFINE Named(n) == tokens[n].kind = "identifier" /\ Adjacent(n, i)
             Inner(b) ==
               /\ tokens[b].kind = Opening /\ Balanced(b + 1, i - 1)
               /\ \A c \in (b + 1)..(i - 1) :
                    tokens[c].kind = Opening => ~Balanced(c + 1, i - 1)
             Struct(s, b) == tokens[s].kind = "struct" /\ Adjacent(s, b)
  <2>1. IsTag(tokens, i) <=>
          /\ \E n \in 1..(i - 1) : Named(n)
          /\ \E b \in 1..(i - 1) : Inner(b) /\ \E s \in 1..(b - 1) : Struct(s, b)
    BY <1>1, <1>2 DEF IsTag, AfterStruct
  <2>2. \A b \in 1..(i - 1) : \A s : s \in 1..(b - 1) <=> (s \in 1..(i - 1) /\ s < b)
    <3>1. i \in 1..Len(tokens) /\ Len(tokens) \in Nat
      OBVIOUS
    <3> QED BY <3>1
  <2> HIDE DEF Named, Inner, Struct
  <2>3. IsTag(tokens, i) <=>
          /\ \E n \in 1..(i - 1) : Named(n)
          /\ \E s, b \in 1..(i - 1) : Inner(b) /\ Struct(s, b) /\ s < b
    BY <2>1, <2>2
  <2> USE DEF Named, Inner, Struct
  <2> QED BY <2>3, Zenon DEF Opening
<1> QED BY <1>3 DEF TagsInv, TagsAreInStructs, TagKinds

LEMMA InnermostFrame ==
  ASSUME TokenizerTypes, FramesInv, NEW N, N = Len(tokens)
  PROVE  InStructFrame <=>
           \E b \in 1..N : OpensAt(tokens, b, 1) /\ AfterStruct(tokens, b)
<1> DEFINE F == Len(frames)
<1>1. /\ N \in Nat /\ DOMAIN tokens = 1..N /\ F \in Nat
      /\ frames = << >> <=> F = 0
  BY DEF TokenizerTypes
<1>2. N = Len(tokens)
  OBVIOUS
<1>3. InStructFrame <=> (F # 0 /\ frames[F])
  BY <1>1 DEF InStructFrame
<1>4. F # 0 => \E b \in 1..N : /\ OpensAt(tokens, b, 1)
                               /\ frames[F] <=> AfterStruct(tokens, b)
  <2>1. F # 0 => 1 \in 1..F /\ F + 1 - 1 = F
    BY <1>1
  <2> QED BY <1>1, <2>1 DEF FramesInv
<1>5. \A b \in 1..N : OpensAt(tokens, b, 1) => F # 0
  <2>1. \A b \in 1..N : OpensAt(tokens, b, 1) => 1 <= F
    BY <1>1 DEF FramesInv
  <2> QED BY <1>1, <2>1
<1>6. ASSUME NEW b \in 1..N, NEW c \in 1..N, OpensAt(tokens, b, 1), OpensAt(tokens, c, 1)
      PROVE  b = c
  <2>1. ~(b < c)
    <3> SUFFICES ASSUME b < c PROVE FALSE
      OBVIOUS
    <3>1. c \in (b + 1)..N
      BY <1>1
    <3> QED BY <1>2, <1>6, <3>1 DEF OpensAt
  <2>2. ~(c < b)
    <3> SUFFICES ASSUME c < b PROVE FALSE
      OBVIOUS
    <3>1. b \in (c + 1)..N
      BY <1>1
    <3> QED BY <1>2, <1>6, <3>1 DEF OpensAt
  <2> QED BY <1>1, <2>1, <2>2
<1> HIDE DEF F
<1> QED BY <1>3, <1>4, <1>5, <1>6

LEMMA BacktickKindIsTag ==
  ASSUME TokenizerTypes, FramesInv, NEW N, N = Len(tokens)
  PROVE  /\ BacktickKind \in TagKinds
         /\ BacktickKind = "struct_tag" <=> IsTag(tokens, N + 1)
<1>1. N \in Nat /\ tokens \in Seq(Emitted) /\ N = Len(tokens)
  BY DEF TokenizerTypes
<1>2. \A n : n \in 1..(N + 1 - 1) <=> n \in 1..N
  BY <1>1
<1>3. (Previous = "identifier") <=>
        \E n \in 1..N : tokens[n].kind = "identifier" /\ AdjacentIn(tokens, n, N + 1)
  <2>1. "identifier" \notin Trivia /\ "identifier" # "none"
    BY DEF Trivia
  <2> QED BY <1>1, <2>1, PreviousIs
<1>4. InStructFrame <=>
        \E b \in 1..N : OpensAt(tokens, b, 1) /\ AfterStruct(tokens, b)
  BY InnermostFrame
<1>5. ASSUME NEW b \in 1..N
      PROVE  Ahead(tokens, b, 1) <=> BalancedIn(tokens, b + 1, N)
  <2>1. b + 1 \in Nat
    BY <1>1
  <2>2. /\ CountIn(tokens, Opening, b + 1, N) \in Nat
        /\ CountIn(tokens, Closing, b + 1, N) \in Nat
    BY <1>1, <2>1, CountsAreNumbers
  <2> QED BY <1>1, <2>2 DEF Ahead, BalancedIn
<1>6. ASSUME NEW b \in 1..N
      PROVE  OpensAt(tokens, b, 1) <=>
               /\ tokens[b].kind = Opening /\ BalancedIn(tokens, b + 1, N)
               /\ \A c \in (b + 1)..N :
                    tokens[c].kind = Opening => ~BalancedIn(tokens, c + 1, N)
  <2>1. \A c \in (b + 1)..N : c \in 1..N
    BY <1>1
  <2> QED BY <1>1, <1>5, <2>1 DEF OpensAt
<1>7. IsTag(tokens, N + 1) <=>
        /\ \E n \in 1..N : tokens[n].kind = "identifier" /\ AdjacentIn(tokens, n, N + 1)
        /\ \E b \in 1..N : OpensAt(tokens, b, 1) /\ AfterStruct(tokens, b)
  <2>1. N + 1 - 1 = N
    BY <1>1
  <2>2. IsTag(tokens, N + 1) <=>
          /\ \E n \in 1..N : tokens[n].kind = "identifier" /\ AdjacentIn(tokens, n, N + 1)
          /\ \E b \in 1..N :
               /\ tokens[b].kind = Opening /\ BalancedIn(tokens, b + 1, N)
               /\ \A c \in (b + 1)..N :
                    tokens[c].kind = Opening => ~BalancedIn(tokens, c + 1, N)
               /\ AfterStruct(tokens, b)
    BY <2>1 DEF IsTag
  <2> QED BY <1>6, <2>2
<1>8. BacktickKind = "struct_tag" <=> (InStructFrame /\ Previous = "identifier")
  BY DEF BacktickKind
<1>9. BacktickKind \in TagKinds
  BY DEF BacktickKind, TagKinds
<1> QED BY <1>3, <1>4, <1>7, <1>8, <1>9

LEMMA TagsFollow ==
  ASSUME TokenizerTypes, FramesInv, TagsInv, NEW kind, NEW end, Emits(kind, end),
         kind \in TagKinds => kind = BacktickKind
  PROVE  TagsInv'
<1> DEFINE N == Len(tokens)
           t == [kind |-> kind, from |-> pos, line |-> line, column |-> column]
<1>1. /\ tokens \in Seq(Emitted) /\ t.kind = kind
      /\ t \in Emitted /\ tokens' = Append(tokens, t)
  BY DEF TokenizerTypes, Emits, Emitted
<1> HIDE DEF t
<1>2. /\ N \in Nat /\ N = Len(tokens) /\ DOMAIN tokens = 1..N
      /\ DOMAIN tokens' = 1..(N + 1)
      /\ tokens'[N + 1] = t
      /\ \A n \in 1..N : tokens'[n] = tokens[n]
  BY <1>1, Appended
<1> HIDE DEF N
<1>3. \A i \in 1..(N + 1) : IsTag(tokens', i) <=> IsTag(tokens, i)
  BY <1>1, <1>2, PrefixStays
<1>4. BacktickKind = "struct_tag" <=> IsTag(tokens, N + 1)
  BY <1>2, BacktickKindIsTag
<1> SUFFICES ASSUME NEW i \in 1..(N + 1), tokens'[i].kind \in TagKinds
             PROVE  tokens'[i].kind = "struct_tag" <=> IsTag(tokens', i)
  BY <1>2 DEF TagsInv
<1>5. i \in 1..N \/ i = N + 1
  BY <1>2
<1>6. CASE i \in 1..N
  BY <1>2, <1>3, <1>6 DEF TagsInv
<1>7. CASE i = N + 1
  BY <1>1, <1>2, <1>3, <1>4, <1>7
<1> QED BY <1>5, <1>6, <1>7

-----------------------------------------------------------------------------
(* Every step.                                                              *)

(* A token is emitted, with its frames and, in backticks, its kind; or the   *)
(* scan fails.                                                               *)
Step ==
  \/ UNCHANGED <<text, pos, line, column, frames, tokens>>
  \/ \E kind, end : /\ Emits(kind, end)
                    /\ frames' = FramesAfter(kind)
                    /\ kind \in TagKinds => kind = BacktickKind

(* The kinds that are neither a brace nor written in backticks.              *)
PlainKinds == (NamedKinds \ TagKinds) \cup Letters

LEMMA PlainKindsKeepFrames ==
  ASSUME NEW kind \in PlainKinds
  PROVE  kind \in Kinds /\ kind \notin TagKinds /\ FramesAfter(kind) = frames
<1>1. kind \in Kinds
  BY AlphabetAssumption, Zenon DEF AlphabetAssumption, PlainKinds, Kinds
<1>2. kind \notin TagKinds
  <2>1. TagKinds \subseteq NamedKinds
    BY DEF TagKinds, NamedKinds
  <2>2. Letters \cap NamedKinds = {}
    BY AlphabetAssumption, Zenon DEF AlphabetAssumption
  <2> QED BY <2>1, <2>2 DEF PlainKinds
<1>3. kind # Opening /\ kind # Closing
  <2>1. Letters \cap {Opening, Closing} = {}
    BY AlphabetAssumption, Zenon DEF AlphabetAssumption, Opening, Closing
  <2> QED BY <2>1, BracesAreNoNames DEF PlainKinds
<1> QED BY <1>1, <1>2, <1>3, FramesKept

LEMMA PlainStep ==
  ASSUME NEW kind \in PlainKinds, NEW end \in Nat, pos <= end,
         Emit(kind, end), frames' = frames
  PROVE  Step
<1>1. Emits(kind, end)
  BY PlainKindsKeepFrames DEF Emit, Emits
<1>2. frames' = FramesAfter(kind)
  BY PlainKindsKeepFrames
<1> QED BY <1>1, <1>2, PlainKindsKeepFrames DEF Step

LEMMA FailedStep ==
  ASSUME NEW reason, Fail(reason)
  PROVE  Step
BY DEF Fail, Step

LEMMA EveryStep ==
  ASSUME TokenizerTypes, TokenizerNext
  PROVE  Step
<1> USE DEF TokenizerTypes
<1>1. /\ Len(text) \in Nat
      /\ \A q \in 1..Len(text) : text[q] \in Alphabet
  BY TextIsChars
<1>2. pos \in Nat /\ pos >= 1
  OBVIOUS
<1>3. Scanning => pos \in 1..Len(text) /\ pos \in 1..(Len(text) + 1)
  BY <1>1, <1>2 DEF Scanning
<1>4. /\ {"newline", "whitespace", "line_comment", "block_comment", "string",
          "number", "identifier"} \subseteq PlainKinds
      /\ Letters \subseteq PlainKinds
  BY DEF PlainKinds, NamedKinds, TagKinds, Trivia
<1>5. CASE ScanNewline
  <2>1. PICK end \in {pos + 1, pos + 2} : Emit("newline", end)
    BY <1>5 DEF ScanNewline
  <2>2. end \in Nat /\ pos <= end
    BY <1>2
  <2> QED BY <1>4, <1>5, <2>1, <2>2, PlainStep DEF ScanNewline
<1>6. CASE ScanWhitespace
  <2>1. WhitespaceEnd(pos) \in Nat /\ pos <= WhitespaceEnd(pos)
    <3>1. WhitespaceEnd(pos) \in pos..(Len(text) + 1)
      BY <1>3, <1>6, BlanksStop DEF ScanWhitespace
    <3> QED BY <1>1, <1>2, <3>1
  <2> QED BY <1>4, <1>6, <2>1, PlainStep DEF ScanWhitespace
<1>7. CASE ScanComment
  <2>1. CASE Emit("line_comment", LineCommentEnd(pos)) /\ UNCHANGED frames
    <3>1. LineCommentEnd(pos) \in pos..(Len(text) + 1)
      BY <1>3, <1>7, LineCommentEnds DEF ScanComment
    <3>2. LineCommentEnd(pos) \in Nat /\ pos <= LineCommentEnd(pos)
      BY <1>1, <1>2, <3>1
    <3> QED BY <1>4, <2>1, <3>2, PlainStep
  <2>2. CASE /\ At(pos + 1) = "*"
             /\ EmitOrFail("block_comment", BlockCommentEnd(pos),
                           "unterminated_block_comment")
    <3>1. /\ BlockCommentEnd(pos) \in Nat
          /\ BlockCommentEnd(pos) # 0 => pos <= BlockCommentEnd(pos)
      <4>1. /\ BlockCommentEnd(pos) \in Nat
            /\ BlockCommentEnd(pos) # 0 => pos < BlockCommentEnd(pos)
        BY <1>3, <1>7, <2>2, BlockCommentEnds DEF ScanComment
      <4> QED BY <1>2, <4>1
    <3> QED BY <1>4, <2>2, <3>1, PlainStep, FailedStep DEF EmitOrFail
  <2> QED BY <1>7, <2>1, <2>2 DEF ScanComment
<1>8. CASE ScanString
  <2> DEFINE scan == StringScan(pos)
  <2>1. scan.end \in Nat /\ (scan.end # 0 => pos <= scan.end)
    <3>1. scan.end \in Nat /\ (scan.end # 0 => pos < scan.end)
      BY <1>3, <1>8, StringEnd DEF ScanString
    <3> HIDE DEF scan
    <3> QED BY <1>2, <3>1
  <2>2. EmitOrFail("string", scan.end, scan.reason)
    BY <1>8 DEF ScanString
  <2> HIDE DEF scan
  <2> QED BY <1>4, <2>1, <2>2, PlainStep, FailedStep DEF EmitOrFail
<1>9. CASE ScanRawString
  <2>1. /\ RawStringEnd(pos) \in Nat
        /\ RawStringEnd(pos) # 0 => pos <= RawStringEnd(pos)
    <3>1. /\ RawStringEnd(pos) \in Nat
          /\ RawStringEnd(pos) # 0 => pos < RawStringEnd(pos)
      BY <1>3, <1>9, RawStringEnds DEF ScanRawString
    <3> QED BY <1>2, <3>1
  <2>2. BacktickKind \in TagKinds
    BY DEF BacktickKind, TagKinds
  <2>3. BacktickKind \in Kinds /\ FramesAfter(BacktickKind) = frames
    <3>1. BacktickKind \in NamedKinds
      BY <2>2 DEF TagKinds, NamedKinds
    <3> QED BY <3>1, BracesAreNoNames, FramesKept DEF Kinds
  <2>4. CASE Emit(BacktickKind, RawStringEnd(pos)) /\ RawStringEnd(pos) # 0
             /\ UNCHANGED frames
    <3>1. Emits(BacktickKind, RawStringEnd(pos))
      BY <2>1, <2>3, <2>4 DEF Emit, Emits
    <3> QED BY <2>3, <2>4, <3>1 DEF Step
  <2> QED BY <1>9, <2>4, FailedStep DEF ScanRawString, EmitOrFail
<1>10. CASE ScanNumber
  <2>1. NumberEnd(pos) \in Nat /\ pos <= NumberEnd(pos)
    BY <1>3, <1>10, NumberEnds DEF ScanNumber
  <2> QED BY <1>4, <1>10, <2>1, PlainStep DEF ScanNumber
<1>11. CASE ScanWord
  <2>1. WordEnd(pos) \in Nat /\ pos <= WordEnd(pos)
    BY <1>3, <1>11, WordsAndOperatorsEnd DEF ScanWord
  <2>2. WordKind(pos) \in PlainKinds
    BY <1>4, <1>11 DEF ScanWord, WordKind
  <2> QED BY <1>11, <2>1, <2>2, PlainStep DEF ScanWord
<1>12. CASE ScanOperator
  <2>1. OperatorEnd(pos) \in Nat /\ pos <= OperatorEnd(pos)
    BY <1>3, <1>12, WordsAndOperatorsEnd DEF ScanOperator
  <2> DEFINE kind == OperatorKind(pos)
  <2>2. kind \in Kinds /\ kind \notin TagKinds
    <3>1. CASE kind = "operator"
      BY <3>1 DEF Kinds, NamedKinds, TagKinds
    <3>2. CASE kind # "operator"
      <4>1. kind \in Alphabet
        BY <1>1, <1>3, <1>12, <3>2 DEF ScanOperator, OperatorKind
      <4>2. Alphabet \cap NamedKinds = {}
        BY AlphabetAssumption, Zenon DEF AlphabetAssumption
      <4>3. TagKinds \subseteq NamedKinds
        BY DEF TagKinds, NamedKinds
      <4> QED BY <4>1, <4>2, <4>3 DEF Kinds
    <3> QED BY <3>1, <3>2
  <2>3. Emits(kind, OperatorEnd(pos)) /\ frames' = FramesAfter(kind)
    <3>1. Emit(kind, OperatorEnd(pos)) /\ frames' = FramesAfter(kind)
      BY <1>12, Zenon DEF ScanOperator
    <3> HIDE DEF kind
    <3> QED BY <2>1, <2>2, <3>1 DEF Emit, Emits
  <2> QED BY <2>2, <2>3 DEF Step
<1> QED
  BY <1>5, <1>6, <1>7, <1>8, <1>9, <1>10, <1>11, <1>12 DEF TokenizerNext

TokenizerInv == TokenizerTypes /\ PlaceInv /\ FramesInv /\ TagsInv

LEMMA TokenizerStarts == TokenizerInit => TokenizerInv
<1> SUFFICES ASSUME TokenizerInit PROVE TokenizerInv
  OBVIOUS
<1>1. /\ text \in Texts /\ pos = 1 /\ line = 1 /\ column = 1
      /\ frames = << >> /\ tokens = << >>
  BY DEF TokenizerInit
<1>2. DOMAIN tokens = {} /\ Len(frames) = 0
  BY <1>1
<1>3. TokenizerTypes
  <2>1. Texts \subseteq Seq(Alphabet)
    BY AlphabetAssumption, Zenon DEF AlphabetAssumption
  <2> HIDE DEF Emitted
  <2> QED BY <1>1, <2>1 DEF TokenizerTypes, TextOK
<1>4. PlaceInv
  <2>1. FeedsBefore(pos) = {}
    BY <1>1 DEF FeedsBefore
  <2>2. Cardinality(FeedsBefore(pos)) = 0 /\ LastOf(FeedsBefore(pos)) = 0
    BY <2>1, FS_EmptySet DEF LastOf
  <2> QED BY <1>1, <1>2, <2>2 DEF PlaceInv, TokensAreWhereTheySay
<1>5. FramesInv /\ TagsInv
  BY <1>2 DEF FramesInv, TagsInv
<1> QED BY <1>3, <1>4, <1>5 DEF TokenizerInv

LEMMA TokenizerSteps ==
  TokenizerInv /\ [TokenizerNext]_tokenizerVars => TokenizerInv'
<1> SUFFICES ASSUME TokenizerInv, [TokenizerNext]_tokenizerVars PROVE TokenizerInv'
  OBVIOUS
<1>1. TokenizerTypes /\ PlaceInv /\ FramesInv /\ TagsInv
  BY DEF TokenizerInv
<1>2. CASE UNCHANGED <<text, pos, line, column, frames, tokens>>
  <2>1. /\ text' = text /\ pos' = pos /\ line' = line /\ column' = column
        /\ frames' = frames /\ tokens' = tokens
    BY <1>2
  <2>2. TokenizerTypes'
    BY <1>1, <2>1 DEF TokenizerTypes, TextOK
  <2>3. PlaceInv'
    <3>1. FeedsBefore(pos)' = FeedsBefore(pos)
      BY <2>1 DEF FeedsBefore
    <3>2. LastOf(FeedsBefore(pos))' = LastOf(FeedsBefore(pos))
      BY <3>1 DEF LastOf
    <3>3. TokensAreWhereTheySay'
      <4> DEFINE Placed(t) == /\ t.line = 1 + Cardinality(FeedsBefore(t.from))
                              /\ t.column = t.from - LastOf(FeedsBefore(t.from))
      <4>1. TokensAreWhereTheySay <=> \A i \in DOMAIN tokens : Placed(tokens[i])
        BY DEF TokensAreWhereTheySay, FeedsBefore, LastOf
      <4>2. TokensAreWhereTheySay' <=> \A i \in DOMAIN tokens' : Placed(tokens'[i])
        BY <2>1 DEF TokensAreWhereTheySay, FeedsBefore, LastOf
      <4> HIDE DEF Placed
      <4> QED BY <1>1, <2>1, <4>1, <4>2 DEF PlaceInv
    <3> QED BY <1>1, <2>1, <3>1, <3>2, <3>3 DEF PlaceInv
  <2>4. FramesInv' /\ TagsInv'
    BY <1>1, <2>1 DEF FramesInv, TagsInv
  <2> QED BY <2>2, <2>3, <2>4 DEF TokenizerInv
<1>3. ASSUME NEW kind, NEW end, Emits(kind, end), frames' = FramesAfter(kind),
             kind \in TagKinds => kind = BacktickKind
      PROVE  TokenizerInv'
  <2>1. /\ PlaceInv'
        /\ pos' \in Nat /\ pos' >= 1 /\ line' \in Nat /\ column' \in Nat
        /\ tokens' \in Seq(Emitted)
    BY <1>1, <1>3, PlacesFollow
  <2>2. FramesInv' /\ frames' \in Seq(BOOLEAN)
    BY <1>1, <1>3, FramesFollow
  <2>3. TagsInv'
    BY <1>1, <1>3, TagsFollow
  <2>4. TextOK'
    BY <1>1, <1>3 DEF TokenizerTypes, TextOK, Emits
  <2> QED BY <2>1, <2>2, <2>3, <2>4 DEF TokenizerInv, TokenizerTypes
<1>4. CASE TokenizerNext
  <2>1. Step
    BY <1>1, <1>4, EveryStep
  <2> QED BY <1>2, <1>3, <2>1 DEF Step
<1>5. CASE UNCHANGED tokenizerVars
  BY <1>2, <1>5 DEF tokenizerVars
<1> QED BY <1>4, <1>5

(* Every token is where it says it is, and a literal in backticks is a tag   *)
(* exactly when it follows an identifier in an open struct: for every        *)
(* alphabet and every text (_maintain_brace_stack, the column bookkeeping).  *)
THEOREM TokensStayExact == TokenizerSpec => []TokensAreExact
<1>1. TokenizerInit => TokenizerInv
  BY TokenizerStarts
<1>2. TokenizerInv /\ [TokenizerNext]_tokenizerVars => TokenizerInv'
  BY TokenizerSteps
<1>3. TokenizerInv => TokensAreExact
  BY TagsAreTags DEF TokenizerInv, TokenizerTypes, PlaceInv, TokensAreExact
<1> QED BY <1>1, <1>2, <1>3, PTL DEF TokenizerSpec

-----------------------------------------------------------------------------
CodeOK == code \in Seq(TokenKinds)

LEMMA KindsAreNotEOF == "EOF" \notin TokenKinds /\ COMMA # "EOF" /\ LBRACE # "EOF"
                        /\ RBRACE # "EOF"
  BY Zenon DEF TokenKinds, COMMA, LBRACE, RBRACE

LEMMA CodeIsTokens ==
  ASSUME CodeOK
  PROVE  /\ Size \in Nat
         /\ \A q \in 1..Size : Tok(q) = code[q] /\ Tok(q) \in TokenKinds
         /\ \A q : Tok(q) # "EOF" => q \in 1..Size
         /\ \A q \in 1..Size : Tok(q) # "EOF"
<1>1. Size \in Nat /\ \A q \in 1..Size : code[q] \in TokenKinds
  BY DEF CodeOK, Size
<1>2. \A q : Tok(q) = IF q \in 1..Size THEN code[q] ELSE "EOF"
  BY DEF Tok
<1> QED BY <1>1, <1>2, KindsAreNotEOF

LEMMA EarliestIs ==
  ASSUME NEW S \in SUBSET Nat, NEW otherwise
  PROVE  \/ S = {} /\ Earliest(S, otherwise) = otherwise
         \/ Earliest(S, otherwise) \in S /\ \A q \in S : Earliest(S, otherwise) <= q
<1>1. CASE S = {}
  BY <1>1 DEF Earliest
<1>2. CASE S # {}
  <2>1. PICK m \in S : IsFirst(m, S)
    BY <1>2, LeastElement
  <2>2. \E k \in S : \A q \in S : k <= q
    BY <2>1 DEF IsFirst
  <2> QED BY <1>2, <2>2 DEF Earliest
<1> QED BY <1>1, <1>2

LEMMA MatchingEnds ==
  ASSUME CodeOK, NEW p \in Nat, NEW open, NEW close
  PROVE  \/ Matching(p, open, close) = 0
         \/ /\ Tok(p) = open
            /\ Matching(p, open, close) \in (p + 1)..Size
            /\ Tok(Matching(p, open, close)) = close
<1> DEFINE S == {q \in (p + 1)..Size :
                   /\ code[q] = close
                   /\ Occurrences(open, p, q) = Occurrences(close, p, q)}
<1>0. Size \in Nat
  BY CodeIsTokens
<1>1. S \in SUBSET ((p + 1)..Size) /\ S \in SUBSET Nat /\ \A q \in S : code[q] = close
  BY <1>0
<1>2. Matching(p, open, close) = IF Tok(p) # open THEN 0 ELSE Earliest(S, 0)
  BY DEF Matching
<1> HIDE DEF S
<1>3. Earliest(S, 0) = 0 \/ Earliest(S, 0) \in S
  BY <1>1, EarliestIs
<1>4. \A q \in S : q \in (p + 1)..Size /\ Tok(q) = close
  <2>1. \A q \in (p + 1)..Size : q \in 1..Size
    BY <1>0
  <2> QED BY <1>1, <2>1, CodeIsTokens
<1> QED BY <1>2, <1>3, <1>4

LEMMA PastGroupEnds ==
  ASSUME CodeOK, NEW p \in 1..(Size + 1), NEW open, NEW close
  PROVE  \/ PastGroup(p, open, close) = 0
         \/ /\ PastGroup(p, open, close) \in p..(Size + 1)
            /\ PastGroup(p, open, close) = p => Tok(p) # open
<1>0. Size \in Nat /\ p \in Nat
  BY CodeIsTokens
<1>1. \/ Matching(p, open, close) = 0
      \/ Matching(p, open, close) \in (p + 1)..Size
  BY <1>0, MatchingEnds
<1>2. PastGroup(p, open, close) =
        IF Tok(p) # open THEN p
        ELSE IF Matching(p, open, close) = 0 THEN 0
        ELSE Matching(p, open, close) + 1
  BY DEF PastGroup
<1> QED BY <1>0, <1>1, <1>2

LEMMA BoundaryEnds ==
  ASSUME CodeOK, NEW p \in 1..(Size + 1)
  PROVE  Boundary(p) \in p..(Size + 1)
<1> DEFINE S == {q \in p..Size : TopLevelKeyword(q) /\ DepthFrom(p, q) = Level}
<1>0. Size \in Nat /\ p \in Nat
  BY CodeIsTokens
<1>1. S \in SUBSET Nat /\ \A q \in S : q \in p..(Size + 1)
  BY <1>0
<1>2. Boundary(p) = Earliest(S, Size + 1)
  BY DEF Boundary
<1> HIDE DEF S
<1>3. Earliest(S, Size + 1) = Size + 1 \/ Earliest(S, Size + 1) \in S
  BY <1>1, EarliestIs
<1>4. Size + 1 \in p..(Size + 1)
  BY <1>0
<1> QED BY <1>1, <1>2, <1>3, <1>4

LEMMA UnknownEnds ==
  ASSUME CodeOK, NEW p \in 1..(Size + 1)
  PROVE  UnknownEnd(p) \in p..(Size + 1)
<1> DEFINE S == {q \in p..Size : /\ code[q] \in {COMMA, ")", RBRACE, "]"}
                                 /\ DepthFrom(p, q) = Level}
<1>0. Size \in Nat /\ p \in Nat
  BY CodeIsTokens
<1>1. S \in SUBSET Nat /\ \A q \in S : q \in p..(Size + 1)
  BY <1>0
<1>2. UnknownEnd(p) = Earliest(S, Size + 1)
  BY DEF UnknownEnd
<1> HIDE DEF S
<1>3. Earliest(S, Size + 1) = Size + 1 \/ Earliest(S, Size + 1) \in S
  BY <1>1, EarliestIs
<1>4. Size + 1 \in p..(Size + 1)
  BY <1>0
<1> QED BY <1>1, <1>2, <1>3, <1>4

LEMMA ChainEnds ==
  ASSUME CodeOK, NEW p, IsId(p)
  PROVE  p \in 1..Size /\ ChainEnd(p) \in (p + 1)..(Size + 1)
<1> DEFINE Dotted(q) == \A r \in (p + 1)..(q - 1) :
                          IF (r - p) % 2 = 1 THEN Tok(r) = "." ELSE IsId(r)
           S == {q \in {p + 1 + 2 * k : k \in 0..Size} :
                   Dotted(q) /\ ~(Tok(q) = "." /\ IsId(q + 1))}
<1>1. Size \in Nat /\ p \in 1..Size /\ p \in Nat
  BY CodeIsTokens DEF IsId
<1>2. ASSUME NEW q \in S PROVE q \in (p + 1)..(Size + 1)
  <2>1. PICK k \in 0..Size : q = p + 1 + 2 * k
    OBVIOUS
  <2>2. CASE k = 0
    BY <1>1, <2>1, <2>2
  <2>3. CASE k # 0
    <3>1. q - 1 \in (p + 1)..(q - 1) /\ q \in Nat /\ q > p + 1
      BY <1>1, <2>1, <2>3
    <3>2. Tok(q - 1) = "." \/ IsId(q - 1)
      BY <3>1
    <3>3. q - 1 \in 1..Size
      BY <3>2, CodeIsTokens DEF IsId
    <3> QED BY <1>1, <3>1, <3>3
  <2> QED BY <2>1, <2>2, <2>3
<1>3. S \in SUBSET Nat
  BY <1>1, <1>2
<1>4. ChainEnd(p) = Earliest(S, p + 1)
  BY DEF ChainEnd
<1> HIDE DEF S
<1>5. Earliest(S, p + 1) = p + 1 \/ Earliest(S, p + 1) \in S
  BY <1>3, EarliestIs
<1> QED BY <1>1, <1>2, <1>4, <1>5

-----------------------------------------------------------------------------
PastComma(q) == IF Tok(q) = COMMA THEN q + 1 ELSE q

ArgEndBy(parse, q) ==
  IF IsString(q) \/ Tok(q) = "num" THEN q + 1
  ELSE IF Tok(q) = "&" \/ IsId(q)
    THEN LET m == parse[<<"match", q>>]
         IN IF m.kind # "none" THEN m.end
            ELSE IF IsId(q) THEN ChainEnd(q) ELSE UnknownEnd(q)
    ELSE UnknownEnd(q)

MatchBy(parse, p) ==
  LET first == IF Tok(p) = "&" THEN p + 1 ELSE p
      after == ChainEnd(first)
      call == parse[<<"args", after + 1>>]
      literal == parse[<<"fields", after + 1>>]
  IN IF ~IsId(first) \/ after > Size THEN NoMatch
     ELSE IF Tok(after) = "(" /\ first = p /\ call # 0
       THEN [kind |-> "call", end |-> call]
     ELSE IF /\ Tok(after) = LBRACE
             /\ IsId(after + 1) /\ Tok(after + 2) = ":"
             /\ after - first <= 3 /\ literal # 0
       THEN [kind |-> "struct", end |-> literal]
     ELSE NoMatch

ArgsBy(parse, p) ==
  IF p > Size THEN 0
  ELSE IF Tok(p) = ")" THEN p + 1
  ELSE IF Tok(p) = COMMA THEN parse[<<"args", p + 1>>]
  ELSE IF ArgEndBy(parse, p) <= p THEN 0
  ELSE parse[<<"args", PastComma(ArgEndBy(parse, p))>>]

FieldsBy(parse, p) ==
  IF p > Size THEN 0
  ELSE IF Tok(p) = RBRACE THEN p + 1
  ELSE IF Tok(p) = COMMA THEN parse[<<"fields", p + 1>>]
  ELSE IF ~(IsId(p) /\ Tok(p + 1) = ":" /\ p + 2 <= Size) THEN 0
  ELSE parse[<<"fields", PastComma(ArgEndBy(parse, p + 2))>>]

ParseBy(parse, x) ==
  CASE x[1] = "match" -> MatchBy(parse, x[2])
    [] x[1] = "args" -> ArgsBy(parse, x[2])
    [] x[1] = "fields" -> FieldsBy(parse, x[2])

Calls == {"match", "args", "fields"} \X (1..(Size + 1))

Parse == CHOOSE parse : parse = [x \in Calls |-> ParseBy(parse, x)]

LEMMA RecognizedIs ==
  Recognized = [p \in 1..(Size + 1) |-> Parse[<<"match", p>>]]
  BY DEF Recognized, Parse, Calls, ParseBy, MatchBy, ArgsBy, FieldsBy, ArgEndBy, PastComma

Matches(p) == {NoMatch} \cup [kind : {"call", "struct"}, end : (p + 1)..(Size + 1)]

Lists(p) == {0} \cup ((p + 1)..(Size + 1))

Ends(x) == IF x[1] = "match" THEN Matches(x[2]) ELSE Lists(x[2])

Lag(name) == IF name = "match" THEN 0 ELSE 1

CallRank == [x \in Calls |-> 2 * (Size + 1 - x[2]) + Lag(x[1])]

(* What the recursion at x may look at.                                      *)
Later(x) == {y \in Calls : CallRank[y] < CallRank[x]}

LEMMA RanksOfCalls ==
  ASSUME CodeOK
  PROVE  /\ CallRank \in [Calls -> 0..(2 * Size + 1)]
         /\ \A name \in {"match", "args", "fields"}, p \in 1..(Size + 1) :
              \A q \in (p + 1)..(Size + 1) :
                /\ <<"match", q>> \in Later(<<name, p>>)
                /\ <<"args", q>> \in Later(<<name, p>>)
                /\ <<"fields", q>> \in Later(<<name, p>>)
         /\ \A name \in {"args", "fields"}, p \in 1..(Size + 1) :
              <<"match", p>> \in Later(<<name, p>>)
<1> DEFINE Forms == {"match", "args", "fields"}
<1>1. Size \in Nat
  BY CodeIsTokens
<1>2. \A name \in Forms, p \in 1..(Size + 1) :
        /\ <<name, p>> \in Calls
        /\ CallRank[<<name, p>>] = 2 * (Size + 1 - p) + Lag(name)
  BY DEF Calls, CallRank
<1>3. /\ \A name : Lag(name) \in {0, 1}
      /\ Lag("match") = 0 /\ Lag("args") = 1 /\ Lag("fields") = 1
  BY DEF Lag
<1>4. \A x \in Calls : \E name \in Forms, p \in 1..(Size + 1) : x = <<name, p>>
  BY DEF Calls
<1>5. \A x \in Calls : CallRank[x] \in 0..(2 * Size + 1)
  <2> SUFFICES ASSUME NEW x \in Calls PROVE CallRank[x] \in 0..(2 * Size + 1)
    OBVIOUS
  <2>1. PICK name \in Forms, p \in 1..(Size + 1) : x = <<name, p>>
    BY <1>4
  <2>2. CallRank[x] = 2 * (Size + 1 - p) + Lag(name) /\ Lag(name) \in {0, 1}
    BY <1>2, <1>3, <2>1
  <2>3. 2 * (Size + 1 - p) \in 0..(2 * Size)
    BY <1>1
  <2> QED BY <1>1, <2>2, <2>3
<1>6. CallRank \in [Calls -> 0..(2 * Size + 1)]
  BY <1>5 DEF CallRank
<1>7. ASSUME NEW name \in Forms, NEW p \in 1..(Size + 1), NEW q \in (p + 1)..(Size + 1),
             NEW form \in Forms
      PROVE  <<form, q>> \in Later(<<name, p>>)
  <2>1. q \in 1..(Size + 1) /\ p \in Nat /\ q \in Nat /\ p < q
    BY <1>1
  <2>2. /\ CallRank[<<name, p>>] = 2 * (Size + 1 - p) + Lag(name)
        /\ CallRank[<<form, q>>] = 2 * (Size + 1 - q) + Lag(form)
    BY <1>2, <2>1
  <2>3. Lag(name) \in {0, 1} /\ Lag(form) \in {0, 1}
    BY <1>3
  <2>4. CallRank[<<form, q>>] < CallRank[<<name, p>>]
    BY <1>1, <2>1, <2>2, <2>3
  <2> QED BY <1>2, <2>1, <2>4 DEF Later
<1>8. ASSUME NEW name \in {"args", "fields"}, NEW p \in 1..(Size + 1)
      PROVE  <<"match", p>> \in Later(<<name, p>>)
  <2>1. /\ CallRank[<<name, p>>] = 2 * (Size + 1 - p) + Lag(name)
        /\ CallRank[<<"match", p>>] = 2 * (Size + 1 - p) + Lag("match")
    BY <1>2
  <2>2. Lag(name) = 1 /\ Lag("match") = 0
    BY <1>3
  <2>3. CallRank[<<"match", p>>] < CallRank[<<name, p>>]
    BY <1>1, <2>1, <2>2
  <2> QED BY <1>2, <2>3 DEF Later
<1> QED BY <1>6, <1>7, <1>8

(* What an argument ends with depends on what begins where it begins.        *)
LEMMA ArgEnds ==
  ASSUME CodeOK, NEW q \in 1..(Size + 1), NEW parse, parse[<<"match", q>>] \in Matches(q)
  PROVE  /\ ArgEndBy(parse, q) \in q..(Size + 1)
         /\ PastComma(ArgEndBy(parse, q)) \in q..(Size + 1)
         /\ \A other : other[<<"match", q>>] = parse[<<"match", q>>] =>
              ArgEndBy(other, q) = ArgEndBy(parse, q)
<1> DEFINE m == parse[<<"match", q>>]
           end == ArgEndBy(parse, q)
<1>1. Size \in Nat /\ q \in Nat /\ q <= Size + 1
  BY CodeIsTokens
<1>2. m = NoMatch \/ (m.kind # "none" /\ m.end \in (q + 1)..(Size + 1))
  BY DEF Matches
<1>3. NoMatch.kind = "none"
  BY DEF NoMatch
<1>4. end \in q..(Size + 1)
  <2>1. CASE IsString(q) \/ Tok(q) = "num"
    <3>1. q \in 1..Size
      BY <2>1, CodeIsTokens DEF IsString
    <3>2. end = q + 1
      BY <2>1 DEF ArgEndBy
    <3> QED BY <1>1, <3>1, <3>2
  <2>2. CASE ~(IsString(q) \/ Tok(q) = "num")
    <3>1. \/ m.kind # "none" /\ end = m.end
          \/ IsId(q) /\ end = ChainEnd(q)
          \/ end = UnknownEnd(q)
      BY <2>2 DEF ArgEndBy
    <3>2. CASE m.kind # "none" /\ end = m.end
      BY <1>1, <1>2, <1>3, <3>2
    <3>3. CASE IsId(q) /\ end = ChainEnd(q)
      BY <1>1, <3>3, ChainEnds
    <3>4. CASE end = UnknownEnd(q)
      BY <3>4, UnknownEnds
    <3> QED BY <3>1, <3>2, <3>3, <3>4
  <2> QED BY <2>1, <2>2
<1>5. PastComma(end) \in q..(Size + 1)
  <2>1. Tok(end) = COMMA => end \in 1..Size
    BY CodeIsTokens, KindsAreNotEOF
  <2> HIDE DEF end
  <2> QED BY <1>1, <1>4, <2>1 DEF PastComma
<1>6. \A other : other[<<"match", q>>] = m => ArgEndBy(other, q) = ArgEndBy(parse, q)
  BY DEF ArgEndBy
<1> QED BY <1>4, <1>5, <1>6

LEMMA MatchSteps ==
  ASSUME CodeOK, NEW p \in 1..(Size + 1), NEW parse,
         \A q \in (p + 1)..(Size + 1) :
           parse[<<"args", q>>] \in Lists(q) /\ parse[<<"fields", q>>] \in Lists(q)
  PROVE  /\ MatchBy(parse, p) \in Matches(p)
         /\ \A other :
              (\A q \in (p + 1)..(Size + 1) :
                 /\ other[<<"args", q>>] = parse[<<"args", q>>]
                 /\ other[<<"fields", q>>] = parse[<<"fields", q>>])
              => MatchBy(other, p) = MatchBy(parse, p)
<1> DEFINE first == IF Tok(p) = "&" THEN p + 1 ELSE p
           after == ChainEnd(first)
           call(f) == f[<<"args", after + 1>>]
           literal(f) == f[<<"fields", after + 1>>]
           Calling == Tok(after) = "(" /\ first = p
           Literal == /\ Tok(after) = LBRACE
                      /\ IsId(after + 1) /\ Tok(after + 2) = ":"
                      /\ after - first <= 3
<1>1. Size \in Nat /\ p \in Nat /\ p <= Size + 1
  BY CodeIsTokens
<1>2. \A f : MatchBy(f, p) =
               IF ~IsId(first) \/ after > Size THEN NoMatch
               ELSE IF Calling /\ call(f) # 0 THEN [kind |-> "call", end |-> call(f)]
               ELSE IF Literal /\ literal(f) # 0
                 THEN [kind |-> "struct", end |-> literal(f)]
               ELSE NoMatch
  BY DEF MatchBy
<1>3. NoMatch \in Matches(p)
  BY DEF Matches
<1>4. first \in {p, p + 1}
  OBVIOUS
<1> HIDE DEF Calling, Literal, first
<1>5. CASE ~IsId(first) \/ after > Size
  BY <1>2, <1>3, <1>5
<1>6. CASE ~(~IsId(first) \/ after > Size)
  <2>1. after \in (first + 1)..(Size + 1) /\ first \in 1..Size
    BY <1>6, ChainEnds
  <2>2. after + 1 \in (p + 1)..(Size + 1)
    BY <1>1, <1>4, <1>6, <2>1
  <2> HIDE DEF after
  <2>3. call(parse) \in Lists(after + 1) /\ literal(parse) \in Lists(after + 1)
    BY <2>2
  <2>4. \A other :
          (\A q \in (p + 1)..(Size + 1) :
             /\ other[<<"args", q>>] = parse[<<"args", q>>]
             /\ other[<<"fields", q>>] = parse[<<"fields", q>>])
          => call(other) = call(parse) /\ literal(other) = literal(parse)
    BY <2>2
  <2>5. \A e \in Lists(after + 1) : e # 0 =>
          /\ [kind |-> "call", end |-> e] \in Matches(p)
          /\ [kind |-> "struct", end |-> e] \in Matches(p)
    <3> SUFFICES ASSUME NEW e \in Lists(after + 1), e # 0
                 PROVE  e \in (p + 1)..(Size + 1)
      BY DEF Matches
    <3> QED BY <1>1, <2>2 DEF Lists
  <2> HIDE DEF call, literal
  <2>6. MatchBy(parse, p) \in Matches(p)
    BY <1>2, <1>3, <2>3, <2>5
  <2>7. \A other : call(other) = call(parse) /\ literal(other) = literal(parse) =>
                     MatchBy(other, p) = MatchBy(parse, p)
    BY <1>2
  <2> QED BY <2>4, <2>6, <2>7
<1> QED BY <1>5, <1>6

LEMMA ArgsSteps ==
  ASSUME CodeOK, NEW p \in 1..(Size + 1), NEW parse,
         parse[<<"match", p>>] \in Matches(p),
         \A q \in (p + 1)..(Size + 1) : parse[<<"args", q>>] \in Lists(q)
  PROVE  /\ ArgsBy(parse, p) \in Lists(p)
         /\ \A other :
              /\ other[<<"match", p>>] = parse[<<"match", p>>]
              /\ \A q \in (p + 1)..(Size + 1) :
                   other[<<"args", q>>] = parse[<<"args", q>>]
              => ArgsBy(other, p) = ArgsBy(parse, p)
<1> DEFINE end(f) == ArgEndBy(f, p)
           next(f) == PastComma(end(f))
<1>1. Size \in Nat /\ p \in Nat /\ p <= Size + 1
  BY CodeIsTokens
<1>2. \A f : ArgsBy(f, p) =
               IF p > Size THEN 0
               ELSE IF Tok(p) = ")" THEN p + 1
               ELSE IF Tok(p) = COMMA THEN f[<<"args", p + 1>>]
               ELSE IF end(f) <= p THEN 0
               ELSE f[<<"args", next(f)>>]
  BY DEF ArgsBy
<1>3. /\ end(parse) \in p..(Size + 1) /\ next(parse) \in p..(Size + 1)
      /\ \A other : other[<<"match", p>>] = parse[<<"match", p>>] => end(other) = end(parse)
  BY ArgEnds
<1>4. end(parse) > p => next(parse) \in (p + 1)..(Size + 1)
  BY <1>1, <1>3 DEF PastComma
<1>5. \A other : end(other) = end(parse) => next(other) = next(parse)
  OBVIOUS
<1> HIDE DEF end, next
<1>6. /\ p <= Size => p + 1 \in (p + 1)..(Size + 1)
      /\ 0 \in Lists(p)
      /\ p <= Size => p + 1 \in Lists(p)
      /\ \A q \in (p + 1)..(Size + 1) : \A e \in Lists(q) : e \in Lists(p)
  BY <1>1 DEF Lists
<1>7. ArgsBy(parse, p) \in Lists(p)
  <2>1. p <= Size => parse[<<"args", p + 1>>] \in Lists(p)
    BY <1>6
  <2>2. ~(end(parse) <= p) => parse[<<"args", next(parse)>>] \in Lists(p)
    BY <1>1, <1>3, <1>4, <1>6
  <2>3. p > Size \/ p <= Size
    BY <1>1
  <2> QED BY <1>2, <1>6, <2>1, <2>2, <2>3
<1>8. ASSUME NEW other, other[<<"match", p>>] = parse[<<"match", p>>],
             \A q \in (p + 1)..(Size + 1) : other[<<"args", q>>] = parse[<<"args", q>>]
      PROVE  ArgsBy(other, p) = ArgsBy(parse, p)
  <2>1. end(other) = end(parse) /\ next(other) = next(parse)
    BY <1>3, <1>5, <1>8
  <2>2. p <= Size => other[<<"args", p + 1>>] = parse[<<"args", p + 1>>]
    BY <1>6, <1>8
  <2>3. ~(end(parse) <= p) => other[<<"args", next(parse)>>] = parse[<<"args", next(parse)>>]
    BY <1>1, <1>3, <1>4, <1>8
  <2> DEFINE ahead(f) == f[<<"args", p + 1>>]
             after(f) == f[<<"args", next(f)>>]
  <2>4. \A f : ArgsBy(f, p) = IF p > Size THEN 0
                              ELSE IF Tok(p) = ")" THEN p + 1
                              ELSE IF Tok(p) = COMMA THEN ahead(f)
                              ELSE IF end(f) <= p THEN 0
                              ELSE after(f)
    BY <1>2
  <2>5. p <= Size => ahead(other) = ahead(parse)
    BY <2>2
  <2>6. ~(end(parse) <= p) => after(other) = after(parse)
    BY <2>1, <2>3
  <2>7. p > Size \/ p <= Size
    BY <1>1
  <2> HIDE DEF ahead, after
  <2> QED BY <2>1, <2>4, <2>5, <2>6, <2>7
<1> QED BY <1>7, <1>8

LEMMA FieldsSteps ==
  ASSUME CodeOK, NEW p \in 1..(Size + 1), NEW parse,
         \A q \in (p + 1)..(Size + 1) :
           parse[<<"match", q>>] \in Matches(q) /\ parse[<<"fields", q>>] \in Lists(q)
  PROVE  /\ FieldsBy(parse, p) \in Lists(p)
         /\ \A other :
              (\A q \in (p + 1)..(Size + 1) :
                 /\ other[<<"match", q>>] = parse[<<"match", q>>]
                 /\ other[<<"fields", q>>] = parse[<<"fields", q>>])
              => FieldsBy(other, p) = FieldsBy(parse, p)
<1> DEFINE next(f) == PastComma(ArgEndBy(f, p + 2))
           Field == IsId(p) /\ Tok(p + 1) = ":" /\ p + 2 <= Size
<1>1. Size \in Nat /\ p \in Nat /\ p <= Size + 1
  BY CodeIsTokens
<1>2. \A f : FieldsBy(f, p) =
               IF p > Size THEN 0
               ELSE IF Tok(p) = RBRACE THEN p + 1
               ELSE IF Tok(p) = COMMA THEN f[<<"fields", p + 1>>]
               ELSE IF ~Field THEN 0
               ELSE f[<<"fields", next(f)>>]
  BY DEF FieldsBy
<1>3. Field => p + 2 \in (p + 1)..(Size + 1) /\ p + 2 \in 1..(Size + 1)
  BY <1>1
<1>4. ASSUME Field
      PROVE  /\ next(parse) \in (p + 1)..(Size + 1)
             /\ \A other : other[<<"match", p + 2>>] = parse[<<"match", p + 2>>] =>
                             next(other) = next(parse)
  <2>1. parse[<<"match", p + 2>>] \in Matches(p + 2)
    BY <1>3, <1>4
  <2>2. /\ next(parse) \in (p + 2)..(Size + 1)
        /\ \A other : other[<<"match", p + 2>>] = parse[<<"match", p + 2>>] =>
                        ArgEndBy(other, p + 2) = ArgEndBy(parse, p + 2)
    BY <1>3, <1>4, <2>1, ArgEnds
  <2>3. next(parse) \in (p + 1)..(Size + 1)
    <3> HIDE DEF next
    <3> QED BY <1>1, <2>2
  <2> QED BY <2>2, <2>3
<1> HIDE DEF Field, next
<1>5. /\ p <= Size => p + 1 \in (p + 1)..(Size + 1)
      /\ 0 \in Lists(p)
      /\ p <= Size => p + 1 \in Lists(p)
      /\ \A q \in (p + 1)..(Size + 1) : \A e \in Lists(q) : e \in Lists(p)
  BY <1>1 DEF Lists
<1>6. FieldsBy(parse, p) \in Lists(p)
  <2>1. p <= Size => parse[<<"fields", p + 1>>] \in Lists(p)
    BY <1>5
  <2>2. Field => parse[<<"fields", next(parse)>>] \in Lists(p)
    BY <1>4, <1>5
  <2>3. p > Size \/ p <= Size
    BY <1>1
  <2> QED BY <1>2, <1>5, <2>1, <2>2, <2>3
<1>7. ASSUME NEW other,
             \A q \in (p + 1)..(Size + 1) :
               /\ other[<<"match", q>>] = parse[<<"match", q>>]
               /\ other[<<"fields", q>>] = parse[<<"fields", q>>]
      PROVE  FieldsBy(other, p) = FieldsBy(parse, p)
  <2>1. Field => next(other) = next(parse)
    BY <1>3, <1>4, <1>7
  <2>2. p <= Size => other[<<"fields", p + 1>>] = parse[<<"fields", p + 1>>]
    BY <1>5, <1>7
  <2>3. Field => other[<<"fields", next(parse)>>] = parse[<<"fields", next(parse)>>]
    BY <1>4, <1>7
  <2>4. p > Size \/ p <= Size
    BY <1>1
  <2>5. CASE Field
    BY <1>2, <2>1, <2>2, <2>3, <2>4, <2>5
  <2>6. CASE ~Field
    BY <1>2, <2>2, <2>4, <2>6
  <2> QED BY <2>5, <2>6
<1> QED BY <1>6, <1>7

LEMMA ParseSteps ==
  ASSUME CodeOK, NEW x \in Calls, NEW parse, \A y \in Later(x) : parse[y] \in Ends(y)
  PROVE  /\ ParseBy(parse, x) \in Ends(x)
         /\ \A other : (\A y \in Later(x) : other[y] = parse[y]) =>
                         ParseBy(other, x) = ParseBy(parse, x)
<1>1. PICK name \in {"match", "args", "fields"}, p \in 1..(Size + 1) : x = <<name, p>>
  BY DEF Calls
<1>2. \A q \in (p + 1)..(Size + 1) :
        /\ <<"match", q>> \in Later(x)
        /\ <<"args", q>> \in Later(x)
        /\ <<"fields", q>> \in Later(x)
  BY <1>1, RanksOfCalls
<1>3. name # "match" => <<"match", p>> \in Later(x)
  BY <1>1, RanksOfCalls
<1>4. /\ \A q : /\ Ends(<<"match", q>>) = Matches(q)
                /\ Ends(<<"args", q>>) = Lists(q)
                /\ Ends(<<"fields", q>>) = Lists(q)
      /\ \A f, q : /\ ParseBy(f, <<"match", q>>) = MatchBy(f, q)
                   /\ ParseBy(f, <<"args", q>>) = ArgsBy(f, q)
                   /\ ParseBy(f, <<"fields", q>>) = FieldsBy(f, q)
  BY DEF Ends, ParseBy
<1>5. \A q \in (p + 1)..(Size + 1) :
        /\ parse[<<"match", q>>] \in Matches(q)
        /\ parse[<<"args", q>>] \in Lists(q)
        /\ parse[<<"fields", q>>] \in Lists(q)
  BY <1>2, <1>4
<1>6. CASE name = "match"
  <2>1. Ends(x) = Matches(p) /\ \A f : ParseBy(f, x) = MatchBy(f, p)
    BY <1>1, <1>4, <1>6
  <2>2. /\ MatchBy(parse, p) \in Matches(p)
        /\ \A other :
             (\A q \in (p + 1)..(Size + 1) :
                /\ other[<<"args", q>>] = parse[<<"args", q>>]
                /\ other[<<"fields", q>>] = parse[<<"fields", q>>])
             => MatchBy(other, p) = MatchBy(parse, p)
    BY <1>5, MatchSteps
  <2> QED BY <1>2, <2>1, <2>2
<1>7. CASE name = "args"
  <2>1. Ends(x) = Lists(p) /\ \A f : ParseBy(f, x) = ArgsBy(f, p)
    BY <1>1, <1>4, <1>7
  <2>2. <<"match", p>> \in Later(x) /\ parse[<<"match", p>>] \in Matches(p)
    BY <1>3, <1>4, <1>7
  <2>3. /\ ArgsBy(parse, p) \in Lists(p)
        /\ \A other :
             /\ other[<<"match", p>>] = parse[<<"match", p>>]
             /\ \A q \in (p + 1)..(Size + 1) :
                  other[<<"args", q>>] = parse[<<"args", q>>]
             => ArgsBy(other, p) = ArgsBy(parse, p)
    BY <1>5, <2>2, ArgsSteps
  <2> QED BY <1>2, <2>1, <2>2, <2>3
<1>8. CASE name = "fields"
  <2>1. Ends(x) = Lists(p) /\ \A f : ParseBy(f, x) = FieldsBy(f, p)
    BY <1>1, <1>4, <1>8
  <2>2. /\ FieldsBy(parse, p) \in Lists(p)
        /\ \A other :
             (\A q \in (p + 1)..(Size + 1) :
                /\ other[<<"match", q>>] = parse[<<"match", q>>]
                /\ other[<<"fields", q>>] = parse[<<"fields", q>>])
             => FieldsBy(other, p) = FieldsBy(parse, p)
    BY <1>5, FieldsSteps
  <2> QED BY <1>2, <2>1, <2>2
<1> QED BY <1>6, <1>7, <1>8

(* The recursion of the recognizer is well founded: from everywhere it gets  *)
(* to an end of the file's rest.                                             *)
LEMMA ParseIsDefined ==
  ASSUME CodeOK
  PROVE  \A x \in Calls : Parse[x] = ParseBy(Parse, x) /\ Parse[x] \in Ends(x)
<1> DEFINE R == [x \in Calls |-> Ends(x)]
           F == Within(Calls, R)
           B == [f \in F |-> [x \in Calls |-> ParseBy(f, x)]]
<1>1. Size \in Nat /\ 2 * Size + 1 \in Nat
  BY CodeIsTokens
<1>2. CallRank \in [Calls -> 0..(2 * Size + 1)]
  BY RanksOfCalls
<1>3. \A x \in Calls : R[x] = Ends(x) /\ R[x] # {}
  BY DEF Ends, Matches, Lists
<1>4. \A f \in F : \A x \in Calls : f[x] \in Ends(x)
  BY <1>3 DEF Within
<1>5. \A f \in F : \A x \in Calls : ParseBy(f, x) \in Ends(x)
  BY <1>4, ParseSteps DEF Later
<1>6. ASSUME NEW f \in F PROVE [x \in Calls |-> ParseBy(f, x)] \in F
  <2> DEFINE g == [x \in Calls |-> ParseBy(f, x)]
  <2>1. \A x \in Calls : g[x] \in R[x]
    BY <1>3, <1>5
  <2>2. g = [x \in Calls |-> g[x]]
    OBVIOUS
  <2>3. g \in F
    <3> HIDE DEF g, R
    <3> QED BY <2>1, <2>2, WithinIs
  <2> QED BY <2>3
<1>7. B \in [F -> F] /\ \A f \in F : \A x \in Calls : B[f][x] = ParseBy(f, x)
  BY <1>6
<1>8. ASSUME NEW f \in F, NEW g \in F, NEW x \in Calls,
             \A y \in Calls : CallRank[y] < CallRank[x] => f[y] = g[y]
      PROVE  B[f][x] = B[g][x]
  <2>1. \A y \in Later(x) : g[y] \in Ends(y) /\ f[y] = g[y]
    BY <1>4, <1>8 DEF Later
  <2>2. ParseBy(f, x) = ParseBy(g, x)
    BY <2>1, ParseSteps
  <2> QED BY <1>7, <2>2
<1> HIDE DEF R
<1>9. \E f \in F : B[f] = f
  <2>1. \A x \in Calls : R[x] # {}
    BY <1>3
  <2>2. B \in [F -> F]
    BY <1>7
  <2>3. \A f, g \in F : \A x \in Calls :
          (\A y \in Calls : CallRank[y] < CallRank[x] => f[y] = g[y]) => B[f][x] = B[g][x]
    <3> HIDE DEF B, F
    <3> QED BY <1>8
  <2> HIDE DEF B
  <2>4. Descends(B, Calls, R, CallRank, 2 * Size + 1)
    BY <1>1, <1>2, <2>1, <2>2, <2>3 DEF Descends
  <2> QED BY <2>4, Recursion
<1>10. \E f : f = [x \in Calls |-> ParseBy(f, x)]
  BY <1>9
<1>11. Parse = [x \in Calls |-> ParseBy(Parse, x)]
  BY <1>10 DEF Parse
<1>12. \A x \in Calls : Parse[x] = ParseBy(Parse, x)
  BY <1>11
<1> DEFINE S == {x \in Calls : Parse[x] \in Ends(x)}
<1>13. ASSUME NEW x \in Calls, \A y \in Calls : CallRank[y] < CallRank[x] => y \in S
       PROVE  x \in S
  <2>1. \A y \in Later(x) : Parse[y] \in Ends(y)
    BY <1>13 DEF Later
  <2>2. ParseBy(Parse, x) \in Ends(x)
    BY <2>1, ParseSteps
  <2> QED BY <1>12, <2>2
<1>14. S = Calls
  <2>1. S \in SUBSET Calls
    OBVIOUS
  <2> HIDE DEF S
  <2> QED BY <1>1, <1>2, <1>13, <2>1, RankInduction
<1> QED BY <1>12, <1>14

LEMMA RecognizedGoesOn ==
  ASSUME CodeOK, NEW p \in 1..(Size + 1)
  PROVE  \/ Recognized[p].kind = "none"
         \/ /\ Recognized[p].kind \in {"call", "struct"}
            /\ Recognized[p].end \in (p + 1)..(Size + 1)
<1>1. <<"match", p>> \in Calls /\ Ends(<<"match", p>>) = Matches(p)
  BY DEF Calls, Ends
<1>2. Recognized[p] \in Matches(p)
  BY <1>1, RecognizedIs, ParseIsDefined
<1> QED BY <1>2 DEF Matches, NoMatch

-----------------------------------------------------------------------------
(* Where a declaration ends.                                                *)

PastReturn(p) ==
  CASE Tok(p) = "(" -> PastGroup(p, "(", ")")
    [] Tok(p) = "[" -> PastGroup(p, "[", "]")
    [] OTHER -> p + 1

ReturnBy(scan, p) ==
  IF p > Size \/ Tok(p) = LBRACE \/ TopLevelKeyword(p) THEN p
  ELSE IF PastReturn(p) = 0 THEN 0 ELSE scan[PastReturn(p)]

LEMMA ReturnSteps ==
  ASSUME CodeOK, NEW p \in 1..(Size + 1), NEW scan,
         \A q \in (p + 1)..(Size + 1) : scan[q] = 0 \/ scan[q] \in q..(Size + 1)
  PROVE  /\ ReturnBy(scan, p) = 0 \/ ReturnBy(scan, p) \in p..(Size + 1)
         /\ \A other : (\A q \in (p + 1)..(Size + 1) : other[q] = scan[q]) =>
                         ReturnBy(other, p) = ReturnBy(scan, p)
<1>1. Size \in Nat /\ p \in Nat /\ p <= Size + 1
  BY CodeIsTokens
<1>2. \/ PastReturn(p) = 0
      \/ p > Size
      \/ PastReturn(p) \in (p + 1)..(Size + 1)
  <2>1. CASE Tok(p) = "("
    <3>1. PastReturn(p) = PastGroup(p, "(", ")")
      BY <2>1 DEF PastReturn
    <3> QED BY <1>1, <2>1, <3>1, PastGroupEnds
  <2>2. CASE Tok(p) = "["
    <3>1. PastReturn(p) = PastGroup(p, "[", "]")
      BY <2>2 DEF PastReturn
    <3> QED BY <1>1, <2>2, <3>1, PastGroupEnds
  <2>3. CASE Tok(p) # "(" /\ Tok(p) # "["
    <3>1. PastReturn(p) = p + 1
      BY <2>3 DEF PastReturn
    <3> QED BY <1>1, <3>1
  <2> QED BY <2>1, <2>2, <2>3
<1>3. p \in p..(Size + 1)
  BY <1>1
<1>4. CASE p > Size \/ Tok(p) = LBRACE \/ TopLevelKeyword(p)
  <2>1. \A f : ReturnBy(f, p) = p
    BY <1>4 DEF ReturnBy
  <2> QED BY <1>3, <2>1
<1>5. CASE ~(p > Size \/ Tok(p) = LBRACE \/ TopLevelKeyword(p))
  <2>1. \A f : ReturnBy(f, p) = IF PastReturn(p) = 0 THEN 0 ELSE f[PastReturn(p)]
    BY <1>5 DEF ReturnBy
  <2>2. CASE PastReturn(p) = 0
    BY <2>1, <2>2
  <2>3. CASE PastReturn(p) # 0
    <3>1. PastReturn(p) \in (p + 1)..(Size + 1)
      BY <1>2, <1>5, <2>3
    <3>2. \A f : ReturnBy(f, p) = f[PastReturn(p)]
      BY <2>1, <2>3
    <3> QED BY <1>1, <3>1, <3>2
  <2> QED BY <2>2, <2>3
<1> QED BY <1>4, <1>5

(* The positions from start on, the last of them first.                      *)
FromEnd(start, n) == [p \in start..n |-> n - p]

LEMMA FromEndRanks ==
  ASSUME NEW n \in Nat, NEW start \in 1..n
  PROVE  /\ FromEnd(start, n) \in [start..n -> 0..n]
         /\ \A p, q \in start..n :
              FromEnd(start, n)[q] < FromEnd(start, n)[p] <=> q \in (p + 1)..n
<1>1. \A p \in start..n : n - p \in 0..n
  OBVIOUS
<1>2. \A p \in start..n : FromEnd(start, n)[p] = n - p
  BY DEF FromEnd
<1>3. \A p, q \in start..n : n - q < n - p <=> q \in (p + 1)..n
  OBVIOUS
<1> QED BY <1>1, <1>2, <1>3 DEF FromEnd

(* The scan of a return type is defined.                                     *)
LEMMA ReturnIsDefined ==
  ASSUME CodeOK, NEW start \in 1..(Size + 1)
  PROVE  \E scan :
           /\ ReturnTypeEnd(start) = scan[start]
           /\ \A p \in start..(Size + 1) :
                /\ scan[p] = ReturnBy(scan, p)
                /\ scan[p] = 0 \/ scan[p] \in p..(Size + 1)
<1> DEFINE n == Size + 1
           D == start..n
           rank == FromEnd(start, n)
           R == [p \in D |-> {0} \cup (p..n)]
           F == Within(D, R)
           B == [f \in F |-> [p \in D |-> ReturnBy(f, p)]]
           scan == CHOOSE f : f = [p \in D |-> ReturnBy(f, p)]
<1>1. ReturnTypeEnd(start) = scan[start]
  BY DEF ReturnTypeEnd, ReturnBy, PastReturn
<1>2. n \in Nat /\ start \in 1..n /\ start \in D
  BY CodeIsTokens
<1>3. /\ rank \in [D -> 0..n]
      /\ \A p, q \in D : rank[q] < rank[p] <=> q \in (p + 1)..n
  <2> HIDE DEF n
  <2> QED BY <1>2, FromEndRanks
<1>4. ASSUME NEW p \in D PROVE p \in 1..n /\ \A q \in (p + 1)..n : q \in D
  BY <1>2
<1>5. ASSUME NEW p \in D, NEW f, \A q \in (p + 1)..n : f[q] \in R[q]
      PROVE  /\ ReturnBy(f, p) \in R[p]
             /\ \A g : (\A q \in (p + 1)..n : g[q] = f[q]) =>
                         ReturnBy(g, p) = ReturnBy(f, p)
  <2>1. \A q \in D : R[q] = {0} \cup (q..n)
    OBVIOUS
  <2> HIDE DEF R
  <2>2. \A q \in (p + 1)..n : f[q] = 0 \/ f[q] \in q..n
    BY <1>4, <1>5, <2>1
  <2>3. /\ ReturnBy(f, p) = 0 \/ ReturnBy(f, p) \in p..n
        /\ \A g : (\A q \in (p + 1)..n : g[q] = f[q]) => ReturnBy(g, p) = ReturnBy(f, p)
    BY <1>4, <2>2, ReturnSteps
  <2> QED BY <2>1, <2>3
<1>6. \A p \in D : R[p] # {}
  OBVIOUS
<1> HIDE DEF n, rank, R
<1>7. \A f \in F : \A p \in D : f[p] \in R[p]
  BY DEF Within
<1>8. ASSUME NEW f \in F PROVE [p \in D |-> ReturnBy(f, p)] \in F
  <2> DEFINE g == [p \in D |-> ReturnBy(f, p)]
  <2>1. \A p \in D : g[p] \in R[p]
    <3> SUFFICES ASSUME NEW p \in D PROVE ReturnBy(f, p) \in R[p]
      OBVIOUS
    <3>1. \A q \in (p + 1)..n : f[q] \in R[q]
      BY <1>4, <1>7
    <3> QED BY <1>5, <3>1
  <2>2. g = [p \in D |-> g[p]]
    OBVIOUS
  <2>3. g \in F
    <3> HIDE DEF g
    <3> QED BY <2>1, <2>2, WithinIs
  <2> QED BY <2>3
<1>9. B \in [F -> F] /\ \A f \in F : \A p \in D : B[f][p] = ReturnBy(f, p)
  BY <1>8
<1>10. \A f, g \in F : \A p \in D :
         (\A q \in D : rank[q] < rank[p] => f[q] = g[q]) => B[f][p] = B[g][p]
  <2> SUFFICES ASSUME NEW f \in F, NEW g \in F, NEW p \in D,
                      \A q \in D : rank[q] < rank[p] => f[q] = g[q]
               PROVE  B[f][p] = B[g][p]
    OBVIOUS
  <2>1. \A q \in (p + 1)..n : g[q] \in R[q] /\ f[q] = g[q]
    BY <1>3, <1>4, <1>7
  <2>2. ReturnBy(f, p) = ReturnBy(g, p)
    BY <1>5, <2>1
  <2> QED BY <1>9, <2>2
<1>11. \E f \in F : B[f] = f
  <2> HIDE DEF B
  <2>1. Descends(B, D, R, rank, n)
    BY <1>2, <1>3, <1>6, <1>9, <1>10 DEF Descends
  <2> QED BY <2>1, Recursion
<1>12. \E f : f = [p \in D |-> ReturnBy(f, p)]
  BY <1>11
<1>13. scan = [p \in D |-> ReturnBy(scan, p)]
  BY <1>12
<1> HIDE DEF scan
<1>14. \A p \in D : scan[p] = ReturnBy(scan, p)
  BY <1>13
<1> DEFINE S == {p \in D : scan[p] \in R[p]}
<1>15. ASSUME NEW p \in D, \A q \in D : rank[q] < rank[p] => q \in S PROVE p \in S
  <2>1. \A q \in (p + 1)..n : scan[q] \in R[q]
    BY <1>3, <1>4, <1>15
  <2> QED BY <1>5, <1>14, <2>1
<1>16. S = D
  <2>1. S \in SUBSET D /\ rank \in [D -> 0..n] /\ n \in Nat
    BY <1>2, <1>3
  <2>2. \A p \in D : (\A q \in D : rank[q] < rank[p] => q \in S) => p \in S
    BY <1>15
  <2> HIDE DEF S, D
  <2> QED BY <2>1, <2>2, RankInduction
<1>17. \A p \in D : scan[p] = 0 \/ scan[p] \in p..n
  BY <1>16 DEF R
<1>18. \A p \in start..(Size + 1) : /\ scan[p] = ReturnBy(scan, p)
                                    /\ scan[p] = 0 \/ scan[p] \in p..(Size + 1)
  BY <1>14, <1>17 DEF n
<1> QED BY <1>1, <1>18

LEMMA ReturnTypeEnds ==
  ASSUME CodeOK, NEW start \in 1..(Size + 1)
  PROVE  \/ ReturnTypeEnd(start) = 0
         \/ ReturnTypeEnd(start) \in start..(Size + 1)
<1>1. start \in start..(Size + 1)
  BY CodeIsTokens
<1> QED BY <1>1, ReturnIsDefined

LEMMA FuncDeclEnds ==
  ASSUME CodeOK, NEW p \in 1..Size
  PROVE  FuncDecl(p).end = 0 \/ FuncDecl(p).end \in (p + 1)..(Size + 1)
<1> DEFINE name == PastGroup(p + 1, "(", ")")
           params == PastGroup(name + 1, "[", "]")
           result == PastGroup(params, "(", ")")
<1>1. Size \in Nat /\ p \in Nat /\ p <= Size /\ p + 1 \in 1..(Size + 1)
  BY CodeIsTokens
<1>2. FuncDecl(p).end =
        IF name = 0 \/ ~IsId(name) \/ params = 0 \/ Tok(params) # "(" \/ result = 0
          THEN 0 ELSE ReturnTypeEnd(result)
  BY DEF FuncDecl
<1>3. name = 0 \/ name \in (p + 1)..(Size + 1)
  BY <1>1, PastGroupEnds
<1> HIDE DEF name
<1>4. IsId(name) => name \in 1..Size
  BY CodeIsTokens DEF IsId
<1>5. CASE name = 0 \/ ~IsId(name) \/ params = 0 \/ Tok(params) # "(" \/ result = 0
  BY <1>2, <1>5
<1>6. CASE ~(name = 0 \/ ~IsId(name) \/ params = 0 \/ Tok(params) # "(" \/ result = 0)
  <2>1. name + 1 \in 1..(Size + 1) /\ name > p /\ name \in Nat
    BY <1>1, <1>3, <1>4, <1>6
  <2>2. params \in (name + 1)..(Size + 1)
    BY <1>6, <2>1, PastGroupEnds
  <2> HIDE DEF params
  <2>3. params \in 1..(Size + 1) /\ params > p
    BY <1>1, <2>1, <2>2
  <2>4. result \in params..(Size + 1)
    BY <1>6, <2>3, PastGroupEnds
  <2> HIDE DEF result
  <2>5. result \in 1..(Size + 1) /\ result > p
    BY <1>1, <2>3, <2>4
  <2>6. ReturnTypeEnd(result) = 0 \/ ReturnTypeEnd(result) \in result..(Size + 1)
    BY <2>5, ReturnTypeEnds
  <2> QED BY <1>1, <1>2, <1>6, <2>5, <2>6
<1> QED BY <1>5, <1>6

LEMMA TypeDeclEnds ==
  ASSUME CodeOK, NEW p \in 1..Size
  PROVE  TypeDecl(p).end = 0 \/ TypeDecl(p).end \in (p + 1)..(Size + 1)
<1> DEFINE named == IF IsId(p + 1) THEN p + 2 ELSE p + 1
           assigned == IF Tok(named) = "=" THEN named + 1 ELSE named
           body == PastGroup(assigned, "[", "]")
<1>1. Size \in Nat /\ p \in Nat /\ p <= Size /\ p + 1 \in 1..(Size + 1)
  BY CodeIsTokens
<1>2. TypeDecl(p).end =
        CASE Tok(p + 1) = "(" -> PastGroup(p + 1, "(", ")")
          [] Tok(p + 1) # "(" /\ body = 0 -> 0
          [] Tok(p + 1) # "(" /\ body > Size -> Size + 1
          [] Tok(body) = "struct" -> PastGroup(body + 1, LBRACE, RBRACE)
          [] OTHER -> Boundary(body)
  BY DEF TypeDecl
<1>3. named \in (p + 1)..(Size + 1)
  <2>1. IsId(p + 1) => p + 1 \in 1..Size
    BY CodeIsTokens DEF IsId
  <2> QED BY <1>1, <2>1
<1> HIDE DEF named
<1>4. assigned \in (p + 1)..(Size + 1)
  <2>1. Tok(named) = "=" => named \in 1..Size
    BY CodeIsTokens
  <2> QED BY <1>1, <1>3, <2>1
<1> HIDE DEF assigned
<1>5. assigned \in 1..(Size + 1)
  BY <1>1, <1>4
<1>6. body = 0 \/ body \in (p + 1)..(Size + 1)
  BY <1>1, <1>4, <1>5, PastGroupEnds
<1> HIDE DEF body
<1>7. \/ TypeDecl(p).end = PastGroup(p + 1, "(", ")")
      \/ TypeDecl(p).end = 0
      \/ TypeDecl(p).end = Size + 1
      \/ Tok(body) = "struct" /\ TypeDecl(p).end = PastGroup(body + 1, LBRACE, RBRACE)
      \/ /\ body # 0 /\ ~(body > Size)
         /\ TypeDecl(p).end = Boundary(body)
  BY <1>2
<1>8. CASE TypeDecl(p).end = PastGroup(p + 1, "(", ")")
  BY <1>1, <1>8, PastGroupEnds
<1>9. CASE TypeDecl(p).end = 0 \/ TypeDecl(p).end = Size + 1
  BY <1>1, <1>9
<1>10. CASE Tok(body) = "struct" /\ TypeDecl(p).end = PastGroup(body + 1, LBRACE, RBRACE)
  <2>1. body \in 1..Size
    BY <1>10, CodeIsTokens
  <2>2. body + 1 \in 1..(Size + 1) /\ body > p /\ body \in Nat
    BY <1>1, <1>6, <2>1
  <2>3. \/ PastGroup(body + 1, LBRACE, RBRACE) = 0
        \/ PastGroup(body + 1, LBRACE, RBRACE) \in (body + 1)..(Size + 1)
    BY <2>2, PastGroupEnds
  <2> QED BY <1>1, <1>10, <2>2, <2>3
<1>11. CASE body # 0 /\ ~(body > Size) /\ TypeDecl(p).end = Boundary(body)
  <2>1. body \in 1..(Size + 1) /\ body > p /\ body \in Nat
    BY <1>1, <1>6, <1>11
  <2>2. Boundary(body) \in body..(Size + 1)
    BY <2>1, BoundaryEnds
  <2> QED BY <1>1, <1>11, <2>1, <2>2
<1> QED BY <1>7, <1>8, <1>9, <1>10, <1>11

LEMMA ImportDeclEnds ==
  ASSUME CodeOK, NEW p \in 1..Size
  PROVE  ImportDecl(p).end = 0 \/ ImportDecl(p).end \in (p + 1)..(Size + 1)
<1> DEFINE end == Matching(p + 1, "(", ")")
           path == AfterAlias(p + 1)
<1>1. Size \in Nat /\ p \in Nat /\ p <= Size
  BY CodeIsTokens
<1>2. path \in {p + 1, p + 2}
  BY DEF AfterAlias
<1>3. end = 0 \/ end \in (p + 2)..Size
  BY <1>1, MatchingEnds
<1>4. ImportDecl(p).end =
        IF Tok(p + 1) = "(" THEN IF end = 0 THEN 0 ELSE end + 1
        ELSE IF path > Size THEN Size + 1 ELSE path + 1
  BY DEF ImportDecl
<1> HIDE DEF end, path
<1> QED BY <1>1, <1>2, <1>3, <1>4

LEMMA DeclarationEnds ==
  ASSUME CodeOK, NEW p \in 1..Size, Tok(p) \in {"import", "func", "type"},
         Declaration(p).end # 0
  PROVE  Declaration(p).end \in (p + 1)..(Size + 1)
<1>1. \/ Declaration(p) = ImportDecl(p)
      \/ Declaration(p) = FuncDecl(p)
      \/ Declaration(p) = TypeDecl(p)
  BY DEF Declaration
<1> QED BY <1>1, ImportDeclEnds, FuncDeclEnds, TypeDeclEnds

-----------------------------------------------------------------------------
(* The walk.                                                                *)

RecognizerTypes == CodeOK /\ cursor \in 1..(Size + 1)

(* A step of the walk: it goes on, inside of the file.                       *)
GoesOn == phase = "walk" => cursor' > cursor \/ phase' = "walked"

LEMMA RecognizerSteps ==
  ASSUME RecognizerTypes, [RecognizerNext]_recognizerVars
  PROVE  RecognizerTypes' /\ (GoesOn \/ UNCHANGED recognizerVars)
<1> USE DEF RecognizerTypes
<1>1. Size \in Nat /\ cursor \in Nat /\ 1 <= cursor /\ cursor <= Size + 1
  BY CodeIsTokens
<1>2. code' = code
  BY DEF RecognizerNext, SkipFile, BeginWalk, WalkPackage, WalkVariable, WalkDeclaration,
         Recover, WalkConstruct, WalkToken, Walked, MoveTo, recognizerVars
<1>3. CodeOK' /\ Size' = Size
  BY <1>2 DEF CodeOK, Size
<1> SUFFICES /\ cursor' \in 1..(Size + 1)
             /\ GoesOn \/ UNCHANGED recognizerVars
  BY <1>3
<1>4. ASSUME NEW q \in (cursor + 1)..(Size + 1), cursor' = q
      PROVE  cursor' \in 1..(Size + 1) /\ GoesOn
  BY <1>1, <1>4 DEF GoesOn
<1>5. CASE SkipFile
  BY <1>5 DEF SkipFile, GoesOn
<1>6. CASE BeginWalk
  BY <1>6 DEF BeginWalk, GoesOn
<1>7. CASE WalkPackage
  <2>1. cursor' = IF cursor + 2 <= Size + 1 THEN cursor + 2 ELSE Size + 1
    BY <1>7 DEF WalkPackage, MoveTo
  <2>2. cursor <= Size
    BY <1>7 DEF WalkPackage, Walking
  <2>3. cursor' \in (cursor + 1)..(Size + 1)
    BY <1>1, <2>1, <2>2
  <2> QED BY <1>4, <2>3
<1>8. CASE WalkVariable \/ WalkToken
  <2>1. cursor <= Size /\ cursor' = cursor + 1
    BY <1>8 DEF WalkVariable, WalkToken, Walking, MoveTo
  <2>2. cursor' \in (cursor + 1)..(Size + 1)
    BY <1>1, <2>1
  <2> QED BY <1>4, <2>2
<1>9. CASE WalkDeclaration
  <2>1. /\ cursor <= Size /\ Tok(cursor) \in {"import", "func", "type"}
        /\ Declaration(cursor).end # 0 /\ cursor' = Declaration(cursor).end
    BY <1>9 DEF WalkDeclaration, Walking, MoveTo
  <2>2. cursor' \in (cursor + 1)..(Size + 1)
    <3>1. cursor \in 1..Size
      BY <1>1, <2>1
    <3> QED BY <2>1, <3>1, DeclarationEnds
  <2> QED BY <1>4, <2>2
<1>10. CASE Recover
  <2>1. cursor <= Size /\ cursor' = Boundary(cursor + 1)
    BY <1>10 DEF Recover, Walking, MoveTo
  <2>2. cursor + 1 \in 1..(Size + 1)
    BY <1>1, <2>1
  <2>3. cursor' \in (cursor + 1)..(Size + 1)
    BY <2>1, <2>2, BoundaryEnds
  <2> QED BY <1>4, <2>3
<1>11. CASE WalkConstruct
  <2>1. Recognized[cursor].kind # "none" /\ cursor' = Recognized[cursor].end
    BY <1>11 DEF WalkConstruct, MoveTo
  <2>2. cursor' \in (cursor + 1)..(Size + 1)
    BY <2>1, RecognizedGoesOn
  <2> QED BY <1>4, <2>2
<1>12. CASE Walked
  BY <1>12 DEF Walked, GoesOn
<1>13. CASE UNCHANGED recognizerVars
  BY <1>13 DEF recognizerVars
<1> QED BY <1>5, <1>6, <1>7, <1>8, <1>9, <1>10, <1>11, <1>12, <1>13 DEF RecognizerNext

LEMMA RecognizerStarts == RecognizerInit => RecognizerTypes
<1> SUFFICES ASSUME RecognizerInit PROVE RecognizerTypes
  OBVIOUS
<1>1. CodeOK /\ cursor = 1
  BY SourceAssumption DEF RecognizerInit, CodeOK
<1>2. Size \in Nat
  BY <1>1, CodeIsTokens
<1> QED BY <1>1, <1>2 DEF RecognizerTypes

THEOREM WalkNeverStalls == RecognizerSpec => WalkGetsOn
<1>1. RecognizerTypes /\ [RecognizerNext]_recognizerVars => RecognizerTypes'
  BY RecognizerSteps
<1>2. RecognizerTypes /\ [RecognizerNext]_recognizerVars =>
        [phase = "walk" => cursor' > cursor \/ phase' = "walked"]_recognizerVars
  BY RecognizerSteps DEF GoesOn
<1> QED BY RecognizerStarts, <1>1, <1>2, PTL DEF RecognizerSpec, WalkGetsOn

-----------------------------------------------------------------------------
(* The two readings of the imports.                                         *)

LEMMA ImportEnds ==
  ASSUME CodeOK, NEW p \in 1..Size, Tok(p) = "import"
  PROVE  /\ ImportEnd(p) \in (p + 1)..(Size + 1)
         /\ ClausesWellFormed =>
              \A q \in (p + 1)..(ImportEnd(p) - 1) : Tok(q) # "import"
<1> DEFINE past == PastGroup(p + 1, "(", ")")
           end == Matching(p + 1, "(", ")")
<1>1. Size \in Nat /\ p \in Nat /\ p <= Size /\ p + 1 \in 1..(Size + 1)
  BY CodeIsTokens
<1>2. past = 0 \/ past \in (p + 1)..(Size + 1)
  BY <1>1, PastGroupEnds
<1>3. /\ Tok(p + 1) = "(" => past = IF end = 0 THEN 0 ELSE end + 1
      /\ end = 0 \/ (Tok(end) = ")" /\ end \in (p + 2)..Size)
  BY <1>1, MatchingEnds DEF PastGroup
<1>4. ImportEnd(p) = CASE Tok(p + 1) = "(" -> IF past = 0 THEN Size + 1 ELSE past
                       [] IsString(p + 1) -> p + 2
                       [] OTHER -> IF p + 3 <= Size + 1 THEN p + 3 ELSE Size + 1
  BY DEF ImportEnd
<1> HIDE DEF past, end
<1>5. IsString(p + 1) => p + 1 \in 1..Size /\ Tok(p + 1) # "("
  BY CodeIsTokens DEF IsString
<1>6. \A q : PathAt(q) => Tok(q) # "import"
  BY DEF PathAt, IsString, IsId
<1>7. CASE Tok(p + 1) = "("
  <2>1. ImportEnd(p) = IF past = 0 THEN Size + 1 ELSE past
    BY <1>4, <1>5, <1>7
  <2>2. ASSUME ClausesWellFormed, NEW q \in (p + 1)..(ImportEnd(p) - 1)
        PROVE  Tok(q) # "import"
    <3>1. end # 0 /\ \A r \in (p + 2)..(end - 1) : PathAt(r)
      BY <1>7, <2>2 DEF ClausesWellFormed, end
    <3>2. ImportEnd(p) = end + 1 /\ end \in (p + 2)..Size /\ Tok(end) = ")"
      BY <1>1, <1>3, <1>7, <2>1, <3>1
    <3>3. q = p + 1 \/ q \in (p + 2)..(end - 1) \/ q = end
      BY <1>1, <3>2
    <3> QED BY <1>6, <1>7, <3>1, <3>2, <3>3
  <2>3. ImportEnd(p) = Size + 1 \/ ImportEnd(p) \in (p + 1)..(Size + 1)
    BY <1>2, <2>1
  <2>4. Size + 1 \in (p + 1)..(Size + 1)
    BY <1>1
  <2> QED BY <2>2, <2>3, <2>4
<1>8. CASE IsString(p + 1)
  <2>1. ImportEnd(p) = p + 2
    BY <1>4, <1>5, <1>8
  <2>2. \A q \in (p + 1)..(p + 2 - 1) : q = p + 1
    BY <1>1
  <2> QED BY <1>1, <1>5, <1>8, <2>1, <2>2 DEF IsString
<1>9. CASE Tok(p + 1) # "(" /\ ~IsString(p + 1)
  <2>1. ImportEnd(p) = IF p + 3 <= Size + 1 THEN p + 3 ELSE Size + 1
    BY <1>4, <1>9
  <2>2. ASSUME ClausesWellFormed, NEW q \in (p + 1)..(ImportEnd(p) - 1)
        PROVE  Tok(q) # "import"
    <3>1. PathAt(p + 1)
      BY <1>9, <2>2 DEF ClausesWellFormed
    <3>2. IsString(p + 2)
      BY <1>1, <1>9, <3>1 DEF PathAt
    <3>3. q = p + 1 \/ q = p + 2
      BY <1>1, <2>1
    <3> QED BY <1>6, <3>1, <3>2, <3>3 DEF IsString
  <2> QED BY <1>1, <2>1, <2>2
<1> QED BY <1>7, <1>8, <1>9

CgoBy(scan, p) ==
  IF p > Size THEN FALSE
  ELSE IF Tok(p) # "import" THEN scan[p + 1]
  ELSE CgoAt(p) \/ scan[ImportEnd(p)]

LEMMA CgoSteps ==
  ASSUME CodeOK, NEW p \in 1..(Size + 1), NEW scan,
         \A q \in (p + 1)..(Size + 1) : scan[q] \in BOOLEAN
  PROVE  /\ CgoBy(scan, p) \in BOOLEAN
         /\ \A other : (\A q \in (p + 1)..(Size + 1) : other[q] = scan[q]) =>
                         CgoBy(other, p) = CgoBy(scan, p)
<1>1. Size \in Nat /\ p \in Nat /\ p <= Size + 1
  BY CodeIsTokens
<1>2. CASE p > Size
  BY <1>2 DEF CgoBy
<1>3. CASE ~(p > Size) /\ Tok(p) # "import"
  <2>1. p + 1 \in (p + 1)..(Size + 1)
    BY <1>1, <1>3
  <2>2. \A f : CgoBy(f, p) = f[p + 1]
    BY <1>3 DEF CgoBy
  <2> QED BY <2>1, <2>2
<1>4. CASE ~(p > Size) /\ Tok(p) = "import"
  <2>1. ImportEnd(p) \in (p + 1)..(Size + 1)
    <3>1. p \in 1..Size
      BY <1>1, <1>4
    <3> QED BY <1>4, <3>1, ImportEnds
  <2>2. \A f : CgoBy(f, p) = (CgoAt(p) \/ f[ImportEnd(p)])
    BY <1>4 DEF CgoBy
  <2>3. (CgoAt(p) \/ scan[ImportEnd(p)]) \in BOOLEAN
    OBVIOUS
  <2> QED BY <2>1, <2>2, <2>3
<1> QED BY <1>2, <1>3, <1>4

(* Where imports are whole the pre-pass comes by every one of them.          *)
LEMMA ImportsAreVisited ==
  ASSUME CodeOK, ClausesWellFormed, ~UsesCgo
  PROVE  \A p \in 1..Size : Tok(p) = "import" => ~CgoAt(p)
<1> DEFINE n == Size + 1
           D == 1..n
           rank == FromEnd(1, n)
           R == [p \in D |-> BOOLEAN]
           F == Within(D, R)
           B == [f \in F |-> [p \in D |-> CgoBy(f, p)]]
           scan == CHOOSE f : f = [p \in D |-> CgoBy(f, p)]
           Clear(p) == \A q \in p..Size : Tok(q) = "import" => ~CgoAt(q)
           S == {p \in D : scan[p] = FALSE => Clear(p)}
<1>1. UsesCgo = scan[1]
  BY DEF UsesCgo, CgoBy
<1>2. n \in Nat /\ 1 \in D /\ n = Size + 1 /\ Size \in Nat
  BY CodeIsTokens
<1>3. /\ rank \in [D -> 0..n]
      /\ \A p, q \in D : rank[q] < rank[p] <=> q \in (p + 1)..n
  <2> HIDE DEF n
  <2> QED BY <1>2, FromEndRanks
<1>4. ASSUME NEW p \in D PROVE \A q \in (p + 1)..n : q \in D
  BY <1>2
<1>5. \A p \in D : R[p] = BOOLEAN /\ R[p] # {}
  OBVIOUS
<1> HIDE DEF rank, R
<1>6. \A f \in F : \A p \in D : f[p] \in BOOLEAN
  BY <1>5 DEF Within
<1>7. ASSUME NEW f \in F PROVE [p \in D |-> CgoBy(f, p)] \in F
  <2> DEFINE g == [p \in D |-> CgoBy(f, p)]
  <2>1. \A p \in D : g[p] \in R[p]
    <3> SUFFICES ASSUME NEW p \in D PROVE CgoBy(f, p) \in R[p]
      OBVIOUS
    <3>1. \A q \in (p + 1)..n : f[q] \in BOOLEAN
      BY <1>4, <1>6
    <3> QED BY <1>5, <3>1, CgoSteps
  <2>2. g = [p \in D |-> g[p]]
    OBVIOUS
  <2>3. g \in F
    <3> HIDE DEF g
    <3> QED BY <2>1, <2>2, WithinIs
  <2> QED BY <2>3
<1>8. B \in [F -> F] /\ \A f \in F : \A p \in D : B[f][p] = CgoBy(f, p)
  BY <1>7
<1>9. \A f, g \in F : \A p \in D :
        (\A q \in D : rank[q] < rank[p] => f[q] = g[q]) => B[f][p] = B[g][p]
  <2> SUFFICES ASSUME NEW f \in F, NEW g \in F, NEW p \in D,
                      \A q \in D : rank[q] < rank[p] => f[q] = g[q]
               PROVE  B[f][p] = B[g][p]
    OBVIOUS
  <2>1. \A q \in (p + 1)..n : g[q] \in BOOLEAN /\ f[q] = g[q]
    BY <1>3, <1>4, <1>6
  <2>2. CgoBy(f, p) = CgoBy(g, p)
    BY <2>1, CgoSteps
  <2> QED BY <1>8, <2>2
<1>10. \E f \in F : B[f] = f
  <2>0. \A p \in D : R[p] # {}
    BY <1>5
  <2> HIDE DEF B, n
  <2>1. Descends(B, D, R, rank, n)
    BY <1>2, <1>3, <2>0, <1>8, <1>9 DEF Descends
  <2> QED BY <2>1, Recursion
<1>11. \E f : f = [p \in D |-> CgoBy(f, p)]
  BY <1>10
<1>12. scan = [p \in D |-> CgoBy(scan, p)]
  BY <1>11
<1> HIDE DEF scan
<1>13. \A p \in D : scan[p] = CgoBy(scan, p)
  BY <1>12
<1>14. ASSUME NEW p \in D, \A q \in (p + 1)..n : q \in S PROVE p \in S
  <2> SUFFICES ASSUME scan[p] = FALSE PROVE Clear(p)
    OBVIOUS
  <2>1. p \in Nat /\ 1 <= p /\ p <= Size + 1
    BY <1>2
  <2>2. CASE p > Size
    BY <1>2, <2>1, <2>2
  <2>3. CASE ~(p > Size) /\ Tok(p) # "import"
    <3>0. CgoBy(scan, p) = scan[p + 1]
      BY <2>3 DEF CgoBy
    <3>1. p + 1 \in (p + 1)..n /\ scan[p] = scan[p + 1]
      BY <1>2, <1>13, <2>1, <2>3, <3>0
    <3>2. Clear(p + 1)
      BY <1>14, <3>1
    <3>3. \A q \in p..Size : q = p \/ q \in (p + 1)..Size
      BY <1>2, <2>1
    <3> QED BY <2>3, <3>2, <3>3
  <2>4. CASE ~(p > Size) /\ Tok(p) = "import"
    <3>1. p \in 1..Size
      BY <1>2, <2>1, <2>4
    <3>2. /\ ImportEnd(p) \in (p + 1)..n
          /\ \A q \in (p + 1)..(ImportEnd(p) - 1) : Tok(q) # "import"
      BY <2>4, <3>1, ImportEnds
    <3>3. (CgoAt(p) \/ scan[ImportEnd(p)]) = FALSE
      BY <1>13, <2>4 DEF CgoBy
    <3>4. ~CgoAt(p) /\ ~scan[ImportEnd(p)]
      BY <3>3
    <3>5. ImportEnd(p) \in D
      BY <1>4, <3>2
    <3>6. Clear(ImportEnd(p))
      BY <1>14, <3>2, <3>4, <3>5
    <3>7. \A q \in p..Size : \/ q = p
                             \/ q \in (p + 1)..(ImportEnd(p) - 1)
                             \/ q \in ImportEnd(p)..Size
      BY <1>2, <2>1, <3>2
    <3> QED BY <3>2, <3>4, <3>6, <3>7
  <2> QED BY <2>2, <2>3, <2>4
<1>15. S = D
  <2>1. S \in SUBSET D /\ rank \in [D -> 0..n] /\ n \in Nat
    BY <1>2, <1>3
  <2>2. \A p \in D : (\A q \in D : rank[q] < rank[p] => q \in S) => p \in S
    <3> SUFFICES ASSUME NEW p \in D, \A q \in D : rank[q] < rank[p] => q \in S
                 PROVE  p \in S
      OBVIOUS
    <3>1. \A q \in (p + 1)..n : q \in S
      BY <1>3, <1>4
    <3> QED BY <1>14, <3>1
  <2> HIDE DEF S, D
  <2> QED BY <2>1, <2>2, RankInduction
<1>16. Clear(1)
  BY <1>1, <1>2, <1>15
<1> QED BY <1>16

EventKinds == {"skip_file", "doc", "parse_error", "func", "import", "call", "struct"}

Yielded == [kind : EventKinds, from : Nat, to : Nat]

(* All but an unaliased import "C".                                          *)
Harmless == {e \in Yielded : ~(e.kind = "import" /\ code[e.from] = "C")}

EntriesBy(entries, end, p) ==
  IF p >= end \/ AfterAlias(p) >= end THEN << >>
  ELSE (IF IsString(AfterAlias(p))
          THEN <<Event("import", p, AfterAlias(p) + 1)>> ELSE << >>)
       \o entries[AfterAlias(p) + 1]

(* An entry begins a block or follows the path of another one.               *)
Follows(start, p) == p = start \/ IsString(p - 1)

EntriesFrom(start, p) == IF Follows(start, p) THEN Seq(Harmless) ELSE Seq(Yielded)

WholeBlock(i) ==
  /\ Tok(i + 1) = "(" /\ ~CgoAt(i)
  /\ Matching(i + 1, "(", ")") # 0
  /\ \A q \in (i + 2)..(Matching(i + 1, "(", ")") - 1) : PathAt(q)

LEMMA SequencesOfThem ==
  ASSUME NEW S, NEW s \in Seq(S)
  PROVE  /\ << >> \o s = s
         /\ \A e \in S : <<e>> \o s \in Seq(S)
         /\ \A t \in Seq(S) : s \o t \in Seq(S)
  OBVIOUS

LEMMA EntriesSteps ==
  ASSUME CodeOK, NEW i \in 1..Size, WholeBlock(i),
         NEW p \in (i + 2)..(Matching(i + 1, "(", ")") + 1), NEW entries,
         \A q \in (p + 1)..(Matching(i + 1, "(", ")") + 1) :
           entries[q] \in EntriesFrom(i + 2, q)
  PROVE  /\ EntriesBy(entries, Matching(i + 1, "(", ")"), p) \in EntriesFrom(i + 2, p)
         /\ \A other : (\A q \in (p + 1)..(Matching(i + 1, "(", ")") + 1) :
                          other[q] = entries[q]) =>
              EntriesBy(other, Matching(i + 1, "(", ")"), p)
                = EntriesBy(entries, Matching(i + 1, "(", ")"), p)
<1> DEFINE end == Matching(i + 1, "(", ")")
           path == AfterAlias(p)
           first == IF IsString(path) THEN <<Event("import", p, path + 1)>> ELSE << >>
<1>1. Size \in Nat /\ i \in Nat /\ i <= Size
  BY CodeIsTokens
<1>2. end \in (i + 2)..Size
  BY <1>1, MatchingEnds DEF WholeBlock
<1>3. p \in Nat /\ i + 2 <= p
  BY <1>1, <1>2
<1>4. path \in {p, p + 1} /\ path \in Nat
  BY <1>3 DEF AfterAlias
<1>5. \A f : EntriesBy(f, end, p) =
               IF p >= end \/ path >= end THEN << >> ELSE first \o f[path + 1]
  BY DEF EntriesBy
<1>6. Harmless \in SUBSET Yielded
  BY DEF Harmless
<1>7. CASE p >= end \/ path >= end
  <2>1. << >> \in Seq(Harmless) /\ << >> \in Seq(Yielded)
    OBVIOUS
  <2>2. \A f : EntriesBy(f, end, p) = << >>
    BY <1>5, <1>7
  <2> HIDE DEF end
  <2> QED BY <2>1, <2>2 DEF EntriesFrom, end
<1>8. CASE ~(p >= end \/ path >= end)
  <2>1. path + 1 \in (p + 1)..(end + 1)
    BY <1>2, <1>3, <1>4, <1>8
  <2>2. \A f : EntriesBy(f, end, p) = first \o f[path + 1]
    BY <1>5, <1>8
  <2>3. Event("import", p, path + 1) \in Yielded
    BY <1>3, <1>4 DEF Event, Yielded, EventKinds
  <2>4. entries[path + 1] \in EntriesFrom(i + 2, path + 1)
    BY <2>1
  <2>5. PathAt(p) /\ (IsString(p) <=> path = p) /\ IsString(path)
    <3>1. p \in (i + 2)..(end - 1)
      BY <1>1, <1>2, <1>3, <1>8
    <3>2. PathAt(p)
      BY <3>1 DEF WholeBlock
    <3> QED BY <1>3, <3>2 DEF PathAt, AfterAlias, IsString, IsId
  <2>6. Follows(i + 2, path + 1)
    <3>1. path \in Nat /\ IsString(path)
      BY <1>4, <2>5
    <3> HIDE DEF path
    <3>2. \A q \in Nat : IsString(q) => Follows(i + 2, q + 1)
      <4>1. \A q \in Nat : q + 1 - 1 = q
        OBVIOUS
      <4> QED BY <4>1 DEF Follows
    <3> QED BY <3>1, <3>2
  <2>7. entries[path + 1] \in Seq(Harmless)
    BY <2>4, <2>6 DEF EntriesFrom
  <2>8. first = <<Event("import", p, path + 1)>>
    BY <2>5
  <2>9. ASSUME Follows(i + 2, p) PROVE Event("import", p, path + 1) \in Harmless
    <3>1. p \in 1..Size /\ Tok(p) = code[p]
      <4>1. p \in 1..Size
        BY <1>1, <1>2, <1>3, <1>8
      <4> QED BY <4>1, CodeIsTokens
    <3>2. Tok(p) # "C"
      <4> SUFFICES ASSUME Tok(p) = "C" PROVE FALSE
        OBVIOUS
      <4>1. p \in (i + 2)..end
        BY <1>1, <1>2, <1>3, <1>8
      <4>2. p = i + 2 \/ ~(IsId(p - 1) \/ Tok(p - 1) = ".")
        BY <2>9 DEF Follows, IsString, IsId
      <4> QED BY <4>1, <4>2 DEF WholeBlock, CgoAt
    <3>3. Event("import", p, path + 1).from = p
      BY DEF Event
    <3> QED BY <2>3, <3>1, <3>2, <3>3 DEF Harmless
  <2>10. first \o entries[path + 1] \in EntriesFrom(i + 2, p)
    <3>1. CASE Follows(i + 2, p)
      BY <2>7, <2>8, <2>9, <3>1, SequencesOfThem DEF EntriesFrom
    <3>2. CASE ~Follows(i + 2, p)
      <4>1. entries[path + 1] \in Seq(Yielded)
        BY <1>6, <2>7
      <4> QED BY <2>3, <2>8, <3>2, <4>1, SequencesOfThem DEF EntriesFrom
    <3> QED BY <3>1, <3>2
  <2> HIDE DEF first, path
  <2>11. \A other : (\A q \in (p + 1)..(end + 1) : other[q] = entries[q]) =>
                      EntriesBy(other, end, p) = EntriesBy(entries, end, p)
    BY <2>1, <2>2
  <2> QED BY <2>2, <2>10, <2>11
<1> QED BY <1>7, <1>8

(* Neither form of a whole import yields what the pre-pass looks for.        *)
LEMMA BlockIsHarmless ==
  ASSUME CodeOK, NEW i \in 1..Size, WholeBlock(i)
  PROVE  BlockImports(i + 2, Matching(i + 1, "(", ")")) \in Seq(Harmless)
<1> DEFINE end == Matching(i + 1, "(", ")")
           start == i + 2
           n == end + 1
           D == start..n
           rank == FromEnd(start, n)
           R == [p \in D |-> EntriesFrom(start, p)]
           F == Within(D, R)
           B == [f \in F |-> [p \in D |-> EntriesBy(f, end, p)]]
           entries == CHOOSE f : f = [p \in D |-> EntriesBy(f, end, p)]
           S == {p \in D : entries[p] \in R[p]}
<1>1. BlockImports(start, end) = entries[start]
  BY DEF BlockImports, EntriesBy
<1>2. Size \in Nat /\ i \in Nat /\ end \in (i + 2)..Size
  BY CodeIsTokens, MatchingEnds DEF WholeBlock
<1>3. n \in Nat /\ start \in 1..n /\ start \in D /\ end \in Nat
  BY <1>2
<1>4. ASSUME NEW p \in D, NEW f, \A q \in (p + 1)..n : f[q] \in EntriesFrom(start, q)
      PROVE  /\ EntriesBy(f, end, p) \in EntriesFrom(start, p)
             /\ \A g : (\A q \in (p + 1)..n : g[q] = f[q]) =>
                         EntriesBy(g, end, p) = EntriesBy(f, end, p)
  BY <1>4, EntriesSteps
<1>5. EntriesFrom(start, start) = Seq(Harmless)
  BY DEF EntriesFrom, Follows
<1> HIDE DEF end, start
<1>6. /\ rank \in [D -> 0..n]
      /\ \A p, q \in D : rank[q] < rank[p] <=> q \in (p + 1)..n
  <2> HIDE DEF n
  <2> QED BY <1>3, FromEndRanks
<1>7. ASSUME NEW p \in D PROVE \A q \in (p + 1)..n : q \in D
  BY <1>3
<1>8. \A p \in D : R[p] = EntriesFrom(start, p) /\ R[p] # {}
  <2>1. << >> \in Seq(Harmless) /\ << >> \in Seq(Yielded)
    OBVIOUS
  <2>2. \A p : << >> \in EntriesFrom(start, p)
    BY <2>1 DEF EntriesFrom
  <2> QED BY <2>2
<1> HIDE DEF n, rank, R
<1>9. \A f \in F : \A p \in D : f[p] \in EntriesFrom(start, p)
  BY <1>8 DEF Within
<1>10. ASSUME NEW f \in F PROVE [p \in D |-> EntriesBy(f, end, p)] \in F
  <2> DEFINE g == [p \in D |-> EntriesBy(f, end, p)]
  <2>1. \A p \in D : g[p] \in R[p]
    <3> SUFFICES ASSUME NEW p \in D PROVE EntriesBy(f, end, p) \in R[p]
      OBVIOUS
    <3>1. \A q \in (p + 1)..n : f[q] \in EntriesFrom(start, q)
      BY <1>7, <1>9
    <3> QED BY <1>4, <1>8, <3>1
  <2>2. g = [p \in D |-> g[p]]
    OBVIOUS
  <2>3. g \in F
    <3> HIDE DEF g
    <3> QED BY <2>1, <2>2, WithinIs
  <2> QED BY <2>3
<1>11. B \in [F -> F] /\ \A f \in F : \A p \in D : B[f][p] = EntriesBy(f, end, p)
  BY <1>10
<1>12. \A f, g \in F : \A p \in D :
         (\A q \in D : rank[q] < rank[p] => f[q] = g[q]) => B[f][p] = B[g][p]
  <2> SUFFICES ASSUME NEW f \in F, NEW g \in F, NEW p \in D,
                      \A q \in D : rank[q] < rank[p] => f[q] = g[q]
               PROVE  B[f][p] = B[g][p]
    OBVIOUS
  <2>1. \A q \in (p + 1)..n : g[q] \in EntriesFrom(start, q) /\ f[q] = g[q]
    BY <1>6, <1>7, <1>9
  <2>2. EntriesBy(f, end, p) = EntriesBy(g, end, p)
    BY <1>4, <2>1
  <2> QED BY <1>11, <2>2
<1>13. \E f \in F : B[f] = f
  <2>1. \A p \in D : R[p] # {}
    BY <1>8
  <2> HIDE DEF B
  <2>2. Descends(B, D, R, rank, n)
    BY <1>3, <1>6, <2>1, <1>11, <1>12 DEF Descends
  <2> QED BY <2>2, Recursion
<1>14. \E f : f = [p \in D |-> EntriesBy(f, end, p)]
  BY <1>13
<1>15. entries = [p \in D |-> EntriesBy(entries, end, p)]
  BY <1>14
<1> HIDE DEF entries
<1>16. \A p \in D : entries[p] = EntriesBy(entries, end, p)
  BY <1>15
<1>17. \A p \in D : (\A q \in D : rank[q] < rank[p] => q \in S) => p \in S
  <2> SUFFICES ASSUME NEW p \in D, \A q \in D : rank[q] < rank[p] => q \in S
               PROVE  p \in S
    OBVIOUS
  <2>1. \A q \in (p + 1)..n : entries[q] \in EntriesFrom(start, q)
    BY <1>6, <1>7, <1>8
  <2>2. EntriesBy(entries, end, p) \in EntriesFrom(start, p)
    BY <1>4, <2>1
  <2> QED BY <1>8, <1>16, <2>2
<1>18. S = D
  <2>1. S \in SUBSET D /\ rank \in [D -> 0..n] /\ n \in Nat
    BY <1>3, <1>6
  <2> HIDE DEF S, D
  <2> QED BY <1>17, <2>1, RankInduction
<1>19. entries[start] \in EntriesFrom(start, start)
  BY <1>3, <1>8, <1>18
<1> QED BY <1>1, <1>5, <1>19 DEF start, end

LEMMA ImportIsHarmless ==
  ASSUME CodeOK, ClausesWellFormed, NEW p \in 1..Size, Tok(p) = "import", ~CgoAt(p)
  PROVE  ImportDecl(p).yields \in Seq(Harmless)
<1> DEFINE end == Matching(p + 1, "(", ")")
           path == AfterAlias(p + 1)
           event == Event("import", p + 1, path + 1)
<1>1. << >> \in Seq(Harmless)
  OBVIOUS
<1>2. p \in Nat /\ Size \in Nat
  BY CodeIsTokens
<1>3. CASE Tok(p + 1) = "("
  <2>1. WholeBlock(p)
    BY <1>3 DEF ClausesWellFormed, WholeBlock
  <2>2. ImportDecl(p).yields = BlockImports(p + 2, end)
    BY <1>3, <2>1 DEF ImportDecl, WholeBlock
  <2> QED BY <2>1, <2>2, BlockIsHarmless
<1>4. CASE Tok(p + 1) # "("
  <2>1. ImportDecl(p).yields = IF IsString(path) THEN <<event>> ELSE << >>
    BY <1>4 DEF ImportDecl
  <2>2. path \in Nat
    BY <1>2 DEF AfterAlias
  <2>3. event \in Yielded /\ event.from = p + 1
    BY <1>2, <2>2 DEF Event, Yielded, EventKinds
  <2>4. PathAt(p + 1) /\ Tok(p + 1) # "C"
    BY <1>4 DEF ClausesWellFormed, CgoAt
  <2>5. Tok(p + 1) # "EOF"
    BY <2>4 DEF PathAt, IsString, IsId
  <2>6. Tok(p + 1) = code[p + 1]
    BY <2>5, CodeIsTokens
  <2> HIDE DEF event, path
  <2>7. event \in Harmless
    BY <2>3, <2>4, <2>6 DEF Harmless
  <2> QED BY <1>1, <2>1, <2>7
<1> QED BY <1>3, <1>4

LEMMA SameMatching ==
  ASSUME code' = code, NEW p, NEW open, NEW close
  PROVE  Matching(p, open, close)' = Matching(p, open, close)
<1>1. Size' = Size /\ \A q : Tok(q)' = Tok(q)
  BY DEF Size, Tok
<1>2. \A kind, i, j : Occurrences(kind, i, j)' = Occurrences(kind, i, j)
  <2> SUFFICES ASSUME NEW kind, NEW i, NEW j
               PROVE  Occurrences(kind, i, j)' = Occurrences(kind, i, j)
    OBVIOUS
  <2>1. {r \in i..j : code'[r] = kind} = {r \in i..j : code[r] = kind}
    OBVIOUS
  <2> QED BY <2>1 DEF Occurrences
<1>3. {q \in (p + 1)..Size : /\ code[q] = close
                             /\ Occurrences(open, p, q) = Occurrences(close, p, q)}'
      = {q \in (p + 1)..Size : /\ code[q] = close
                               /\ Occurrences(open, p, q) = Occurrences(close, p, q)}
  BY <1>1, <1>2
<1> QED BY <1>1, <1>3 DEF Matching

LEMMA SameImports ==
  ASSUME code' = code
  PROVE  /\ \A p : CgoAt(p)' <=> CgoAt(p)
         /\ ClausesWellFormed' <=> ClausesWellFormed
         /\ Harmless' = Harmless
<1>1. /\ Size' = Size
      /\ \A q : /\ Tok(q)' = Tok(q)
                /\ IsString(q)' <=> IsString(q)
                /\ IsId(q)' <=> IsId(q)
  BY DEF Size, Tok, IsString, IsId
<1>2. \A p : Matching(p, "(", ")")' = Matching(p, "(", ")")
  BY SameMatching
<1>3. \A p : CgoAt(p)' <=> CgoAt(p)
  BY <1>1, <1>2 DEF CgoAt
<1>4. \A q : PathAt(q)' <=> PathAt(q)
  BY <1>1 DEF PathAt
<1>5. ClausesWellFormed' <=> ClausesWellFormed
  BY <1>1, <1>2, <1>4 DEF ClausesWellFormed
<1>6. Harmless' = Harmless
  BY DEF Harmless
<1> QED BY <1>3, <1>5, <1>6

NoCgo == \A p \in 1..Size : Tok(p) = "import" => ~CgoAt(p)

ImportsInv ==
  /\ phase = "scan" => events = << >>
  /\ ClausesWellFormed => /\ phase = "walk" => NoCgo
                          /\ events \in Seq(Harmless)

LEMMA DeclarationIsHarmless ==
  ASSUME CodeOK, ClausesWellFormed, NoCgo, NEW p \in 1..Size,
         Tok(p) \in {"import", "func", "type"}, Declaration(p).end # 0
  PROVE  Declaration(p).yields \in Seq(Harmless)
<1>1. CASE Tok(p) = "import"
  <2>1. Declaration(p) = ImportDecl(p)
    BY <1>1 DEF Declaration
  <2> QED BY <1>1, <2>1, ImportIsHarmless DEF NoCgo
<1>2. CASE Tok(p) = "func"
  <2>1. Declaration(p) = FuncDecl(p)
    BY <1>2 DEF Declaration
  <2>2. FuncDecl(p).end \in Nat
    BY <2>1, CodeIsTokens, FuncDeclEnds
  <2>3. \/ FuncDecl(p).yields = << >>
        \/ FuncDecl(p).yields = <<Event("func", p, FuncDecl(p).end)>>
    BY DEF FuncDecl
  <2>4. Event("func", p, FuncDecl(p).end) \in Harmless
    BY <2>2 DEF Event, Yielded, EventKinds, Harmless
  <2>5. /\ << >> \in Seq(Harmless)
        /\ <<Event("func", p, FuncDecl(p).end)>> \in Seq(Harmless)
    BY <2>4
  <2> QED BY <2>1, <2>3, <2>5
<1>3. CASE Tok(p) = "type"
  <2>1. Declaration(p).yields = << >>
    BY <1>3 DEF Declaration, TypeDecl
  <2> QED BY <2>1
<1> QED BY <1>1, <1>2, <1>3

(* MoveTo with what may be yielded.                                          *)
LEMMA YieldsAdd ==
  ASSUME CodeOK, phase = "walk", ImportsInv, code' = code, phase' = phase,
         NEW new, ClausesWellFormed => new \in Seq(Harmless), events' = events \o new
  PROVE  ImportsInv'
<1>1. /\ ClausesWellFormed' <=> ClausesWellFormed
      /\ Harmless' = Harmless
      /\ \A p : CgoAt(p)' <=> CgoAt(p)
  BY SameImports
<1>2. NoCgo' <=> NoCgo
  <2>1. Size' = Size /\ \A q : Tok(q)' = Tok(q)
    BY DEF Size, Tok
  <2> QED BY <1>1, <2>1 DEF NoCgo
<1>3. ClausesWellFormed => events \o new \in Seq(Harmless)
  BY SequencesOfThem DEF ImportsInv
<1> QED BY <1>1, <1>2, <1>3 DEF ImportsInv

LEMMA ImportsSteps ==
  ASSUME RecognizerTypes, ImportsInv, [RecognizerNext]_recognizerVars
  PROVE  ImportsInv'
<1>1. CodeOK /\ Size \in Nat /\ cursor \in Nat /\ (cursor <= Size => cursor \in 1..Size)
  BY CodeIsTokens DEF RecognizerTypes
<1>2. code' = code
  BY DEF RecognizerNext, SkipFile, BeginWalk, WalkPackage, WalkVariable, WalkDeclaration,
         Recover, WalkConstruct, WalkToken, Walked, MoveTo, recognizerVars
<1>3. /\ ClausesWellFormed' <=> ClausesWellFormed
      /\ Harmless' = Harmless
      /\ \A p : CgoAt(p)' <=> CgoAt(p)
  BY <1>2, SameImports
<1>4. NoCgo' <=> NoCgo
  <2>1. Size' = Size /\ \A q : Tok(q)' = Tok(q)
    BY <1>2 DEF Size, Tok
  <2> QED BY <1>3, <2>1 DEF NoCgo
<1>5. \A kind \in {"skip_file", "doc", "parse_error", "call", "struct"}, i, j \in Nat :
        Event(kind, i, j) \in Harmless
  BY DEF Event, Yielded, EventKinds, Harmless
<1>6. << >> \in Seq(Harmless)
  OBVIOUS
<1>7. CASE SkipFile
  <2>1. events' = <<Event("skip_file", 1, 1)>> /\ phase' = "skipped"
    BY <1>7 DEF SkipFile
  <2>2. events' \in Seq(Harmless)
    BY <1>5, <2>1
  <2> QED BY <1>3, <2>1, <2>2 DEF ImportsInv
<1>8. CASE BeginWalk
  <2>1. /\ events' = << >> \/ events' = <<Event("doc", 1, 1)>>
        /\ phase' = "walk" /\ ~UsesCgo
    BY <1>8 DEF BeginWalk
  <2>2. events' \in Seq(Harmless)
    <3>1. <<Event("doc", 1, 1)>> \in Seq(Harmless)
      BY <1>5
    <3> QED BY <1>6, <2>1, <3>1
  <2>3. ClausesWellFormed => NoCgo
    BY <1>1, <2>1, ImportsAreVisited DEF NoCgo
  <2> QED BY <1>3, <1>4, <2>1, <2>2, <2>3 DEF ImportsInv
<1>9. CASE WalkPackage \/ WalkVariable \/ WalkToken
  <2>1. phase = "walk" /\ phase' = phase /\ events' = events \o << >>
    BY <1>9 DEF WalkPackage, WalkVariable, WalkToken, Walking, MoveTo
  <2> QED BY <1>1, <1>2, <1>6, <2>1, YieldsAdd
<1>10. CASE WalkDeclaration
  <2>1. /\ cursor <= Size /\ Tok(cursor) \in {"import", "func", "type"}
        /\ Declaration(cursor).end # 0
        /\ phase = "walk" /\ phase' = phase
        /\ events' = events \o Declaration(cursor).yields
    BY <1>10 DEF WalkDeclaration, Walking, MoveTo
  <2>2. ClausesWellFormed => Declaration(cursor).yields \in Seq(Harmless)
    BY <1>1, <2>1, DeclarationIsHarmless DEF ImportsInv
  <2> QED BY <1>1, <1>2, <2>1, <2>2, YieldsAdd
<1>11. CASE Recover
  <2> DEFINE resume == Boundary(cursor + 1)
  <2>1. /\ cursor <= Size /\ phase = "walk" /\ phase' = phase
        /\ events' = events \o <<Event("parse_error", cursor, resume)>>
    BY <1>11 DEF Recover, Walking, MoveTo
  <2>2. cursor + 1 \in 1..(Size + 1)
    BY <1>1, <2>1
  <2>3. resume \in Nat
    BY <1>1, <2>2, BoundaryEnds
  <2>4. <<Event("parse_error", cursor, resume)>> \in Seq(Harmless)
    BY <1>1, <1>5, <2>3
  <2> QED BY <1>1, <1>2, <2>1, <2>4, YieldsAdd
<1>12. CASE WalkConstruct
  <2> DEFINE m == Recognized[cursor]
  <2>1. /\ cursor <= Size /\ phase = "walk" /\ phase' = phase
        /\ m.kind # "none"
        /\ events' = events \o <<Event(m.kind, cursor, m.end)>>
    BY <1>12 DEF WalkConstruct, Walking, MoveTo
  <2>2. cursor \in 1..(Size + 1)
    BY DEF RecognizerTypes
  <2>3. m.kind \in {"call", "struct"} /\ m.end \in Nat
    BY <1>1, <2>1, <2>2, RecognizedGoesOn
  <2>4. <<Event(m.kind, cursor, m.end)>> \in Seq(Harmless)
    BY <1>1, <1>5, <2>3
  <2> QED BY <1>1, <1>2, <2>1, <2>4, YieldsAdd
<1>13. CASE Walked \/ UNCHANGED recognizerVars
  <2>1. events' = events /\ (phase' = "walked" \/ phase' = phase)
    BY <1>13 DEF Walked, recognizerVars
  <2> QED BY <1>3, <1>4, <2>1 DEF ImportsInv
<1> QED BY <1>7, <1>8, <1>9, <1>10, <1>11, <1>12, <1>13 DEF RecognizerNext

LEMMA HarmlessIsSkipped == ImportsInv => CgoIsSkipped
<1> SUFFICES ASSUME ClausesWellFormed, events \in Seq(Harmless), NEW k \in DOMAIN events
             PROVE  ~(events[k].kind = "import" /\ code[events[k].from] = "C")
  BY DEF ImportsInv, CgoIsSkipped
<1>1. events[k] \in Harmless
  OBVIOUS
<1> QED BY <1>1 DEF Harmless

THEOREM CgoNeverWalked == RecognizerSpec => []CgoIsSkipped
<1>1. RecognizerInit => RecognizerTypes /\ ImportsInv
  <2>1. << >> \in Seq(Harmless)
    OBVIOUS
  <2> QED BY <2>1, RecognizerStarts DEF RecognizerInit, ImportsInv
<1>2. RecognizerTypes /\ ImportsInv /\ [RecognizerNext]_recognizerVars =>
        (RecognizerTypes /\ ImportsInv)'
  BY RecognizerSteps, ImportsSteps
<1> QED BY <1>1, <1>2, HarmlessIsSkipped, PTL DEF RecognizerSpec

-----------------------------------------------------------------------------
(* The nesting of a file with balanced brackets.                            *)

Pairs == {<<"(", ")">>, <<LBRACE, RBRACE>>, <<"[", "]">>}

Openers == {"(", LBRACE, "["}
Closers == {")", RBRACE, "]"}

LEMMA KindsDiffer ==
  /\ LBRACE \notin {"(", "[", ")", "]", RBRACE, COMMA, "EOF", ".", ":", "id", "var"}
  /\ RBRACE \notin {"(", "[", ")", "]", LBRACE, COMMA, "EOF", ".", ":", "id", "var"}
  /\ COMMA \notin {"(", "[", ")", "]", LBRACE, RBRACE, "EOF"}
  /\ LBRACE \notin {"import", "func", "type", "package", "struct", "str", "C", "num", "&", "="}
  /\ RBRACE \notin {"import", "func", "type", "package", "struct", "str", "C", "num", "&", "="}
  BY Zenon DEF LBRACE, RBRACE, COMMA

LEMMA BracketKinds ==
  /\ \A o \in Openers : o \notin Closers
  /\ \A b \in Pairs : b[1] \in Openers /\ b[2] \in Closers
  /\ \A o \in Openers : \E b \in Pairs : b[1] = o
  /\ \A c \in Closers : \E b \in Pairs : b[2] = c
  /\ \A a, b \in Pairs : a[1] = b[1] <=> a[2] = b[2]
  BY KindsDiffer DEF Pairs, Openers, Closers

Nesting(p) == Opens(p) - Closes(p)

LEMMA CountOne ==
  ASSUME NEW p \in Nat, 1 <= p, NEW K
  PROVE  /\ Cardinality({q \in 1..(p - 1) : code[q] \in K}) \in Nat
         /\ Cardinality({q \in 1..(p + 1 - 1) : code[q] \in K}) =
              Cardinality({q \in 1..(p - 1) : code[q] \in K})
                + (IF code[p] \in K THEN 1 ELSE 0)
<1> DEFINE A == {q \in 1..(p - 1) : code[q] \in K}
           B == {q \in 1..(p + 1 - 1) : code[q] \in K}
<1>1. IsFiniteSet(A)
  <2>1. IsFiniteSet(1..(p - 1)) /\ A \in SUBSET (1..(p - 1))
    BY FS_Interval
  <2> QED BY <2>1, FS_Subset
<1>2. Cardinality(A) \in Nat /\ p \notin A
  BY <1>1, FS_CardinalityType
<1>3. \A q : q \in 1..(p + 1 - 1) <=> q = p \/ q \in 1..(p - 1)
  OBVIOUS
<1>4. CASE code[p] \in K
  <2>1. \A q : q \in B <=> q \in A \cup {p}
    BY <1>3, <1>4
  <2>2. B = A \cup {p}
    BY <2>1
  <2>3. Cardinality(A \cup {p}) = Cardinality(A) + 1
    BY <1>1, <1>2, FS_AddElement
  <2> QED BY <1>2, <1>4, <2>2, <2>3
<1>5. CASE code[p] \notin K
  <2>1. \A q : q \in B <=> q \in A
    BY <1>3, <1>5
  <2>2. B = A
    BY <2>1
  <2> QED BY <1>2, <1>5, <2>2
<1> QED BY <1>4, <1>5

(* What the balance of the brackets says of the nesting.                     *)
Nested ==
  /\ \A p \in 1..(Size + 1) : Nesting(p) \in Nat
  /\ Nesting(1) = 0 /\ Nesting(Size + 1) = 0
  /\ \A p \in 1..Size :
       /\ Tok(p) \in Openers => Nesting(p + 1) = Nesting(p) + 1
       /\ Tok(p) \in Closers => Nesting(p + 1) + 1 = Nesting(p)
       /\ Tok(p) \notin Openers \cup Closers => Nesting(p + 1) = Nesting(p)
  /\ \A b \in Pairs, p \in 1..Size : Tok(p) = b[1] =>
       \E q \in (p + 1)..Size :
         /\ Tok(q) = b[2] /\ Nesting(q + 1) = Nesting(p)
         /\ \A r \in (p + 1)..q : Nesting(r) > Nesting(p)

LEMMA BalanceNests ==
  ASSUME CodeOK, BracketsBalance
  PROVE  Nested
<1>1. Size \in Nat /\ \A p \in 1..Size : Tok(p) = code[p]
  BY CodeIsTokens
<1>2. /\ \A p \in 1..(Size + 1) : Opens(p) \in Nat /\ Closes(p) \in Nat
      /\ \A p \in 1..Size :
           /\ Opens(p + 1) = Opens(p) + (IF Tok(p) \in Openers THEN 1 ELSE 0)
           /\ Closes(p + 1) = Closes(p) + (IF Tok(p) \in Closers THEN 1 ELSE 0)
  <2>1. ASSUME NEW p \in 1..(Size + 1) PROVE Opens(p) \in Nat /\ Closes(p) \in Nat
    <3>1. p \in Nat /\ 1 <= p
      BY <1>1
    <3> QED BY <3>1, CountOne DEF Opens, Closes
  <2>2. ASSUME NEW p \in 1..Size
        PROVE  /\ Opens(p + 1) = Opens(p) + (IF Tok(p) \in Openers THEN 1 ELSE 0)
               /\ Closes(p + 1) = Closes(p) + (IF Tok(p) \in Closers THEN 1 ELSE 0)
    <3>1. p \in Nat /\ 1 <= p
      BY <1>1
    <3>2. Tok(p) = code[p]
      BY <1>1
    <3>3. ASSUME NEW K
          PROVE  Cardinality({q \in 1..(p + 1 - 1) : code[q] \in K}) =
                   Cardinality({q \in 1..(p - 1) : code[q] \in K})
                     + (IF Tok(p) \in K THEN 1 ELSE 0)
      BY <3>1, <3>2, CountOne
    <3>6. /\ Opens(p + 1) = Cardinality({q \in 1..(p + 1 - 1) : code[q] \in Openers})
          /\ Opens(p) = Cardinality({q \in 1..(p - 1) : code[q] \in Openers})
      BY DEF Opens, Openers
    <3>7. /\ Closes(p + 1) = Cardinality({q \in 1..(p + 1 - 1) : code[q] \in Closers})
          /\ Closes(p) = Cardinality({q \in 1..(p - 1) : code[q] \in Closers})
      BY DEF Closes, Closers
    <3>8. Opens(p + 1) = Opens(p) + (IF Tok(p) \in Openers THEN 1 ELSE 0)
      BY <3>3, <3>6, Zenon
    <3>9. Closes(p + 1) = Closes(p) + (IF Tok(p) \in Closers THEN 1 ELSE 0)
      BY <3>3, <3>7, Zenon
    <3> QED BY <3>8, <3>9
  <2> QED BY <2>1, <2>2
<1>3. Opens(1) = 0 /\ Closes(1) = 0
  <2>1. \A K : {q \in 1..(1 - 1) : code[q] \in K} = {}
    OBVIOUS
  <2>2. Cardinality({}) = 0
    BY FS_EmptySet
  <2> QED BY <2>1, <2>2 DEF Opens, Closes
<1>4. \A p \in 1..(Size + 1) : Nesting(p) \in Nat
  BY <1>2 DEF BracketsBalance, Nesting
<1>5. Nesting(1) = 0 /\ Nesting(Size + 1) = 0
  BY <1>1, <1>2, <1>3 DEF BracketsBalance, Nesting
<1>6. ASSUME NEW p \in 1..Size
      PROVE  /\ Tok(p) \in Openers => Nesting(p + 1) = Nesting(p) + 1
             /\ Tok(p) \in Closers => Nesting(p + 1) + 1 = Nesting(p)
             /\ Tok(p) \notin Openers \cup Closers => Nesting(p + 1) = Nesting(p)
  <2>1. p \in 1..(Size + 1) /\ p + 1 \in 1..(Size + 1)
    BY <1>1
  <2>2. /\ Opens(p) \in Nat /\ Closes(p) \in Nat
        /\ Opens(p + 1) \in Nat /\ Closes(p + 1) \in Nat
    BY <1>2, <2>1
  <2>3. CASE Tok(p) \in Openers
    <3>1. Opens(p + 1) = Opens(p) + 1 /\ Closes(p + 1) = Closes(p)
      BY <1>2, <2>2, <2>3, BracketKinds
    <3> QED BY <2>2, <2>3, <3>1, BracketKinds DEF Nesting
  <2>4. CASE Tok(p) \in Closers
    <3>1. Opens(p + 1) = Opens(p) /\ Closes(p + 1) = Closes(p) + 1
      BY <1>2, <2>2, <2>4, BracketKinds
    <3> QED BY <2>2, <2>4, <3>1, BracketKinds DEF Nesting
  <2>5. CASE Tok(p) \notin Openers \cup Closers
    <3>1. Opens(p + 1) = Opens(p) /\ Closes(p + 1) = Closes(p)
      BY <1>2, <2>2, <2>5
    <3> QED BY <2>5, <3>1 DEF Nesting
  <2> QED BY <2>3, <2>4, <2>5
<1>7. ASSUME NEW b \in Pairs, NEW p \in 1..Size, Tok(p) = b[1]
      PROVE  \E q \in (p + 1)..Size :
               /\ Tok(q) = b[2] /\ Nesting(q + 1) = Nesting(p)
               /\ \A r \in (p + 1)..q : Nesting(r) > Nesting(p)
  <2>1. PICK q \in (p + 1)..Size :
          /\ code[q] = b[2] /\ Nesting(q) = Nesting(p) + 1
          /\ \A r \in (p + 1)..q : Nesting(r) > Nesting(p)
    BY <1>1, <1>7 DEF BracketsBalance, Pairs, Nesting
  <2>2. q \in 1..Size /\ Tok(q) = b[2] /\ p \in 1..(Size + 1) /\ q + 1 \in 1..(Size + 1)
    BY <1>1, <2>1
  <2>3. Nesting(q + 1) + 1 = Nesting(q)
    BY <1>6, <2>2, BracketKinds
  <2>4. Nesting(q + 1) = Nesting(p)
    BY <1>4, <2>1, <2>2, <2>3
  <2> QED BY <2>1, <2>2, <2>4
<1> QED BY <1>4, <1>5, <1>6, <1>7 DEF Nested

-----------------------------------------------------------------------------
(* Stretches of text that close what they open.                             *)

Even(c, e) ==
  /\ c \in 1..(Size + 1) /\ e \in c..(Size + 1)
  /\ Nesting(e) = Nesting(c)
  /\ \A r \in c..e : Nesting(r) >= Nesting(c)

LEMMA EvenJoin ==
  ASSUME CodeOK, Nested, NEW c, NEW d, NEW e, Even(c, d), Even(d, e)
  PROVE  Even(c, e)
<1>1. Size \in Nat /\ \A p \in 1..(Size + 1) : Nesting(p) \in Nat
  BY CodeIsTokens DEF Nested
<1>2. /\ c \in 1..(Size + 1) /\ d \in c..(Size + 1) /\ e \in d..(Size + 1)
      /\ d \in 1..(Size + 1) /\ e \in 1..(Size + 1) /\ e \in c..(Size + 1)
  BY <1>1 DEF Even
<1>3. Nesting(e) = Nesting(c) /\ Nesting(d) = Nesting(c)
  BY DEF Even
<1>4. ASSUME NEW r \in c..e PROVE Nesting(r) >= Nesting(c)
  <2>1. r \in c..d \/ r \in d..e
    BY <1>2
  <2> QED BY <1>3, <2>1 DEF Even
<1> QED BY <1>2, <1>3, <1>4 DEF Even

LEMMA EvenStart ==
  ASSUME CodeOK, Nested, NEW p \in 1..(Size + 1)
  PROVE  Even(p, p)
<1>1. Size \in Nat /\ Nesting(p) \in Nat
  BY CodeIsTokens DEF Nested
<1>2. \A r \in p..p : r = p
  BY <1>1
<1> QED BY <1>1, <1>2 DEF Even

(* A token that is no bracket.                                               *)
Plain(p) == p \in 1..Size /\ Tok(p) \notin Openers \cup Closers

LEMMA PlainTokens ==
  ASSUME CodeOK, NEW p
  PROVE  /\ IsId(p) \/ IsString(p) => Plain(p)
         /\ Tok(p) \in {".", "num", "&", ":", "=", "struct", COMMA} => Plain(p)
         /\ TopLevelKeyword(p) => Plain(p)
<1>1. \A kind \in Openers \cup Closers :
        kind \notin {"id", "var", "str", "C", ".", "num", "&", ":", "=", "struct", COMMA,
                     "package", "import", "func", "type"}
  BY KindsDiffer DEF Openers, Closers
<1>2. "EOF" \notin {"id", "var", "str", "C", ".", "num", "&", ":", "=", "struct", COMMA,
                    "package", "import", "func", "type"}
  BY KindsAreNotEOF
<1>3. Tok(p) \in {"id", "var", "str", "C", ".", "num", "&", ":", "=", "struct", COMMA,
                  "package", "import", "func", "type"} => Plain(p)
  BY <1>1, <1>2, CodeIsTokens DEF Plain
<1> QED BY <1>3 DEF IsId, IsString, TopLevelKeyword

LEMMA EvenPlain ==
  ASSUME CodeOK, Nested, NEW p, Plain(p)
  PROVE  Even(p, p + 1)
<1>1. /\ Size \in Nat /\ p \in 1..Size /\ p \in 1..(Size + 1) /\ p + 1 \in p..(Size + 1)
      /\ Nesting(p) \in Nat
  BY CodeIsTokens DEF Nested, Plain
<1>2. Nesting(p + 1) = Nesting(p)
  BY <1>1 DEF Nested, Plain
<1>3. \A r \in p..(p + 1) : r = p \/ r = p + 1
  BY <1>1
<1> QED BY <1>1, <1>2, <1>3 DEF Even

LEMMA EvenPlains ==
  ASSUME CodeOK, Nested, NEW c \in 1..(Size + 1), NEW e \in c..(Size + 1),
         \A r \in c..(e - 1) : Plain(r)
  PROVE  Even(c, e)
<1> DEFINE S == {r \in c..e : Even(c, r)}
<1>1. Size \in Nat /\ c \in Nat /\ e \in Nat
  BY CodeIsTokens
<1>2. c \in S
  BY <1>1, EvenStart
<1>3. ASSUME NEW q \in c..e, q < e, q \in S PROVE q + 1 \in S
  <2>1. q \in c..(e - 1) /\ q + 1 \in c..e
    BY <1>1, <1>3
  <2>2. Even(c, q + 1)
    BY <1>3, <2>1, EvenPlain, EvenJoin
  <2> QED BY <2>1, <2>2
<1>4. \A q \in c..e : q \in S
  <2> HIDE DEF S
  <2> QED BY <1>1, <1>2, <1>3, Upwards
<1>5. e \in c..e
  BY <1>1
<1> QED BY <1>4, <1>5

(* From a bracket past the one that closes it.                               *)
LEMMA EvenGroup ==
  ASSUME CodeOK, Nested, NEW p \in 1..Size, NEW q \in (p + 1)..Size,
         Tok(p) \in Openers, Tok(q) \in Closers, Even(p + 1, q)
  PROVE  /\ Even(p, q + 1)
         /\ \A r \in (p + 1)..q : Nesting(r) > Nesting(p)
<1>1. /\ Size \in Nat /\ p \in Nat /\ q \in Nat /\ q \in 1..Size
      /\ p \in 1..(Size + 1) /\ q \in 1..(Size + 1) /\ q + 1 \in p..(Size + 1)
  BY CodeIsTokens
<1>2. Nesting(p) \in Nat /\ Nesting(q) \in Nat /\ Nesting(q + 1) \in Nat
  <2>1. q + 1 \in 1..(Size + 1)
    BY <1>1
  <2> QED BY <1>1, <2>1 DEF Nested
<1>3. Nesting(p + 1) = Nesting(p) + 1 /\ Nesting(q + 1) + 1 = Nesting(q)
  BY <1>1 DEF Nested
<1>4. Nesting(q) = Nesting(p + 1) /\ \A r \in (p + 1)..q : Nesting(r) >= Nesting(p + 1)
  BY DEF Even
<1>5. Nesting(q + 1) = Nesting(p)
  BY <1>2, <1>3, <1>4
<1>6. ASSUME NEW r \in (p + 1)..q PROVE Nesting(r) > Nesting(p)
  <2>1. r \in 1..(Size + 1)
    BY <1>1
  <2>2. Nesting(r) \in Nat
    BY <2>1 DEF Nested
  <2> QED BY <1>2, <1>3, <1>4, <2>2
<1>7. ASSUME NEW r \in p..(q + 1) PROVE Nesting(r) >= Nesting(p)
  <2>1. r = p \/ r = q + 1 \/ r \in (p + 1)..q
    BY <1>1
  <2>2. r \in 1..(Size + 1)
    BY <1>1
  <2>3. Nesting(r) \in Nat
    BY <2>2 DEF Nested
  <2> QED BY <1>2, <1>5, <1>6, <2>1, <2>3
<1> QED BY <1>1, <1>5, <1>6, <1>7 DEF Even

-----------------------------------------------------------------------------
(* The brackets that are open at a place.                                   *)

(* Every bracket that closes closes one of its kind.                         *)
LEMMA ClosesOne ==
  ASSUME CodeOK, Nested, NEW q \in 1..Size, Tok(q) \in Closers
  PROVE  \E b \in Pairs, p \in 1..(q - 1) :
           /\ Tok(p) = b[1] /\ Tok(q) = b[2] /\ Nesting(p) = Nesting(q + 1)
           /\ \A r \in (p + 1)..q : Nesting(r) > Nesting(p)
<1> DEFINE T == {p \in 1..q : Nesting(p) < Nesting(q)}
<1>1. /\ Size \in Nat /\ q \in Nat /\ 1 \in 1..q
      /\ \A r \in 1..(q + 1) : r \in 1..(Size + 1) /\ Nesting(r) \in Nat
  <2>1. Size \in Nat /\ q \in Nat /\ 1 \in 1..q
    BY CodeIsTokens
  <2>2. \A r \in 1..(q + 1) : r \in 1..(Size + 1)
    BY <2>1
  <2> QED BY <2>1, <2>2 DEF Nested
<1>2. Nesting(q + 1) + 1 = Nesting(q) /\ Nesting(q) > 0
  <2>1. Nesting(q + 1) + 1 = Nesting(q)
    BY DEF Nested
  <2>2. Nesting(q + 1) \in Nat
    BY <1>1
  <2> QED BY <2>1, <2>2
<1>3. 1 \in T /\ T \in SUBSET (0..q)
  <2>1. Nesting(1) = 0
    BY DEF Nested
  <2> QED BY <1>1, <1>2, <2>1
<1>4. PICK m \in T : \A p \in T : p <= m
  <2> HIDE DEF T
  <2> QED BY <1>1, <1>3, GreatestElement
<1>5. m \in 1..q /\ Nesting(m) < Nesting(q) /\ Nesting(m) \in Nat /\ Nesting(q) \in Nat
  BY <1>1
<1>6. m # q /\ m \in 1..(q - 1) /\ m \in 1..Size /\ m + 1 \in 1..q
  BY <1>1, <1>5
<1>7. \A r \in (m + 1)..q : Nesting(r) \in Nat /\ Nesting(r) >= Nesting(q)
  <2> SUFFICES ASSUME NEW r \in (m + 1)..q PROVE Nesting(r) \in Nat /\ Nesting(r) >= Nesting(q)
    OBVIOUS
  <2>1. r \in 1..q /\ r \in 1..(q + 1) /\ ~(r <= m)
    BY <1>1, <1>6
  <2>2. ~(Nesting(r) < Nesting(q)) /\ Nesting(r) \in Nat
    BY <1>1, <1>4, <2>1
  <2> QED BY <1>5, <2>2
<1>8. Tok(m) \in Openers /\ Nesting(m + 1) = Nesting(m) + 1
  <2>1. Nesting(m + 1) >= Nesting(q) /\ Nesting(m + 1) \in Nat
    BY <1>6, <1>7
  <2>2. \/ Tok(m) \in Openers /\ Nesting(m + 1) = Nesting(m) + 1
        \/ Nesting(m + 1) + 1 = Nesting(m)
        \/ Nesting(m + 1) = Nesting(m)
    BY <1>6 DEF Nested
  <2> QED BY <1>5, <2>1, <2>2
<1>9. Nesting(q) = Nesting(m) + 1
  <2>1. Nesting(m + 1) >= Nesting(q)
    BY <1>6, <1>7
  <2> QED BY <1>5, <1>8, <2>1
<1>10. Nesting(m) = Nesting(q + 1)
  <2>1. Nesting(q + 1) \in Nat
    BY <1>1
  <2> QED BY <1>2, <1>5, <1>9, <2>1
<1>11. PICK b \in Pairs : b[1] = Tok(m)
  BY <1>8, BracketKinds
<1>12. PICK k \in (m + 1)..Size :
         /\ Tok(k) = b[2] /\ Nesting(k + 1) = Nesting(m)
         /\ \A r \in (m + 1)..k : Nesting(r) > Nesting(m)
  BY <1>6, <1>11 DEF Nested
<1>13. k = q
  <2>1. m \in Nat /\ k \in Nat
    BY <1>1, <1>6, <1>12
  <2>2. ~(k < q)
    <3> SUFFICES ASSUME k < q PROVE FALSE
      OBVIOUS
    <3>1. k + 1 \in (m + 1)..q
      BY <1>1, <2>1
    <3>2. Nesting(k + 1) >= Nesting(q)
      BY <1>7, <3>1
    <3> QED BY <1>5, <1>12, <3>2
  <2>3. ~(q < k)
    <3> SUFFICES ASSUME q < k PROVE FALSE
      OBVIOUS
    <3>1. q + 1 \in (m + 1)..k
      BY <1>1, <1>6, <2>1
    <3>2. Nesting(q + 1) > Nesting(m)
      BY <1>12, <3>1
    <3> QED BY <1>5, <1>10, <3>2
  <2> QED BY <1>1, <2>1, <2>2, <2>3
<1>14. \A r \in (m + 1)..q : Nesting(r) > Nesting(m)
  BY <1>12, <1>13
<1> QED BY <1>6, <1>10, <1>11, <1>12, <1>13, <1>14

(* The open brackets of kind o at c.                                         *)
Unclosed(o, c) ==
  {p \in 1..(c - 1) : Tok(p) = o /\ \A r \in (p + 1)..c : Nesting(r) > Nesting(p)}

Pending(o, c) == Cardinality(Unclosed(o, c))

LEMMA UnclosedAreFinite ==
  ASSUME CodeOK, NEW o, NEW c \in 1..(Size + 1)
  PROVE  IsFiniteSet(Unclosed(o, c)) /\ Pending(o, c) \in Nat
<1>1. Size \in Nat /\ c - 1 \in Int
  BY CodeIsTokens
<1>2. IsFiniteSet(1..(c - 1)) /\ Unclosed(o, c) \in SUBSET (1..(c - 1))
  BY <1>1, FS_Interval DEF Unclosed
<1>3. IsFiniteSet(Unclosed(o, c))
  BY <1>2, FS_Subset
<1> QED BY <1>3, FS_CardinalityType DEF Pending

(* A place at which no bracket of an earlier one has been closed.            *)
LEMMA UnclosedStay ==
  ASSUME CodeOK, Nested, NEW c \in 1..(Size + 1), NEW e \in c..(Size + 1),
         \A r \in c..e : Nesting(r) >= Nesting(c), NEW o
  PROVE  Unclosed(o, c) \subseteq Unclosed(o, e) /\ Pending(o, c) <= Pending(o, e)
<1>1. /\ Size \in Nat /\ e \in 1..(Size + 1)
      /\ \A r \in 1..(Size + 1) : Nesting(r) \in Nat
  BY CodeIsTokens DEF Nested
<1>2. ASSUME NEW p \in Unclosed(o, c) PROVE p \in Unclosed(o, e)
  <2>1. /\ p \in 1..(c - 1) /\ Tok(p) = o
        /\ \A r \in (p + 1)..c : Nesting(r) > Nesting(p)
    BY DEF Unclosed
  <2>2. p \in 1..(e - 1) /\ c \in (p + 1)..c /\ p \in 1..(Size + 1)
    BY <1>1, <2>1
  <2>3. ASSUME NEW r \in (p + 1)..e PROVE Nesting(r) > Nesting(p)
    <3>1. r \in (p + 1)..c \/ r \in c..e
      BY <1>1, <2>1
    <3>2. CASE r \in c..e
      <4>1. Nesting(r) >= Nesting(c) /\ Nesting(c) > Nesting(p) /\ r \in 1..(Size + 1)
        BY <1>1, <2>1, <2>2, <3>2
      <4> QED BY <1>1, <2>2, <4>1
    <3> QED BY <2>1, <3>1, <3>2
  <2> QED BY <2>1, <2>2, <2>3 DEF Unclosed
<1>3. IsFiniteSet(Unclosed(o, e)) /\ Unclosed(o, c) \in SUBSET Unclosed(o, e)
  BY <1>1, <1>2, UnclosedAreFinite
<1> QED BY <1>3, FS_Subset DEF Pending

(* An even stretch leaves them as they are.                                  *)
LEMMA EvenKeepsUnclosed ==
  ASSUME CodeOK, Nested, NEW c, NEW e, Even(c, e), NEW o
  PROVE  Unclosed(o, e) = Unclosed(o, c)
<1>1. /\ Size \in Nat /\ c \in 1..(Size + 1) /\ e \in c..(Size + 1)
      /\ \A r \in 1..(Size + 1) : Nesting(r) \in Nat
      /\ Nesting(e) = Nesting(c) /\ \A r \in c..e : Nesting(r) >= Nesting(c)
  BY CodeIsTokens DEF Even, Nested
<1>2. ASSUME NEW p \in Unclosed(o, c) PROVE p \in Unclosed(o, e)
  BY <1>1, UnclosedStay
<1>3. ASSUME NEW p \in Unclosed(o, e) PROVE p \in Unclosed(o, c)
  <2>1. /\ p \in 1..(e - 1) /\ Tok(p) = o
        /\ \A r \in (p + 1)..e : Nesting(r) > Nesting(p)
    BY DEF Unclosed
  <2>2. e \in (p + 1)..e /\ p \in 1..(Size + 1) /\ e \in 1..(Size + 1)
    BY <1>1, <2>1
  <2>3. Nesting(e) > Nesting(p)
    BY <2>1, <2>2
  <2>4. p \in 1..(c - 1)
    <3> SUFFICES ASSUME ~(p <= c - 1) PROVE FALSE
      BY <1>1, <2>1
    <3>1. p \in c..e
      BY <1>1, <2>1
    <3>2. Nesting(p) >= Nesting(c)
      BY <1>1, <3>1
    <3> QED BY <1>1, <2>2, <2>3, <3>2
  <2>5. \A r \in (p + 1)..c : r \in (p + 1)..e
    BY <1>1, <2>1
  <2> QED BY <2>1, <2>4, <2>5 DEF Unclosed
<1> QED BY <1>2, <1>3

LEMMA PlainKeepsUnclosed ==
  ASSUME CodeOK, Nested, NEW c \in 1..Size, Tok(c) \notin Closers, NEW o \in Openers
  PROVE  /\ Tok(c) # o => Unclosed(o, c + 1) = Unclosed(o, c)
         /\ Tok(c) = o => Unclosed(o, c + 1) = Unclosed(o, c) \cup {c} /\ c \notin Unclosed(o, c)
<1>1. /\ Size \in Nat /\ c \in Nat /\ c \in 1..(Size + 1) /\ c + 1 \in c..(Size + 1)
      /\ c + 1 \in 1..(Size + 1)
      /\ \A r \in 1..(Size + 1) : Nesting(r) \in Nat
  BY CodeIsTokens DEF Nested
<1>2. /\ Tok(c) \in Openers => Nesting(c + 1) = Nesting(c) + 1
      /\ Tok(c) \notin Openers => Nesting(c + 1) = Nesting(c)
  BY DEF Nested
<1>3. Unclosed(o, c) \subseteq Unclosed(o, c + 1)
  <2>1. \A r \in c..(c + 1) : r = c \/ r = c + 1
    BY <1>1
  <2>2. \A r \in c..(c + 1) : Nesting(r) >= Nesting(c)
    BY <1>1, <1>2, <2>1
  <2> QED BY <1>1, <2>2, UnclosedStay
<1>4. ASSUME NEW p \in Unclosed(o, c + 1) PROVE p \in Unclosed(o, c) \/ (p = c /\ Tok(c) = o)
  <2>1. /\ p \in 1..c /\ Tok(p) = o
        /\ \A r \in (p + 1)..(c + 1) : Nesting(r) > Nesting(p)
    BY <1>1 DEF Unclosed
  <2>2. p # c => p \in 1..(c - 1) /\ \A r \in (p + 1)..c : r \in (p + 1)..(c + 1)
    BY <1>1, <2>1
  <2> QED BY <2>1, <2>2 DEF Unclosed
<1>5. c \notin Unclosed(o, c)
  <2>1. c \notin 1..(c - 1)
    BY <1>1
  <2> QED BY <2>1 DEF Unclosed
<1>6. Tok(c) = o => c \in Unclosed(o, c + 1)
  <2> SUFFICES ASSUME Tok(c) = o PROVE c \in Unclosed(o, c + 1)
    OBVIOUS
  <2>1. c \in 1..(c + 1 - 1) /\ \A r \in (c + 1)..(c + 1) : r = c + 1
    BY <1>1
  <2>2. Nesting(c + 1) > Nesting(c)
    BY <1>1, <1>2
  <2> QED BY <2>1, <2>2 DEF Unclosed
<1> QED BY <1>3, <1>4, <1>5, <1>6

LEMMA ClosingTakesOne ==
  ASSUME CodeOK, Nested, NEW c \in 1..Size, NEW b \in Pairs, NEW q \in 1..(c - 1),
         Tok(q) = b[1], Tok(c) = b[2], Nesting(q) = Nesting(c + 1),
         \A r \in (q + 1)..c : Nesting(r) > Nesting(q), NEW o \in Openers
  PROVE  /\ b[1] # o => Unclosed(o, c + 1) = Unclosed(o, c)
         /\ b[1] = o => Unclosed(o, c + 1) = Unclosed(o, c) \ {q} /\ q \in Unclosed(o, c)
<1>1. /\ Size \in Nat /\ c \in Nat /\ c \in 1..(Size + 1) /\ c + 1 \in 1..(Size + 1)
      /\ q \in Nat /\ q \in 1..(Size + 1)
      /\ \A r \in 1..(Size + 1) : Nesting(r) \in Nat
  BY CodeIsTokens DEF Nested
<1>2. Tok(c) \in Closers /\ Tok(c) \notin Openers
  BY BracketKinds
<1>3. Nesting(c + 1) + 1 = Nesting(c)
  BY <1>2 DEF Nested
<1>4. ASSUME NEW p \in Unclosed(o, c), p # q PROVE p \in Unclosed(o, c + 1)
  <2>1. /\ p \in 1..(c - 1) /\ Tok(p) = o
        /\ \A r \in (p + 1)..c : Nesting(r) > Nesting(p)
    BY DEF Unclosed
  <2>2. p \in 1..(c + 1 - 1) /\ p \in 1..(Size + 1) /\ c \in (p + 1)..c
    BY <1>1, <2>1
  <2>3. Nesting(c + 1) > Nesting(p)
    <3>1. CASE p < q
      <4>1. q \in (p + 1)..c
        BY <1>1, <2>1, <3>1
      <4> QED BY <1>1, <2>1, <4>1
    <3>2. CASE q < p
      <4>1. p \in (q + 1)..c
        BY <1>1, <2>1, <3>2
      <4>2. Nesting(p) > Nesting(q) /\ Nesting(c) > Nesting(p)
        BY <2>1, <2>2, <4>1
      <4> QED BY <1>1, <1>3, <2>2, <4>2
    <3> QED BY <1>1, <1>4, <2>1, <3>1, <3>2
  <2>4. \A r \in (p + 1)..(c + 1) : r = c + 1 \/ r \in (p + 1)..c
    BY <1>1, <2>1
  <2> QED BY <2>1, <2>2, <2>3, <2>4 DEF Unclosed
<1>5. ASSUME NEW p \in Unclosed(o, c + 1) PROVE p \in Unclosed(o, c) /\ p # q
  <2>1. /\ p \in 1..c /\ Tok(p) = o
        /\ \A r \in (p + 1)..(c + 1) : Nesting(r) > Nesting(p)
    BY <1>1 DEF Unclosed
  <2>2. c + 1 \in (p + 1)..(c + 1) /\ p \in 1..(Size + 1)
    BY <1>1, <2>1
  <2>3. Nesting(c + 1) > Nesting(p)
    BY <2>1, <2>2
  <2>4. p # c
    BY <1>2, <2>1
  <2>5. p \in 1..(c - 1) /\ \A r \in (p + 1)..c : r \in (p + 1)..(c + 1)
    BY <1>1, <2>1, <2>4
  <2>6. p # q
    BY <1>1, <2>3
  <2> QED BY <2>1, <2>5, <2>6 DEF Unclosed
<1>6. b[1] # o => q \notin Unclosed(o, c)
  BY DEF Unclosed
<1>7. b[1] = o => q \in Unclosed(o, c)
  BY DEF Unclosed
<1> QED BY <1>4, <1>5, <1>6, <1>7

(* A token changes the open brackets of its own kind, by one.                *)
LEMMA PendingSteps ==
  ASSUME CodeOK, Nested, NEW c \in 1..Size, NEW b \in Pairs
  PROVE  /\ Tok(c) = b[1] => Pending(b[1], c + 1) = Pending(b[1], c) + 1
         /\ Tok(c) = b[2] => Pending(b[1], c + 1) + 1 = Pending(b[1], c)
         /\ Tok(c) # b[1] /\ Tok(c) # b[2] => Pending(b[1], c + 1) = Pending(b[1], c)
<1> DEFINE o == b[1]
<1>1. /\ Size \in Nat /\ c \in Nat /\ c \in 1..(Size + 1) /\ c + 1 \in 1..(Size + 1)
      /\ o \in Openers /\ o \notin Closers /\ b[2] \in Closers /\ b[2] # o
  BY CodeIsTokens, BracketKinds
<1>2. /\ IsFiniteSet(Unclosed(o, c)) /\ Pending(o, c) \in Nat
      /\ Pending(o, c + 1) \in Nat
  BY <1>1, UnclosedAreFinite
<1>3. CASE Tok(c) = o
  <2>1. Unclosed(o, c + 1) = Unclosed(o, c) \cup {c} /\ c \notin Unclosed(o, c)
    BY <1>1, <1>3, PlainKeepsUnclosed
  <2>2. Cardinality(Unclosed(o, c) \cup {c}) = Cardinality(Unclosed(o, c)) + 1
    BY <1>2, <2>1, FS_AddElement
  <2> QED BY <1>1, <1>3, <2>1, <2>2 DEF Pending
<1>4. CASE Tok(c) # o /\ Tok(c) \notin Closers
  <2>1. Unclosed(o, c + 1) = Unclosed(o, c)
    BY <1>1, <1>4, PlainKeepsUnclosed
  <2> QED BY <1>1, <1>4, <2>1 DEF Pending
<1>5. CASE Tok(c) \in Closers
  <2>1. PICK a \in Pairs, q \in 1..(c - 1) :
          /\ Tok(q) = a[1] /\ Tok(c) = a[2] /\ Nesting(q) = Nesting(c + 1)
          /\ \A r \in (q + 1)..c : Nesting(r) > Nesting(q)
    BY <1>5, ClosesOne
  <2>2. a[1] = o <=> Tok(c) = b[2]
    BY <2>1, BracketKinds
  <2>3. CASE a[1] # o
    <3>1. Unclosed(o, c + 1) = Unclosed(o, c)
      BY <1>1, <2>1, <2>3, ClosingTakesOne
    <3> QED BY <1>1, <1>5, <2>2, <2>3, <3>1 DEF Pending
  <2>4. CASE a[1] = o
    <3>1. Unclosed(o, c + 1) = Unclosed(o, c) \ {q} /\ q \in Unclosed(o, c)
      BY <1>1, <2>1, <2>4, ClosingTakesOne
    <3>2. Cardinality(Unclosed(o, c) \ {q}) = Cardinality(Unclosed(o, c)) - 1
      BY <1>2, <3>1, FS_RemoveElement
    <3>3. Pending(o, c + 1) = Pending(o, c) - 1
      BY <3>1, <3>2 DEF Pending
    <3> QED BY <1>1, <1>2, <2>2, <2>4, <3>3
  <2> QED BY <2>3, <2>4
<1> QED BY <1>3, <1>4, <1>5

LEMMA PairsAre ==
  /\ \A o \in Openers : o = "(" \/ o = LBRACE \/ o = "["
  /\ \A c \in Closers : c = ")" \/ c = RBRACE \/ c = "]"
  /\ {"(", LBRACE, "["} \subseteq Openers /\ {")", RBRACE, "]"} \subseteq Closers
  /\ <<"(", ")">> \in Pairs /\ <<LBRACE, RBRACE>> \in Pairs /\ <<"[", "]">> \in Pairs
  BY DEF Openers, Closers, Pairs

(* The open brackets at c by their kind, above a base.                       *)
Levels(c, x, y, z) ==
  [paren |-> Pending("(", c) - x, brace |-> Pending(LBRACE, c) - y,
   bracket |-> Pending("[", c) - z]

LEMMA PendingByKind ==
  ASSUME CodeOK, Nested, NEW c \in 1..Size
  PROVE  /\ Tok(c) = "(" => Pending("(", c + 1) = Pending("(", c) + 1
         /\ Tok(c) = ")" => Pending("(", c + 1) + 1 = Pending("(", c)
         /\ Tok(c) \notin {"(", ")"} => Pending("(", c + 1) = Pending("(", c)
         /\ Tok(c) = LBRACE => Pending(LBRACE, c + 1) = Pending(LBRACE, c) + 1
         /\ Tok(c) = RBRACE => Pending(LBRACE, c + 1) + 1 = Pending(LBRACE, c)
         /\ Tok(c) \notin {LBRACE, RBRACE} => Pending(LBRACE, c + 1) = Pending(LBRACE, c)
         /\ Tok(c) = "[" => Pending("[", c + 1) = Pending("[", c) + 1
         /\ Tok(c) = "]" => Pending("[", c + 1) + 1 = Pending("[", c)
         /\ Tok(c) \notin {"[", "]"} => Pending("[", c + 1) = Pending("[", c)
<1>1. \A b \in Pairs :
        /\ Tok(c) = b[1] => Pending(b[1], c + 1) = Pending(b[1], c) + 1
        /\ Tok(c) = b[2] => Pending(b[1], c + 1) + 1 = Pending(b[1], c)
        /\ Tok(c) \notin {b[1], b[2]} => Pending(b[1], c + 1) = Pending(b[1], c)
  BY PendingSteps
<1>2. /\ <<"(", ")">>[1] = "(" /\ <<"(", ")">>[2] = ")"
      /\ <<LBRACE, RBRACE>>[1] = LBRACE /\ <<LBRACE, RBRACE>>[2] = RBRACE
      /\ <<"[", "]">>[1] = "[" /\ <<"[", "]">>[2] = "]"
  OBVIOUS
<1>3. /\ <<"(", ")">> \in Pairs /\ <<LBRACE, RBRACE>> \in Pairs /\ <<"[", "]">> \in Pairs
  BY PairsAre
<1> QED BY <1>1, <1>2, <1>3

LEMMA PendingAreNumbers ==
  ASSUME CodeOK, NEW c \in 1..(Size + 1)
  PROVE  Pending("(", c) \in Nat /\ Pending(LBRACE, c) \in Nat /\ Pending("[", c) \in Nat
  BY UnclosedAreFinite

(* The nesting is the number of open brackets.                               *)
LEMMA NestingIsPending ==
  ASSUME CodeOK, Nested, NEW c \in 1..(Size + 1)
  PROVE  Nesting(c) = Pending("(", c) + Pending(LBRACE, c) + Pending("[", c)
<1> DEFINE Total(q) == Pending("(", q) + Pending(LBRACE, q) + Pending("[", q)
           S == {q \in 1..(Size + 1) : Nesting(q) = Total(q)}
<1>1. Size \in Nat /\ Size + 1 \in Nat /\ 1 \in 1..(Size + 1)
  BY CodeIsTokens
<1>2. 1 \in S
  <2>1. \A o : Unclosed(o, 1) = {}
    BY DEF Unclosed
  <2>2. \A o : Pending(o, 1) = 0
    BY <2>1, FS_EmptySet DEF Pending
  <2>3. Nesting(1) = 0
    BY DEF Nested
  <2> QED BY <1>1, <2>2, <2>3
<1>3. ASSUME NEW q \in 1..(Size + 1), q < Size + 1, q \in S PROVE q + 1 \in S
  <2>1. q \in 1..Size /\ q + 1 \in 1..(Size + 1)
    BY <1>1, <1>3
  <2>2. /\ Pending("(", q) \in Nat /\ Pending(LBRACE, q) \in Nat /\ Pending("[", q) \in Nat
        /\ Pending("(", q + 1) \in Nat /\ Pending(LBRACE, q + 1) \in Nat
        /\ Pending("[", q + 1) \in Nat
        /\ Nesting(q) \in Nat /\ Nesting(q + 1) \in Nat
    BY <2>1, PendingAreNumbers DEF Nested
  <2>3. Nesting(q) = Total(q)
    BY <1>3
  <2>4. CASE Tok(q) \in Openers
    <3>1. Nesting(q + 1) = Nesting(q) + 1
      BY <2>1, <2>4 DEF Nested
    <3>2. Tok(q) = "(" \/ Tok(q) = LBRACE \/ Tok(q) = "["
      BY <2>4, PairsAre
    <3>3. Total(q + 1) = Total(q) + 1
      BY <2>1, <2>2, <3>2, PendingByKind, KindsDiffer
    <3> QED BY <2>1, <2>3, <3>1, <3>3
  <2>5. CASE Tok(q) \in Closers
    <3>1. Nesting(q + 1) + 1 = Nesting(q)
      BY <2>1, <2>5 DEF Nested
    <3>2. Tok(q) = ")" \/ Tok(q) = RBRACE \/ Tok(q) = "]"
      BY <2>5, PairsAre
    <3>3. Total(q + 1) + 1 = Total(q)
      BY <2>1, <2>2, <3>2, PendingByKind, KindsDiffer
    <3>4. Total(q + 1) \in Nat
      BY <2>2
    <3>5. Nesting(q + 1) = Total(q + 1)
      <4> HIDE DEF Total
      <4> QED BY <2>2, <2>3, <3>1, <3>3, <3>4
    <3> QED BY <2>1, <3>5
  <2>6. CASE Tok(q) \notin Openers \cup Closers
    <3>1. Nesting(q + 1) = Nesting(q)
      BY <2>1, <2>6 DEF Nested
    <3>2. Tok(q) \notin {"(", ")", LBRACE, RBRACE, "[", "]"}
      BY <2>6, PairsAre
    <3>3. Total(q + 1) = Total(q)
      BY <2>1, <3>2, PendingByKind
    <3> QED BY <2>1, <2>3, <3>1, <3>3
  <2> QED BY <2>4, <2>5, <2>6
<1>4. \A q \in 1..(Size + 1) : q \in S
  <2> HIDE DEF S
  <2> QED BY <1>1, <1>2, <1>3, Upwards
<1> QED BY <1>4

(* A tracker that has not gone below its base counts the open brackets.      *)
LEMMA DepthAfterLevels ==
  ASSUME CodeOK, Nested, NEW c \in 1..Size, NEW x \in Nat, NEW y \in Nat, NEW z \in Nat,
         Pending("(", c + 1) >= x, Pending(LBRACE, c + 1) >= y, Pending("[", c + 1) >= z
  PROVE  DepthAfter(Levels(c, x, y, z), Tok(c)) = Levels(c + 1, x, y, z)
<1> DEFINE d == Levels(c, x, y, z)
           e == Levels(c + 1, x, y, z)
<1>1. /\ Size \in Nat /\ c \in 1..(Size + 1) /\ c + 1 \in 1..(Size + 1)
      /\ Pending("(", c) \in Nat /\ Pending(LBRACE, c) \in Nat /\ Pending("[", c) \in Nat
      /\ Pending("(", c + 1) \in Nat /\ Pending(LBRACE, c + 1) \in Nat
      /\ Pending("[", c + 1) \in Nat
  <2>1. Size \in Nat /\ c \in 1..(Size + 1) /\ c + 1 \in 1..(Size + 1)
    BY CodeIsTokens
  <2> QED BY <2>1, PendingAreNumbers
<1>2. /\ Tok(c) = "(" => DepthAfter(d, Tok(c)) = [d EXCEPT !.paren = @ + 1]
      /\ Tok(c) = LBRACE => DepthAfter(d, Tok(c)) = [d EXCEPT !.brace = @ + 1]
      /\ Tok(c) = "[" => DepthAfter(d, Tok(c)) = [d EXCEPT !.bracket = @ + 1]
      /\ Tok(c) = ")" => DepthAfter(d, Tok(c)) = [d EXCEPT !.paren = Down(@)]
      /\ Tok(c) = RBRACE => DepthAfter(d, Tok(c)) = [d EXCEPT !.brace = Down(@)]
      /\ Tok(c) = "]" => DepthAfter(d, Tok(c)) = [d EXCEPT !.bracket = Down(@)]
      /\ Tok(c) \notin {"(", ")", LBRACE, RBRACE, "[", "]"} => DepthAfter(d, Tok(c)) = d
  <2> HIDE DEF d
  <2> QED BY KindsDiffer DEF DepthAfter
<1>3. \A n \in Nat : Down(n + 1) = n
  BY DEF Down
<1>4. CASE Tok(c) = "("
  BY <1>1, <1>2, <1>4, PendingByKind, KindsDiffer DEF Levels
<1>5. CASE Tok(c) = LBRACE
  BY <1>1, <1>2, <1>5, PendingByKind, KindsDiffer DEF Levels
<1>6. CASE Tok(c) = "["
  BY <1>1, <1>2, <1>6, PendingByKind, KindsDiffer DEF Levels
<1>7. CASE Tok(c) = ")"
  <2>1. /\ Pending("(", c) - x = Pending("(", c + 1) - x + 1
        /\ Pending("(", c + 1) - x \in Nat
    BY <1>1, <1>7, PendingByKind
  <2>2. Down(Pending("(", c) - x) = Pending("(", c + 1) - x
    BY <1>3, <2>1
  <2> QED BY <1>1, <1>2, <1>7, <2>2, PendingByKind, KindsDiffer DEF Levels
<1>8. CASE Tok(c) = RBRACE
  <2>1. /\ Pending(LBRACE, c) - y = Pending(LBRACE, c + 1) - y + 1
        /\ Pending(LBRACE, c + 1) - y \in Nat
    BY <1>1, <1>8, PendingByKind
  <2>2. Down(Pending(LBRACE, c) - y) = Pending(LBRACE, c + 1) - y
    BY <1>3, <2>1
  <2> QED BY <1>1, <1>2, <1>8, <2>2, PendingByKind, KindsDiffer DEF Levels
<1>9. CASE Tok(c) = "]"
  <2>1. /\ Pending("[", c) - z = Pending("[", c + 1) - z + 1
        /\ Pending("[", c + 1) - z \in Nat
    BY <1>1, <1>9, PendingByKind
  <2>2. Down(Pending("[", c) - z) = Pending("[", c + 1) - z
    BY <1>3, <2>1
  <2> QED BY <1>1, <1>2, <1>9, <2>2, PendingByKind, KindsDiffer DEF Levels
<1>10. CASE Tok(c) \notin {"(", ")", LBRACE, RBRACE, "[", "]"}
  BY <1>1, <1>2, <1>10, PendingByKind DEF Levels
<1> QED BY <1>4, <1>5, <1>6, <1>7, <1>8, <1>9, <1>10

LEMMA DepthFromIs ==
  ASSUME CodeOK, Nested, NEW p \in 1..(Size + 1), NEW q \in p..(Size + 1),
         \A r \in p..q : Nesting(r) >= Nesting(p)
  PROVE  /\ DepthFrom(p, q) = Levels(q, Pending("(", p), Pending(LBRACE, p), Pending("[", p))
         /\ DepthFrom(p, q) = Level <=> Nesting(q) = Nesting(p)
<1> DEFINE x == Pending("(", p)
           y == Pending(LBRACE, p)
           z == Pending("[", p)
           value(r) == Levels(r, x, y, z)
           at == CHOOSE f : f = [r \in p..q |-> IF r = p THEN Level
                                                ELSE DepthAfter(f[r - 1], code[r - 1])]
           S == {r \in p..q : at[r] = value(r)}
<1>1. /\ Size \in Nat /\ p \in Nat /\ q \in Nat /\ p \in p..q /\ q \in p..q
      /\ \A r \in p..q : r \in 1..(Size + 1) /\ r \in p..(Size + 1)
      /\ \A r \in p..q : r # p => r - 1 \in p..q /\ r - 1 \in 1..Size /\ r - 1 + 1 = r
  BY CodeIsTokens
<1>2. DepthFrom(p, q) = at[q]
  BY DEF DepthFrom
<1>3. x \in Nat /\ y \in Nat /\ z \in Nat
  BY PendingAreNumbers
<1>4. \A r \in p..q : /\ Pending("(", r) \in Nat /\ Pending("(", r) >= x
                      /\ Pending(LBRACE, r) \in Nat /\ Pending(LBRACE, r) >= y
                      /\ Pending("[", r) \in Nat /\ Pending("[", r) >= z
  <2> SUFFICES ASSUME NEW r \in p..q
               PROVE  /\ Pending("(", r) \in Nat /\ Pending("(", r) >= x
                      /\ Pending(LBRACE, r) \in Nat /\ Pending(LBRACE, r) >= y
                      /\ Pending("[", r) \in Nat /\ Pending("[", r) >= z
    OBVIOUS
  <2>1. r \in 1..(Size + 1) /\ r \in p..(Size + 1) /\ \A k \in p..r : k \in p..q
    BY <1>1
  <2>2. \A o : Pending(o, p) <= Pending(o, r)
    BY <2>1, UnclosedStay
  <2> QED BY <1>3, <2>1, <2>2, PendingAreNumbers
<1>5. value(p) = Level
  BY <1>3 DEF Levels, Level
<1>6. ASSUME NEW r \in p..q, r # p
      PROVE  DepthAfter(value(r - 1), code[r - 1]) = value(r)
  <2>1. r - 1 \in 1..Size /\ r - 1 + 1 = r
    BY <1>1, <1>6
  <2>2. Tok(r - 1) = code[r - 1]
    BY <2>1, CodeIsTokens
  <2> DEFINE c == r - 1
  <2>3. c \in 1..Size /\ c + 1 = r
    BY <2>1
  <2> HIDE DEF c, x, y, z
  <2>4. DepthAfter(Levels(c, x, y, z), Tok(c)) = Levels(c + 1, x, y, z)
    BY <1>3, <1>4, <2>3, DepthAfterLevels
  <2> QED BY <2>2, <2>3, <2>4 DEF c
<1> HIDE DEF x, y, z
<1>7. \E f : f = [r \in p..q |-> IF r = p THEN Level ELSE DepthAfter(f[r - 1], code[r - 1])]
  <2> DEFINE g == [r \in p..q |-> value(r)]
  <2>1. \A r \in p..q : g[r] = IF r = p THEN Level ELSE DepthAfter(g[r - 1], code[r - 1])
    <3> SUFFICES ASSUME NEW r \in p..q
                 PROVE  g[r] = IF r = p THEN Level ELSE DepthAfter(g[r - 1], code[r - 1])
      OBVIOUS
    <3>1. CASE r = p
      BY <1>5, <3>1
    <3>2. CASE r # p
      <4>1. g[r - 1] = value(r - 1) /\ g[r] = value(r)
        BY <1>1, <3>2
      <4> HIDE DEF g, value
      <4> QED BY <1>6, <3>2, <4>1
    <3> QED BY <3>1, <3>2
  <2>2. g = [r \in p..q |-> g[r]]
    OBVIOUS
  <2> HIDE DEF g
  <2>3. g = [r \in p..q |-> IF r = p THEN Level ELSE DepthAfter(g[r - 1], code[r - 1])]
    BY <2>1, <2>2
  <2> QED BY <2>3
<1>8. at = [r \in p..q |-> IF r = p THEN Level ELSE DepthAfter(at[r - 1], code[r - 1])]
  BY <1>7
<1> HIDE DEF at
<1>9. \A r \in p..q : at[r] = IF r = p THEN Level ELSE DepthAfter(at[r - 1], code[r - 1])
  BY <1>8
<1> HIDE DEF value
<1>10. ASSUME NEW r \in p..q, r < q, r \in S PROVE r + 1 \in S
  <2>1. r + 1 \in p..q /\ r + 1 # p /\ r + 1 - 1 = r
    BY <1>1, <1>10
  <2>2. at[r + 1] = DepthAfter(at[r], code[r])
    BY <1>9, <2>1
  <2>3. DepthAfter(value(r), code[r]) = value(r + 1)
    BY <1>6, <2>1
  <2> QED BY <1>10, <2>1, <2>2, <2>3
<1>11. \A r \in p..q : r \in S
  <2>1. p \in S
    BY <1>1, <1>5, <1>9
  <2> HIDE DEF S
  <2> QED BY <1>1, <1>10, <2>1, Upwards
<1>12. DepthFrom(p, q) = Levels(q, x, y, z)
  BY <1>1, <1>2, <1>11 DEF value
<1>13. DepthFrom(p, q) = Level <=> Nesting(q) = Nesting(p)
  <2>1. /\ Nesting(q) = Pending("(", q) + Pending(LBRACE, q) + Pending("[", q)
        /\ Nesting(p) = x + y + z
    BY <1>1, NestingIsPending DEF x, y, z
  <2>2. DepthFrom(p, q) = Level <=>
          Pending("(", q) = x /\ Pending(LBRACE, q) = y /\ Pending("[", q) = z
    <3>1. /\ Levels(q, x, y, z).paren = Pending("(", q) - x
          /\ Levels(q, x, y, z).brace = Pending(LBRACE, q) - y
          /\ Levels(q, x, y, z).bracket = Pending("[", q) - z
          /\ Level.paren = 0 /\ Level.brace = 0 /\ Level.bracket = 0
      BY DEF Levels, Level
    <3>2. /\ Pending("(", q) \in Nat /\ Pending(LBRACE, q) \in Nat /\ Pending("[", q) \in Nat
      BY <1>1, <1>4
    <3>3. Level = Levels(q, Pending("(", q), Pending(LBRACE, q), Pending("[", q))
      BY <3>2 DEF Levels, Level
    <3> QED BY <1>3, <1>12, <3>1, <3>2, <3>3
  <2>3. /\ Pending("(", q) \in Nat /\ Pending("(", q) >= x
        /\ Pending(LBRACE, q) \in Nat /\ Pending(LBRACE, q) >= y
        /\ Pending("[", q) \in Nat /\ Pending("[", q) >= z
    BY <1>1, <1>4
  <2> QED BY <1>3, <2>1, <2>2, <2>3
<1> QED BY <1>12, <1>13 DEF x, y, z

-----------------------------------------------------------------------------
(* The places that the parsers look for.                                    *)

LEMMA OccurrencesStep ==
  ASSUME NEW p \in Nat, NEW k \in Nat, p <= k, NEW kind
  PROVE  /\ Occurrences(kind, p, k) \in Nat
         /\ Occurrences(kind, p, k - 1) \in Nat
         /\ Occurrences(kind, p, k) = Occurrences(kind, p, k - 1)
                                        + (IF code[k] = kind THEN 1 ELSE 0)
<1> DEFINE A == {r \in p..(k - 1) : code[r] = kind}
           B == {r \in p..k : code[r] = kind}
<1>1. IsFiniteSet(A)
  <2>1. IsFiniteSet(p..(k - 1)) /\ A \in SUBSET (p..(k - 1))
    BY FS_Interval
  <2> QED BY <2>1, FS_Subset
<1>2. Cardinality(A) \in Nat /\ k \notin A
  BY <1>1, FS_CardinalityType
<1>3. \A r : r \in p..k <=> r = k \/ r \in p..(k - 1)
  OBVIOUS
<1>0. Occurrences(kind, p, k) = Cardinality(B) /\ Occurrences(kind, p, k - 1) = Cardinality(A)
  BY DEF Occurrences
<1>4. CASE code[k] = kind
  <2>1. \A r : r \in B <=> r \in A \cup {k}
    BY <1>3, <1>4
  <2>2. B = A \cup {k}
    BY <2>1
  <2>3. Cardinality(A \cup {k}) = Cardinality(A) + 1
    BY <1>1, <1>2, FS_AddElement
  <2> HIDE DEF A, B
  <2> QED BY <1>0, <1>2, <1>4, <2>2, <2>3
<1>5. CASE code[k] # kind
  <2>1. \A r : r \in B <=> r \in A
    BY <1>3, <1>5
  <2>2. B = A
    BY <2>1
  <2> HIDE DEF A, B
  <2> QED BY <1>0, <1>2, <1>5, <2>2
<1> QED BY <1>4, <1>5

(* _find_matching counts one kind of bracket only.                           *)
LEMMA OccurrencesArePending ==
  ASSUME CodeOK, Nested, NEW p \in 1..Size, NEW b \in Pairs, NEW q \in p..Size
  PROVE  Occurrences(b[1], p, q) = Occurrences(b[2], p, q) <=>
           Pending(b[1], q + 1) = Pending(b[1], p)
<1> DEFINE o == b[1]
           c == b[2]
           S == {k \in p..(Size + 1) :
                   Occurrences(o, p, k - 1) + Pending(o, p) =
                     Occurrences(c, p, k - 1) + Pending(o, k)}
<1>1. /\ Size \in Nat /\ p \in Nat /\ q \in Nat /\ p \in p..(Size + 1) /\ Size + 1 \in Nat
      /\ q + 1 \in p..(Size + 1) /\ q + 1 \in 1..(Size + 1) /\ p \in 1..(Size + 1)
      /\ q + 1 - 1 = q /\ p <= q
      /\ o # c
  BY CodeIsTokens, BracketKinds
<1>2. \A k \in p..(Size + 1) : Pending(o, k) \in Nat
  <2>1. \A k \in p..(Size + 1) : k \in 1..(Size + 1)
    BY <1>1
  <2> QED BY <2>1, UnclosedAreFinite
<1>3. p \in S
  <2>1. \A kind : {r \in p..(p - 1) : code[r] = kind} = {}
    BY <1>1
  <2>2. \A kind : Occurrences(kind, p, p - 1) = 0
    BY <2>1, FS_EmptySet DEF Occurrences
  <2> QED BY <1>1, <1>2, <2>2
<1>4. ASSUME NEW k \in p..(Size + 1), k < Size + 1, k \in S PROVE k + 1 \in S
  <2>1. /\ k \in Nat /\ p <= k /\ k \in 1..Size /\ k + 1 \in p..(Size + 1)
        /\ k + 1 - 1 = k /\ Tok(k) = code[k]
    <3>1. k \in 1..Size
      BY <1>1, <1>4
    <3> QED BY <1>1, <1>4, <3>1, CodeIsTokens
  <2>2. /\ Occurrences(o, p, k) \in Nat /\ Occurrences(o, p, k - 1) \in Nat
        /\ Occurrences(c, p, k) \in Nat /\ Occurrences(c, p, k - 1) \in Nat
        /\ Tok(k) = o => Occurrences(o, p, k) = Occurrences(o, p, k - 1) + 1
        /\ Tok(k) # o => Occurrences(o, p, k) = Occurrences(o, p, k - 1)
        /\ Tok(k) = c => Occurrences(c, p, k) = Occurrences(c, p, k - 1) + 1
        /\ Tok(k) # c => Occurrences(c, p, k) = Occurrences(c, p, k - 1)
    BY <1>1, <2>1, OccurrencesStep
  <2>3. /\ Tok(k) = o => Pending(o, k + 1) = Pending(o, k) + 1
        /\ Tok(k) = c => Pending(o, k + 1) + 1 = Pending(o, k)
        /\ Tok(k) # o /\ Tok(k) # c => Pending(o, k + 1) = Pending(o, k)
    BY <2>1, PendingSteps
  <2>4. Pending(o, k) \in Nat /\ Pending(o, k + 1) \in Nat /\ Pending(o, p) \in Nat
    BY <1>1, <1>2, <2>1
  <2>5. Occurrences(o, p, k - 1) + Pending(o, p) = Occurrences(c, p, k - 1) + Pending(o, k)
    BY <1>4
  <2> HIDE DEF o, c
  <2>6. Occurrences(o, p, k) + Pending(o, p) = Occurrences(c, p, k) + Pending(o, k + 1)
    BY <1>1, <2>2, <2>3, <2>4, <2>5
  <2> QED BY <2>1, <2>6
<1>5. \A k \in p..(Size + 1) : k \in S
  <2> HIDE DEF S
  <2> QED BY <1>1, <1>3, <1>4, Upwards
<1>6. Occurrences(o, p, q) + Pending(o, p) = Occurrences(c, p, q) + Pending(o, q + 1)
  BY <1>1, <1>5
<1>7. Occurrences(o, p, q) \in Nat /\ Occurrences(c, p, q) \in Nat
  BY <1>1, OccurrencesStep
<1>8. Pending(o, p) \in Nat /\ Pending(o, q + 1) \in Nat
  BY <1>1, <1>2
<1> HIDE DEF o, c
<1>9. Occurrences(o, p, q) = Occurrences(c, p, q) <=> Pending(o, q + 1) = Pending(o, p)
  BY <1>6, <1>7, <1>8
<1> QED BY <1>9 DEF o, c

(* It finds the bracket that closes this one.                                *)
LEMMA MatchingNests ==
  ASSUME CodeOK, Nested, NEW p \in 1..Size, NEW b \in Pairs, Tok(p) = b[1]
  PROVE  /\ Matching(p, b[1], b[2]) \in (p + 1)..Size
         /\ Tok(Matching(p, b[1], b[2])) = b[2]
         /\ Even(p + 1, Matching(p, b[1], b[2]))
<1> DEFINE o == b[1]
           c == b[2]
           S == {q \in (p + 1)..Size : /\ code[q] = c
                                       /\ Occurrences(o, p, q) = Occurrences(c, p, q)}
<1>1. /\ Size \in Nat /\ p \in Nat /\ p \in 1..(Size + 1) /\ p + 1 \in 1..(Size + 1)
      /\ \A r \in 1..(Size + 1) : Nesting(r) \in Nat
      /\ o \in Openers /\ c \in Closers
  BY CodeIsTokens, BracketKinds DEF Nested
<1>2. PICK m \in (p + 1)..Size :
        /\ Tok(m) = c /\ Nesting(m + 1) = Nesting(p)
        /\ \A r \in (p + 1)..m : Nesting(r) > Nesting(p)
  BY DEF Nested
<1>3. /\ m \in Nat /\ m \in 1..Size /\ m + 1 \in p..(Size + 1) /\ m + 1 \in 1..(Size + 1)
      /\ m \in 1..(Size + 1) /\ m \in (p + 1)..(Size + 1) /\ m \in p..Size
      /\ m \in (p + 1)..m
  BY <1>1
<1>4. Nesting(p + 1) = Nesting(p) + 1 /\ Nesting(m + 1) + 1 = Nesting(m)
  BY <1>1, <1>2, <1>3 DEF Nested
<1>5. Even(p + 1, m)
  <2>1. Nesting(m) = Nesting(p + 1)
    BY <1>1, <1>2, <1>3, <1>4
  <2>2. ASSUME NEW r \in (p + 1)..m PROVE Nesting(r) >= Nesting(p + 1)
    <3>1. r \in 1..(Size + 1) /\ Nesting(r) > Nesting(p)
      BY <1>1, <1>2, <1>3
    <3> QED BY <1>1, <1>4, <3>1
  <2> QED BY <1>1, <1>3, <2>1, <2>2 DEF Even
<1>6. m \in S
  <2>1. Even(p, m + 1)
    BY <1>1, <1>2, <1>5, EvenGroup
  <2>2. Pending(o, m + 1) = Pending(o, p)
    BY <2>1, EvenKeepsUnclosed DEF Pending
  <2>3. Occurrences(o, p, m) = Occurrences(c, p, m)
    BY <1>3, <2>2, OccurrencesArePending
  <2> QED BY <1>2, <1>3, <2>3, CodeIsTokens
<1>7. ASSUME NEW q \in S PROVE m <= q
  <2> SUFFICES ASSUME q < m PROVE FALSE
    BY <1>1, <1>3
  <2>1. /\ q \in (p + 1)..Size /\ q \in p..Size /\ q + 1 \in (p + 1)..(Size + 1)
        /\ q + 1 \in 1..(Size + 1) /\ \A r \in (p + 1)..(q + 1) : r \in (p + 1)..m
    BY <1>1, <1>3
  <2>2. Pending(o, q + 1) = Pending(o, p)
    BY <2>1, OccurrencesArePending
  <2>3. Pending(o, p + 1) = Pending(o, p) + 1
    BY PendingSteps
  <2>4. Pending(o, p + 1) <= Pending(o, q + 1)
    <3>1. \A r \in (p + 1)..(q + 1) : Nesting(r) >= Nesting(p + 1)
      BY <1>5, <2>1 DEF Even
    <3> QED BY <1>1, <2>1, <3>1, UnclosedStay
  <2>5. Pending(o, p) \in Nat
    BY <1>1, UnclosedAreFinite
  <2> HIDE DEF o
  <2> QED BY <2>2, <2>3, <2>4, <2>5
<1>8. Matching(p, o, c) = Earliest(S, 0)
  BY DEF Matching
<1>9. S \in SUBSET Nat /\ S # {}
  BY <1>1, <1>6
<1> HIDE DEF S
<1>10. Earliest(S, 0) \in S /\ \A q \in S : Earliest(S, 0) <= q
  BY <1>9, EarliestIs
<1>11. Earliest(S, 0) = m
  <2>1. Earliest(S, 0) <= m /\ m <= Earliest(S, 0) /\ Earliest(S, 0) \in Nat
    BY <1>6, <1>7, <1>9, <1>10
  <2> QED BY <1>3, <2>1
<1> QED BY <1>2, <1>5, <1>8, <1>11

LEMMA GroupNests ==
  ASSUME CodeOK, Nested, NEW p \in 1..(Size + 1), NEW b \in Pairs,
         NEW g, g = PastGroup(p, b[1], b[2])
  PROVE  /\ g \in p..(Size + 1) /\ Even(p, g)
         /\ \/ g = p /\ Tok(p) # b[1]
            \/ Tok(p) = b[1] /\ \A r \in (p + 1)..(g - 1) : Nesting(r) > Nesting(p)
<1> DEFINE m == Matching(p, b[1], b[2])
<1>1. /\ Size \in Nat /\ p \in Nat /\ p \in p..(Size + 1)
      /\ b[1] \in Openers /\ b[2] \in Closers
  BY CodeIsTokens, BracketKinds
<1>2. CASE Tok(p) # b[1]
  <2>1. g = p
    BY <1>2 DEF PastGroup
  <2> QED BY <1>1, <1>2, <2>1, EvenStart
<1>3. CASE Tok(p) = b[1]
  <2>1. p \in 1..Size
    <3>1. \A o \in Openers : o # "EOF"
      BY KindsAreNotEOF DEF Openers
    <3> QED BY <1>1, <1>3, <3>1, CodeIsTokens
  <2>2. m \in (p + 1)..Size /\ Tok(m) = b[2] /\ Even(p + 1, m)
    BY <1>3, <2>1, MatchingNests
  <2>3. g = m + 1
    <3>1. m # 0
      BY <1>1, <2>2
    <3> QED BY <1>3, <3>1 DEF PastGroup
  <2> HIDE DEF m
  <2>4. Even(p, m + 1) /\ \A r \in (p + 1)..m : Nesting(r) > Nesting(p)
    BY <1>1, <1>3, <2>1, <2>2, EvenGroup
  <2>5. m + 1 \in p..(Size + 1) /\ \A r \in (p + 1)..(g - 1) : r \in (p + 1)..m
    BY <1>1, <2>2, <2>3
  <2>6. \A r \in (p + 1)..(g - 1) : Nesting(r) > Nesting(p)
    BY <2>4, <2>5
  <2> QED BY <1>3, <2>3, <2>4, <2>5, <2>6
<1> QED BY <1>2, <1>3

(* At the top level, and no func or import of it between p and e.            *)
Top(p) == p \in 1..(Size + 1) /\ Nesting(p) = 0

Spared(p) == Nesting(p) = 0 => Tok(p) \notin {"func", "import"}

Passes(p, e) == Top(p) /\ Top(e) /\ p <= e /\ \A r \in p..(e - 1) : Spared(r)

LEMMA PassesJoin ==
  ASSUME CodeOK, NEW c, NEW d, NEW e, Passes(c, d), Passes(d, e)
  PROVE  Passes(c, e)
<1>1. Size \in Nat
  BY CodeIsTokens
<1>2. c \in Nat /\ d \in Nat /\ e \in Nat /\ c <= e
  BY <1>1 DEF Passes, Top
<1>3. \A r \in c..(e - 1) : r \in c..(d - 1) \/ r \in d..(e - 1)
  BY <1>2
<1> QED BY <1>2, <1>3 DEF Passes

LEMMA PassesToken ==
  ASSUME CodeOK, Nested, NEW p, Top(p), Plain(p), Tok(p) \notin {"func", "import"},
         NEW e, e = p + 1
  PROVE  Passes(p, e)
<1>1. Even(p, e)
  BY EvenPlain
<1>2. Size \in Nat
  BY CodeIsTokens
<1>3. p \in 1..(Size + 1) /\ e \in p..(Size + 1)
  BY <1>1 DEF Even
<1>4. Top(e)
  BY <1>1, <1>2, <1>3 DEF Top, Even
<1>5. p <= e /\ \A r \in p..(e - 1) : r = p
  BY <1>2, <1>3
<1> QED BY <1>4, <1>5 DEF Passes, Spared

LEMMA PassesGroup ==
  ASSUME CodeOK, Nested, NEW p, Top(p), NEW b \in Pairs
  PROVE  Passes(p, PastGroup(p, b[1], b[2]))
<1> DEFINE g == PastGroup(p, b[1], b[2])
<1>1. Size \in Nat /\ p \in 1..(Size + 1) /\ p \in Nat
  BY CodeIsTokens DEF Top
<1>2. /\ g \in p..(Size + 1) /\ Even(p, g)
      /\ \/ g = p /\ Tok(p) # b[1]
         \/ Tok(p) = b[1] /\ \A r \in (p + 1)..(g - 1) : Nesting(r) > Nesting(p)
  BY <1>1, GroupNests
<1> HIDE DEF g
<1>3. Top(g) /\ p <= g
  BY <1>1, <1>2 DEF Top, Even
<1>4. ASSUME NEW r \in p..(g - 1) PROVE Spared(r)
  <2>1. g # p
    BY <1>1, <1>2
  <2>2. CASE r = p
    <3>1. Tok(r) \in Openers
      BY <1>2, <2>1, <2>2, BracketKinds
    <3>2. \A o \in Openers : o \notin {"func", "import"}
      BY KindsDiffer DEF Openers
    <3> QED BY <3>1, <3>2 DEF Spared
  <2>3. CASE r # p
    <3>1. r \in (p + 1)..(g - 1) /\ r \in 1..(Size + 1)
      BY <1>1, <1>2, <2>3
    <3>2. Nesting(r) > 0
      BY <1>2, <2>1, <3>1 DEF Top
    <3> QED BY <3>2 DEF Spared
  <2> QED BY <2>2, <2>3
<1>5. Passes(p, g)
  BY <1>3, <1>4 DEF Passes
<1> QED BY <1>5 DEF g

(* The recovery from a malformed declaration stops at the next keyword of    *)
(* the top level.                                                            *)
LEMMA PassesBoundary ==
  ASSUME CodeOK, Nested, NEW p, Top(p)
  PROVE  Passes(p, Boundary(p))
<1> DEFINE S == {q \in p..Size : TopLevelKeyword(q) /\ DepthFrom(p, q) = Level}
           e == Boundary(p)
<1>1. /\ Size \in Nat /\ p \in 1..(Size + 1) /\ p \in Nat /\ Nesting(p) = 0
      /\ \A r \in 1..(Size + 1) : Nesting(r) \in Nat
  BY CodeIsTokens DEF Top, Nested
<1>2. ASSUME NEW q \in p..Size PROVE DepthFrom(p, q) = Level <=> Nesting(q) = 0
  <2>1. q \in p..(Size + 1) /\ \A r \in p..q : r \in 1..(Size + 1)
    BY <1>1
  <2>2. \A r \in p..q : Nesting(r) >= Nesting(p)
    BY <1>1, <2>1
  <2> QED BY <1>1, <2>1, <2>2, DepthFromIs
<1>3. e \in p..(Size + 1)
  BY <1>1, BoundaryEnds
<1>4. S \in SUBSET Nat /\ e = Earliest(S, Size + 1)
  BY <1>1 DEF Boundary
<1>5. \A q : q \in S <=> q \in p..Size /\ TopLevelKeyword(q) /\ Nesting(q) = 0
  BY <1>2
<1> HIDE DEF S
<1>6. (e = Size + 1 \/ e \in S) /\ \A q \in S : e <= q
  BY <1>4, EarliestIs
<1> HIDE DEF e
<1>7. Top(e)
  <2>1. Nesting(Size + 1) = 0 /\ e \in 1..(Size + 1)
    BY <1>1, <1>3 DEF Nested
  <2> QED BY <1>5, <1>6, <2>1 DEF Top
<1>8. ASSUME NEW r \in p..(e - 1) PROVE Spared(r)
  <2>1. r \in p..Size /\ ~(e <= r)
    BY <1>1, <1>3
  <2>2. r \notin S
    BY <1>6, <2>1
  <2>3. ~(TopLevelKeyword(r) /\ Nesting(r) = 0)
    BY <1>5, <2>1, <2>2
  <2> QED BY <2>3 DEF Spared, TopLevelKeyword
<1>9. Passes(p, e)
  <2>1. p <= e
    BY <1>1, <1>3
  <2> QED BY <1>7, <1>8, <2>1 DEF Passes
<1> QED BY <1>9 DEF e

-----------------------------------------------------------------------------
(* Calls and struct literals close what they open.                          *)

(* _parse_unknown_arg stops where its depth is below that of its start.      *)
LEMMA UnknownNests ==
  ASSUME CodeOK, Nested, NEW p \in 1..(Size + 1)
  PROVE  Even(p, UnknownEnd(p))
<1> DEFINE S == {q \in p..Size : /\ code[q] \in {COMMA, ")", RBRACE, "]"}
                                 /\ DepthFrom(p, q) = Level}
           D == {q \in p..Size : Nesting(q + 1) < Nesting(p)}
           e == UnknownEnd(p)
<1>1. /\ Size \in Nat /\ p \in Nat /\ p \in p..(Size + 1)
      /\ \A r \in 1..(Size + 1) : Nesting(r) \in Nat
      /\ Nesting(Size + 1) = 0
      /\ \A r \in p..(Size + 1) : r \in 1..(Size + 1)
  BY CodeIsTokens DEF Nested
<1>2. e \in p..(Size + 1)
  BY UnknownEnds
<1>3. S \in SUBSET Nat /\ D \in SUBSET Nat /\ e = Earliest(S, Size + 1)
  BY <1>1 DEF UnknownEnd
<1>4. ((e = Size + 1 /\ S = {}) \/ e \in S) /\ \A q \in S : e <= q
  <2> HIDE DEF S
  <2> QED BY <1>3, EarliestIs
<1>5. ASSUME NEW r \in p..(Size + 1), \A q \in p..(r - 1) : q \notin D
      PROVE  Nesting(r) >= Nesting(p)
  <2>1. CASE r = p
    BY <1>1, <2>1
  <2>2. CASE r # p
    <3>1. r - 1 \in p..(r - 1) /\ r - 1 \in p..Size /\ r - 1 + 1 = r
      BY <1>1, <2>2
    <3>2. ~(Nesting(r) < Nesting(p))
      BY <1>5, <3>1
    <3> QED BY <1>1, <3>2
  <2> QED BY <2>1, <2>2
<1>6. \A q \in D : q >= e
  <2>1. CASE D = {}
    BY <2>1
  <2>2. CASE D # {}
    <3>1. PICK d \in D : IsFirst(d, D)
      BY <1>3, <2>2, LeastElement
    <3>2. /\ d \in p..Size /\ d \in 1..Size /\ d \in Nat /\ d \in 1..(Size + 1)
          /\ d \in p..(Size + 1) /\ d + 1 \in 1..(Size + 1)
          /\ Nesting(d + 1) < Nesting(p)
      BY <1>1
    <3>3. \A r \in p..d : Nesting(r) >= Nesting(p)
      <4> SUFFICES ASSUME NEW r \in p..d PROVE Nesting(r) >= Nesting(p)
        OBVIOUS
      <4>1. r \in p..(Size + 1) /\ \A q \in p..(r - 1) : ~(d <= q)
        BY <1>1, <3>2
      <4>2. \A q \in p..(r - 1) : q \notin D
        BY <3>1, <4>1 DEF IsFirst
      <4> QED BY <1>5, <4>1, <4>2
    <3>4. Nesting(d) >= Nesting(p)
      BY <1>1, <3>2, <3>3
    <3>5. Tok(d) \in Closers /\ Nesting(d) = Nesting(p)
      <4>1. /\ Nesting(d) \in Nat /\ Nesting(d + 1) \in Nat
            /\ \/ Nesting(d + 1) = Nesting(d) + 1
               \/ Tok(d) \in Closers /\ Nesting(d + 1) + 1 = Nesting(d)
               \/ Nesting(d + 1) = Nesting(d)
        BY <1>1, <3>2 DEF Nested
      <4> QED BY <1>1, <3>2, <3>4, <4>1
    <3>6. DepthFrom(p, d) = Level
      BY <3>2, <3>3, <3>5, DepthFromIs
    <3>7. code[d] \in {COMMA, ")", RBRACE, "]"}
      BY <3>2, <3>5, CodeIsTokens, PairsAre
    <3>8. d \in S
      BY <3>2, <3>6, <3>7
    <3>9. e <= d /\ \A q \in D : d <= q
      BY <1>4, <3>1, <3>8 DEF IsFirst
    <3>10. \A q \in D : q \in Nat
      BY <1>1
    <3> HIDE DEF D, S
    <3> QED BY <1>1, <1>2, <3>2, <3>9, <3>10
  <2> QED BY <2>1, <2>2
<1>7. \A r \in p..e : Nesting(r) >= Nesting(p)
  <2> SUFFICES ASSUME NEW r \in p..e PROVE Nesting(r) >= Nesting(p)
    OBVIOUS
  <2>1. r \in p..(Size + 1) /\ \A q \in p..(r - 1) : ~(q >= e)
    BY <1>1, <1>2
  <2>2. \A q \in p..(r - 1) : q \notin D
    BY <1>6, <2>1
  <2> QED BY <1>5, <2>1, <2>2
<1>8. Nesting(e) = Nesting(p)
  <2>1. CASE e \in S
    BY <1>2, <1>7, <2>1, DepthFromIs
  <2>2. CASE e = Size + 1
    <3>1. Nesting(Size + 1) >= Nesting(p)
      BY <1>1, <1>2, <1>7, <2>2
    <3> QED BY <1>1, <2>2, <3>1
  <2> QED BY <1>4, <2>1, <2>2
<1> QED BY <1>1, <1>2, <1>7, <1>8 DEF Even

LEMMA ChainIs ==
  ASSUME CodeOK, NEW p, IsId(p)
  PROVE  \A r \in p..(ChainEnd(p) - 1) : Tok(r) \in {"id", "var", "."}
<1> DEFINE Dotted(q) == \A r \in (p + 1)..(q - 1) :
                          IF (r - p) % 2 = 1 THEN Tok(r) = "." ELSE IsId(r)
           S == {q \in {p + 1 + 2 * k : k \in 0..Size} :
                   Dotted(q) /\ ~(Tok(q) = "." /\ IsId(q + 1))}
           e == ChainEnd(p)
<1>1. Size \in Nat /\ p \in 1..Size /\ p \in Nat /\ e \in (p + 1)..(Size + 1)
  BY CodeIsTokens, ChainEnds DEF IsId
<1>2. S \in SUBSET Nat /\ e = Earliest(S, p + 1)
  <2>1. e = Earliest(S, p + 1)
    BY DEF ChainEnd
  <2>2. \A k \in 0..Size : p + 1 + 2 * k \in Nat
    BY <1>1
  <2> QED BY <2>1, <2>2
<1>3. e = p + 1 \/ e \in S
  <2> HIDE DEF S
  <2> QED BY <1>2, EarliestIs
<1>4. e = p + 1 \/ Dotted(e)
  BY <1>3
<1> HIDE DEF e, S
<1>5. ASSUME NEW r \in p..(e - 1) PROVE Tok(r) \in {"id", "var", "."}
  <2>1. CASE r = p
    BY <2>1 DEF IsId
  <2>2. CASE r # p
    <3>1. r \in (p + 1)..(e - 1) /\ e # p + 1
      BY <1>1, <2>2
    <3>2. Tok(r) = "." \/ IsId(r)
      BY <1>4, <3>1
    <3> QED BY <3>2 DEF IsId
  <2> QED BY <2>1, <2>2
<1> QED BY <1>5 DEF e

LEMMA ChainNests ==
  ASSUME CodeOK, Nested, NEW p, IsId(p)
  PROVE  Even(p, ChainEnd(p))
<1>1. p \in 1..Size /\ ChainEnd(p) \in (p + 1)..(Size + 1)
  BY ChainEnds
<1>2. Size \in Nat /\ p \in 1..(Size + 1) /\ ChainEnd(p) \in p..(Size + 1)
  BY <1>1, CodeIsTokens
<1>3. \A r \in p..(ChainEnd(p) - 1) : Plain(r)
  BY ChainIs, PlainTokens DEF IsId
<1> QED BY <1>2, <1>3, EvenPlains

(* A list of arguments or fields ends with the bracket that closes it.       *)
ListNests(p, e) ==
  e # 0 => \E q \in p..Size : e = q + 1 /\ Tok(q) \in Closers /\ Even(p, q)

(* A call or a literal is a chain and a group.                               *)
MatchNests(p, m) ==
  m.kind # "none" =>
    /\ Even(p, m.end)
    /\ \A r \in p..(m.end - 1) :
         Nesting(r) = Nesting(p) => Tok(r) \notin {"func", "import"}

LEMMA ListStarts ==
  ASSUME CodeOK, Nested, NEW p, NEW d, Even(p, d), NEW e, ListNests(d, e)
  PROVE  ListNests(p, e)
<1> SUFFICES ASSUME e # 0 PROVE ListNests(p, e)
  BY DEF ListNests
<1>1. PICK q \in d..Size : e = q + 1 /\ Tok(q) \in Closers /\ Even(d, q)
  BY DEF ListNests
<1>2. Size \in Nat /\ p \in 1..(Size + 1) /\ d \in p..(Size + 1)
  BY CodeIsTokens DEF Even
<1>3. q \in p..Size
  BY <1>2
<1>4. Even(p, q)
  BY <1>1, EvenJoin
<1> QED BY <1>1, <1>3, <1>4 DEF ListNests

LEMMA ArgNests ==
  ASSUME CodeOK, Nested, NEW q \in 1..Size, NEW parse,
         MatchNests(q, parse[<<"match", q>>])
  PROVE  Even(q, ArgEndBy(parse, q)) /\ Even(q, PastComma(ArgEndBy(parse, q)))
<1> DEFINE m == parse[<<"match", q>>]
           end == ArgEndBy(parse, q)
<1>1. \/ (IsString(q) \/ Tok(q) = "num") /\ end = q + 1
      \/ m.kind # "none" /\ end = m.end
      \/ IsId(q) /\ end = ChainEnd(q)
      \/ end = UnknownEnd(q)
  BY DEF ArgEndBy
<1>2. q \in 1..(Size + 1)
  BY CodeIsTokens
<1>3. Even(q, end)
  <2>1. CASE (IsString(q) \/ Tok(q) = "num") /\ end = q + 1
    <3>1. Plain(q)
      BY <2>1, PlainTokens
    <3> QED BY <2>1, <3>1, EvenPlain
  <2>2. CASE m.kind # "none" /\ end = m.end
    BY <2>2 DEF MatchNests
  <2>3. CASE IsId(q) /\ end = ChainEnd(q)
    BY <2>3, ChainNests
  <2>4. CASE end = UnknownEnd(q)
    BY <1>2, <2>4, UnknownNests
  <2> QED BY <1>1, <2>1, <2>2, <2>3, <2>4
<1> HIDE DEF end
<1>4. Even(q, PastComma(end))
  <2>1. CASE Tok(end) = COMMA
    <3>1. Plain(end)
      BY <2>1, PlainTokens
    <3>2. Even(end, end + 1)
      BY <3>1, EvenPlain
    <3>3. PastComma(end) = end + 1
      BY <2>1 DEF PastComma
    <3> QED BY <1>3, <3>2, <3>3, EvenJoin
  <2>2. CASE Tok(end) # COMMA
    BY <1>3, <2>2 DEF PastComma
  <2> QED BY <2>1, <2>2
<1> QED BY <1>3, <1>4 DEF end

(* What the recursion keeps: a bracket and the list after it are a group.    *)
LEMMA MatchGroup ==
  ASSUME CodeOK, Nested, NEW first, IsId(first), NEW a, a = ChainEnd(first), a <= Size,
         Tok(a) \in Openers, NEW e \in Lists(a + 1), e # 0, ListNests(a + 1, e)
  PROVE  /\ Even(first, e)
         /\ \A r \in first..(e - 1) :
              Nesting(r) = Nesting(first) => Tok(r) \notin {"func", "import"}
<1>1. PICK q \in (a + 1)..Size : e = q + 1 /\ Tok(q) \in Closers /\ Even(a + 1, q)
  BY DEF ListNests
<1>2. /\ Size \in Nat /\ first \in 1..Size /\ a \in (first + 1)..(Size + 1)
      /\ Even(first, a)
      /\ \A r \in first..(a - 1) : Tok(r) \in {"id", "var", "."}
  BY CodeIsTokens, ChainEnds, ChainIs, ChainNests
<1>3. a \in 1..Size /\ a \in Nat /\ q \in Nat /\ first \in Nat
  BY <1>1, <1>2
<1>4. Even(a, q + 1) /\ \A r \in (a + 1)..q : Nesting(r) > Nesting(a)
  BY <1>1, <1>3, EvenGroup
<1>5. Even(first, e)
  BY <1>1, <1>2, <1>4, EvenJoin
<1>6. ASSUME NEW r \in first..(e - 1), Nesting(r) = Nesting(first)
      PROVE  Tok(r) \notin {"func", "import"}
  <2>1. r \in first..(a - 1) \/ r = a \/ r \in (a + 1)..q
    BY <1>1, <1>3
  <2>2. CASE r \in first..(a - 1)
    BY <1>2, <2>2
  <2>3. CASE r = a
    <3>1. \A o \in Openers : o \notin {"func", "import"}
      BY KindsDiffer DEF Openers
    <3> QED BY <2>3, <3>1
  <2>4. CASE r \in (a + 1)..q
    <3>1. Nesting(a) = Nesting(first) /\ a \in 1..(Size + 1) /\ r \in 1..(Size + 1)
      BY <1>2, <1>3, <2>4 DEF Even
    <3>2. Nesting(r) > Nesting(a) /\ Nesting(r) \in Nat /\ Nesting(a) \in Nat
      BY <1>4, <2>4, <3>1 DEF Nested
    <3> QED BY <1>6, <3>1, <3>2
  <2> QED BY <2>1, <2>2, <2>3, <2>4
<1> QED BY <1>5, <1>6

LEMMA MatchStepNests ==
  ASSUME CodeOK, Nested, NEW p \in 1..(Size + 1), NEW parse,
         \A q \in (p + 1)..(Size + 1) :
           /\ parse[<<"args", q>>] \in Lists(q) /\ ListNests(q, parse[<<"args", q>>])
           /\ parse[<<"fields", q>>] \in Lists(q) /\ ListNests(q, parse[<<"fields", q>>])
  PROVE  MatchNests(p, MatchBy(parse, p))
<1> DEFINE first == IF Tok(p) = "&" THEN p + 1 ELSE p
           after == ChainEnd(first)
           call == parse[<<"args", after + 1>>]
           literal == parse[<<"fields", after + 1>>]
           m == MatchBy(parse, p)
<1>1. Size \in Nat /\ p \in Nat /\ p <= Size + 1
  BY CodeIsTokens
<1>2. \/ m = NoMatch
      \/ /\ IsId(first) /\ ~(after > Size)
         /\ \/ Tok(after) = "(" /\ call # 0 /\ m = [kind |-> "call", end |-> call]
            \/ Tok(after) = LBRACE /\ literal # 0 /\ m = [kind |-> "struct", end |-> literal]
  BY DEF MatchBy
<1>3. first = p \/ (first = p + 1 /\ Tok(p) = "&")
  OBVIOUS
<1> HIDE DEF first, m
<1>4. CASE m = NoMatch
  BY <1>4 DEF NoMatch, MatchNests, m
<1>5. CASE /\ IsId(first) /\ ~(after > Size)
           /\ \/ Tok(after) = "(" /\ call # 0 /\ m = [kind |-> "call", end |-> call]
              \/ Tok(after) = LBRACE /\ literal # 0 /\ m = [kind |-> "struct", end |-> literal]
  <2>1. after \in (first + 1)..(Size + 1) /\ first \in 1..Size /\ Tok(after) \in Openers
    BY <1>5, ChainEnds DEF Openers
  <2>2. after + 1 \in (p + 1)..(Size + 1) /\ after <= Size /\ first \in Nat
    BY <1>1, <1>3, <1>5, <2>1
  <2> HIDE DEF after
  <2>3. /\ call \in Lists(after + 1) /\ ListNests(after + 1, call)
        /\ literal \in Lists(after + 1) /\ ListNests(after + 1, literal)
    BY <2>2
  <2>4. PICK e : e = m.end /\ e \in Lists(after + 1) /\ e # 0 /\ ListNests(after + 1, e)
    BY <1>5, <2>3
  <2> HIDE DEF call, literal
  <2>5. /\ Even(first, e)
        /\ \A r \in first..(e - 1) :
             Nesting(r) = Nesting(first) => Tok(r) \notin {"func", "import"}
    BY <1>5, <2>1, <2>2, <2>4, MatchGroup DEF after
  <2>6. CASE first = p
    BY <2>4, <2>5, <2>6 DEF MatchNests, m
  <2>7. CASE first = p + 1 /\ Tok(p) = "&"
    <3>1. Even(p, first)
      BY <2>7, PlainTokens, EvenPlain
    <3>2. Even(p, e) /\ Nesting(first) = Nesting(p)
      BY <2>5, <3>1, EvenJoin DEF Even
    <3>3. e \in Nat
      BY <1>1, <2>2, <2>4 DEF Lists
    <3>4. \A r \in p..(e - 1) : r = p \/ r \in first..(e - 1)
      BY <1>1, <2>7, <3>3
    <3> QED BY <2>4, <2>5, <2>7, <3>2, <3>4 DEF MatchNests, m
  <2> QED BY <1>3, <2>6, <2>7
<1> QED BY <1>2, <1>4, <1>5

LEMMA ArgsStepNests ==
  ASSUME CodeOK, Nested, NEW p \in 1..(Size + 1), NEW parse,
         parse[<<"match", p>>] \in Matches(p), MatchNests(p, parse[<<"match", p>>]),
         \A q \in (p + 1)..(Size + 1) : ListNests(q, parse[<<"args", q>>])
  PROVE  ListNests(p, ArgsBy(parse, p))
<1> DEFINE end == ArgEndBy(parse, p)
           next == PastComma(end)
           e == ArgsBy(parse, p)
<1>1. Size \in Nat /\ p \in Nat /\ p <= Size + 1
  BY CodeIsTokens
<1>2. \/ e = 0
      \/ p <= Size /\ Tok(p) = ")" /\ e = p + 1
      \/ p <= Size /\ Tok(p) = COMMA /\ e = parse[<<"args", p + 1>>]
      \/ p <= Size /\ ~(end <= p) /\ e = parse[<<"args", next>>]
  BY <1>1 DEF ArgsBy
<1>3. end \in p..(Size + 1) /\ next \in p..(Size + 1)
  BY ArgEnds
<1>4. ~(end <= p) => next \in (p + 1)..(Size + 1)
  BY <1>1, <1>3 DEF PastComma
<1> HIDE DEF end, next, e
<1>5. CASE e = 0
  BY <1>5 DEF ListNests, e
<1>6. CASE p <= Size /\ Tok(p) = ")" /\ e = p + 1
  <2>1. p \in p..Size /\ Tok(p) \in Closers /\ Even(p, p)
    BY <1>1, <1>6, EvenStart DEF Closers
  <2> QED BY <1>6, <2>1 DEF ListNests, e
<1>7. CASE p <= Size /\ Tok(p) = COMMA /\ e = parse[<<"args", p + 1>>]
  <2>1. Even(p, p + 1)
    BY <1>7, PlainTokens, EvenPlain
  <2>2. p + 1 \in (p + 1)..(Size + 1)
    BY <1>1, <1>7
  <2>3. ListNests(p + 1, e)
    BY <1>7, <2>2
  <2>4. ListNests(p, e)
    BY <2>1, <2>3, ListStarts
  <2> QED BY <2>4 DEF e
<1>8. CASE p <= Size /\ ~(end <= p) /\ e = parse[<<"args", next>>]
  <2>1. p \in 1..Size
    BY <1>1, <1>8
  <2>2. Even(p, next)
    BY <2>1, ArgNests DEF next, end
  <2>3. ListNests(next, e)
    BY <1>4, <1>8
  <2>4. ListNests(p, e)
    BY <2>2, <2>3, ListStarts
  <2> QED BY <2>4 DEF e
<1> QED BY <1>2, <1>5, <1>6, <1>7, <1>8

LEMMA FieldsStepNests ==
  ASSUME CodeOK, Nested, NEW p \in 1..(Size + 1), NEW parse,
         \A q \in (p + 1)..(Size + 1) :
           /\ parse[<<"match", q>>] \in Matches(q) /\ MatchNests(q, parse[<<"match", q>>])
           /\ ListNests(q, parse[<<"fields", q>>])
  PROVE  ListNests(p, FieldsBy(parse, p))
<1> DEFINE next == PastComma(ArgEndBy(parse, p + 2))
           Field == IsId(p) /\ Tok(p + 1) = ":" /\ p + 2 <= Size
           e == FieldsBy(parse, p)
<1>1. Size \in Nat /\ p \in Nat /\ p <= Size + 1
  BY CodeIsTokens
<1>2. \/ e = 0
      \/ p <= Size /\ Tok(p) = RBRACE /\ e = p + 1
      \/ p <= Size /\ Tok(p) = COMMA /\ e = parse[<<"fields", p + 1>>]
      \/ Field /\ e = parse[<<"fields", next>>]
  BY <1>1 DEF FieldsBy
<1>3. Field => p + 2 \in 1..Size /\ p + 2 \in (p + 1)..(Size + 1) /\ p + 2 \in 1..(Size + 1)
  BY <1>1
<1>4. Field => next \in (p + 2)..(Size + 1)
  BY <1>3, ArgEnds
<1> HIDE DEF next, e
<1>5. CASE e = 0
  BY <1>5 DEF ListNests, e
<1>6. CASE p <= Size /\ Tok(p) = RBRACE /\ e = p + 1
  <2>1. p \in p..Size /\ Tok(p) \in Closers /\ Even(p, p)
    BY <1>1, <1>6, EvenStart DEF Closers
  <2> QED BY <1>6, <2>1 DEF ListNests, e
<1>7. CASE p <= Size /\ Tok(p) = COMMA /\ e = parse[<<"fields", p + 1>>]
  <2>1. Even(p, p + 1)
    BY <1>7, PlainTokens, EvenPlain
  <2>2. p + 1 \in (p + 1)..(Size + 1)
    BY <1>1, <1>7
  <2>3. ListNests(p + 1, e)
    BY <1>7, <2>2
  <2>4. ListNests(p, e)
    BY <2>1, <2>3, ListStarts
  <2> QED BY <2>4 DEF e
<1>8. CASE Field /\ e = parse[<<"fields", next>>]
  <2>1. Even(p, p + 1) /\ Even(p + 1, p + 1 + 1)
    BY <1>8, PlainTokens, EvenPlain
  <2>2. p + 1 + 1 = p + 2
    BY <1>1
  <2>3. Even(p, p + 2)
    BY <2>1, <2>2, EvenJoin
  <2>4. Even(p + 2, next)
    BY <1>3, <1>8, ArgNests DEF next
  <2>5. next \in (p + 1)..(Size + 1)
    BY <1>1, <1>4, <1>8
  <2>6. ListNests(next, e)
    BY <1>8, <2>5
  <2>7. ListNests(p, e)
    BY <2>3, <2>4, <2>6, EvenJoin, ListStarts
  <2> QED BY <2>7 DEF e
<1> QED BY <1>2, <1>5, <1>6, <1>7, <1>8

(* What each of the parsers returns nests.                                   *)
Nests(x) ==
  IF x[1] = "match" THEN MatchNests(x[2], Parse[x]) ELSE ListNests(x[2], Parse[x])

LEMMA ParseNests ==
  ASSUME CodeOK, Nested
  PROVE  \A x \in Calls : Nests(x)
<1> DEFINE S == {x \in Calls : Nests(x)}
           n == 2 * Size + 1
<1>1. n \in Nat /\ CallRank \in [Calls -> 0..n]
  BY CodeIsTokens, RanksOfCalls
<1>2. ASSUME NEW x \in Calls, \A y \in Calls : CallRank[y] < CallRank[x] => y \in S
      PROVE  x \in S
  <2>1. \A y \in Later(x) : Nests(y) /\ Parse[y] \in Ends(y)
    BY <1>2, ParseIsDefined DEF Later
  <2>2. PICK name \in {"match", "args", "fields"}, p \in 1..(Size + 1) : x = <<name, p>>
    BY DEF Calls
  <2>3. \A q \in (p + 1)..(Size + 1) :
          /\ <<"match", q>> \in Later(x) /\ <<"args", q>> \in Later(x)
          /\ <<"fields", q>> \in Later(x)
    BY <2>2, RanksOfCalls
  <2>4. \A q \in (p + 1)..(Size + 1) :
          /\ Parse[<<"match", q>>] \in Matches(q) /\ MatchNests(q, Parse[<<"match", q>>])
          /\ Parse[<<"args", q>>] \in Lists(q) /\ ListNests(q, Parse[<<"args", q>>])
          /\ Parse[<<"fields", q>>] \in Lists(q) /\ ListNests(q, Parse[<<"fields", q>>])
    <3>1. \A q : /\ Nests(<<"match", q>>) <=> MatchNests(q, Parse[<<"match", q>>])
                 /\ Nests(<<"args", q>>) <=> ListNests(q, Parse[<<"args", q>>])
                 /\ Nests(<<"fields", q>>) <=> ListNests(q, Parse[<<"fields", q>>])
                 /\ Ends(<<"match", q>>) = Matches(q)
                 /\ Ends(<<"args", q>>) = Lists(q) /\ Ends(<<"fields", q>>) = Lists(q)
      BY DEF Nests, Ends
    <3> QED BY <2>1, <2>3, <3>1
  <2>5. Parse[x] = ParseBy(Parse, x)
    BY ParseIsDefined
  <2>6. CASE name = "match"
    <3>1. MatchNests(p, MatchBy(Parse, p))
      BY <2>4, MatchStepNests
    <3> QED BY <2>2, <2>5, <2>6, <3>1 DEF Nests, ParseBy
  <2>7. CASE name = "args"
    <3>1. <<"match", p>> \in Later(x)
      BY <2>2, <2>7, RanksOfCalls
    <3>2. Parse[<<"match", p>>] \in Matches(p) /\ MatchNests(p, Parse[<<"match", p>>])
      BY <2>1, <3>1 DEF Nests, Ends
    <3>3. ListNests(p, ArgsBy(Parse, p))
      BY <2>4, <3>2, ArgsStepNests
    <3> QED BY <2>2, <2>5, <2>7, <3>3 DEF Nests, ParseBy
  <2>8. CASE name = "fields"
    <3>1. ListNests(p, FieldsBy(Parse, p))
      BY <2>4, FieldsStepNests
    <3> QED BY <2>2, <2>5, <2>8, <3>1 DEF Nests, ParseBy
  <2> QED BY <2>6, <2>7, <2>8
<1>3. S = Calls
  <2>1. S \in SUBSET Calls
    OBVIOUS
  <2> HIDE DEF S, n
  <2> QED BY <1>1, <1>2, <2>1, RankInduction
<1> QED BY <1>3

LEMMA RecognizedNests ==
  ASSUME CodeOK, Nested, NEW p \in 1..(Size + 1)
  PROVE  MatchNests(p, Recognized[p])
<1>1. <<"match", p>> \in Calls
  BY DEF Calls
<1>2. MatchNests(p, Parse[<<"match", p>>])
  BY <1>1, ParseNests DEF Nests
<1> QED BY <1>2, RecognizedIs

-----------------------------------------------------------------------------
(* Declarations leave the top level, and pass over no other one.            *)

LEMMA ReturnPasses ==
  ASSUME CodeOK, Nested, NEW start, Top(start)
  PROVE  Passes(start, ReturnTypeEnd(start))
<1> DEFINE n == Size + 1
           D == start..n
           rank == FromEnd(start, n)
<1>1. n \in Nat /\ Size \in Nat /\ start \in 1..n /\ start \in D
  BY CodeIsTokens DEF Top
<1>2. /\ rank \in [D -> 0..n]
      /\ \A p, q \in D : rank[q] < rank[p] <=> q \in (p + 1)..n
  <2> HIDE DEF n
  <2> QED BY <1>1, FromEndRanks
<1>3. PICK scan :
        /\ ReturnTypeEnd(start) = scan[start]
        /\ \A p \in D : scan[p] = ReturnBy(scan, p)
  BY <1>1, ReturnIsDefined
<1> DEFINE S == {p \in D : Top(p) => Passes(p, scan[p])}
<1>4. ASSUME NEW p \in D, Top(p),
             ~(p > Size \/ Tok(p) = LBRACE \/ TopLevelKeyword(p))
      PROVE  PastReturn(p) \in (p + 1)..n /\ Passes(p, PastReturn(p))
  <2>0. p \in 1..Size /\ p \in Nat
    BY <1>1, <1>4
  <2>1. CASE Tok(p) = "("
    <3>1. PastReturn(p) = PastGroup(p, <<"(", ")">>[1], <<"(", ")">>[2])
      BY <2>1 DEF PastReturn
    <3>2. Passes(p, PastReturn(p))
      BY <1>4, <3>1, PairsAre, PassesGroup
    <3>3. PastReturn(p) # p
      BY <2>0, <2>1, PastGroupEnds DEF PastReturn
    <3> QED BY <1>1, <3>2, <3>3 DEF Passes, Top
  <2>2. CASE Tok(p) = "["
    <3>1. PastReturn(p) = PastGroup(p, <<"[", "]">>[1], <<"[", "]">>[2])
      BY <2>2 DEF PastReturn
    <3>2. Passes(p, PastReturn(p))
      BY <1>4, <3>1, PairsAre, PassesGroup
    <3>3. PastReturn(p) # p
      BY <2>0, <2>2, PastGroupEnds DEF PastReturn
    <3> QED BY <1>1, <3>2, <3>3 DEF Passes, Top
  <2>3. CASE Tok(p) # "(" /\ Tok(p) # "["
    <3>1. PastReturn(p) = p + 1
      BY <2>3 DEF PastReturn
    <3>2. Tok(p) \notin Openers
      BY <1>4, <2>3, PairsAre
    <3>3. Tok(p) \notin Closers
      <4>1. p + 1 \in 1..(Size + 1)
        BY <2>0, <1>1
      <4>2. Nesting(p + 1) \in Nat /\ Nesting(p) = 0
        BY <1>4, <4>1 DEF Nested, Top
      <4> QED BY <2>0, <4>2 DEF Nested
    <3>4. Plain(p) /\ Tok(p) \notin {"func", "import"}
      BY <1>4, <2>0, <3>2, <3>3 DEF Plain, TopLevelKeyword
    <3>5. Passes(p, PastReturn(p))
      BY <1>4, <3>1, <3>4, PassesToken
    <3> QED BY <1>1, <2>0, <3>1, <3>5
  <2> QED BY <2>1, <2>2, <2>3
<1>5. ASSUME NEW p \in D, \A q \in D : rank[q] < rank[p] => q \in S PROVE p \in S
  <2> SUFFICES ASSUME Top(p) PROVE Passes(p, scan[p])
    OBVIOUS
  <2>1. CASE p > Size \/ Tok(p) = LBRACE \/ TopLevelKeyword(p)
    <3>1. scan[p] = p
      BY <1>3, <2>1 DEF ReturnBy
    <3>2. p <= p /\ \A r \in p..(p - 1) : FALSE
      BY <1>1
    <3> QED BY <3>1, <3>2 DEF Passes
  <2>2. CASE ~(p > Size \/ Tok(p) = LBRACE \/ TopLevelKeyword(p))
    <3>1. PastReturn(p) \in (p + 1)..n /\ Passes(p, PastReturn(p))
      BY <1>4, <2>2
    <3>2. PastReturn(p) # 0 /\ PastReturn(p) \in D
      BY <1>1, <3>1
    <3>3. scan[p] = scan[PastReturn(p)]
      BY <1>3, <2>2, <3>2 DEF ReturnBy
    <3>4. PastReturn(p) \in S /\ Top(PastReturn(p))
      BY <1>2, <1>5, <3>1, <3>2 DEF Passes
    <3>5. Passes(PastReturn(p), scan[PastReturn(p)])
      BY <3>4
    <3> QED BY <3>1, <3>3, <3>5, PassesJoin
  <2> QED BY <2>1, <2>2
<1>6. S = D
  <2>1. S \in SUBSET D /\ n \in Nat /\ rank \in [D -> 0..n]
    BY <1>1, <1>2
  <2>2. \A p \in D : (\A q \in D : rank[q] < rank[p] => q \in S) => p \in S
    BY <1>5
  <2> HIDE DEF S, D, n, rank
  <2> QED BY <2>1, <2>2, RankInduction
<1> QED BY <1>1, <1>3, <1>6

LEMMA TopNext ==
  ASSUME CodeOK, Nested, NEW p, Top(p), Plain(p), NEW e, e = p + 1
  PROVE  Top(e)
<1>1. Size \in Nat /\ Even(p, e)
  BY CodeIsTokens, EvenPlain
<1> QED BY <1>1 DEF Top, Even

LEMMA FuncPasses ==
  ASSUME CodeOK, Nested, NEW p, Top(p), Tok(p) = "func"
  PROVE  FuncDecl(p).end = 0 \/ Passes(p + 1, FuncDecl(p).end)
<1> DEFINE next == p + 1
           name == PastGroup(next, "(", ")")
           params == PastGroup(name + 1, "[", "]")
           result == PastGroup(params, "(", ")")
<1>1. FuncDecl(p).end =
        IF name = 0 \/ ~IsId(name) \/ params = 0 \/ Tok(params) # "(" \/ result = 0
          THEN 0 ELSE ReturnTypeEnd(result)
  BY DEF FuncDecl
<1>2. Plain(p)
  BY PlainTokens DEF TopLevelKeyword
<1>3. Top(next)
  BY <1>2, TopNext
<1> HIDE DEF next
<1>4. /\ <<"(", ")">> \in Pairs /\ <<"(", ")">>[1] = "(" /\ <<"(", ")">>[2] = ")"
      /\ <<"[", "]">> \in Pairs /\ <<"[", "]">>[1] = "[" /\ <<"[", "]">>[2] = "]"
  BY PairsAre
<1>5. /\ \A q : Top(q) => Passes(q, PastGroup(q, "(", ")"))
      /\ \A q : Top(q) => Passes(q, PastGroup(q, "[", "]"))
  <2>1. \A q : Top(q) => \A b \in Pairs : Passes(q, PastGroup(q, b[1], b[2]))
    BY PassesGroup
  <2> QED BY <1>4, <2>1
<1>6. Passes(next, name) /\ Top(name)
  BY <1>3, <1>5 DEF Passes
<1> HIDE DEF name
<1>7. CASE name = 0 \/ ~IsId(name) \/ params = 0 \/ Tok(params) # "(" \/ result = 0
  BY <1>1, <1>7
<1>8. CASE ~(name = 0 \/ ~IsId(name) \/ params = 0 \/ Tok(params) # "(" \/ result = 0)
  <2> DEFINE rest == name + 1
  <2>1. Plain(name) /\ Tok(name) \notin {"func", "import"}
    BY <1>8, PlainTokens DEF IsId
  <2>2. Passes(name, rest) /\ Top(rest)
    BY <1>6, <2>1, PassesToken DEF Passes
  <2>3. params = PastGroup(rest, "[", "]")
    OBVIOUS
  <2> HIDE DEF rest, params
  <2>4. Passes(rest, params) /\ Top(params)
    BY <1>5, <2>2, <2>3 DEF Passes
  <2>5. Passes(params, result) /\ Top(result)
    BY <1>5, <2>4 DEF Passes
  <2> HIDE DEF result
  <2>6. Passes(result, ReturnTypeEnd(result))
    BY <2>5, ReturnPasses
  <2>7. Passes(next, ReturnTypeEnd(result))
    BY <1>6, <2>2, <2>4, <2>5, <2>6, PassesJoin
  <2> QED BY <1>1, <1>8, <2>7 DEF next
<1> QED BY <1>7, <1>8

(* A plain function is never malformed.                                      *)
LEMMA PlainFunctionIsOne ==
  ASSUME CodeOK, Nested, NEW p, Top(p), Tok(p) = "func", Tok(p + 1) = "id", Tok(p + 2) = "("
  PROVE  FuncDecl(p).end # 0 /\ FuncDecl(p).yields = <<Event("func", p, FuncDecl(p).end)>>
<1> DEFINE result == PastGroup(p + 2, "(", ")")
<1>1. /\ Size \in Nat /\ p \in Nat /\ p + 1 \in 1..Size /\ p + 2 \in 1..Size
      /\ p + 1 + 1 = p + 2
  BY CodeIsTokens DEF Top
<1>2. PastGroup(p + 1, "(", ")") = p + 1
  BY DEF PastGroup
<1>3. PastGroup(p + 1 + 1, "[", "]") = p + 2
  BY <1>1 DEF PastGroup
<1>4. Top(p + 2)
  <2>1. Plain(p) /\ Plain(p + 1)
    BY PlainTokens DEF TopLevelKeyword, IsId
  <2>2. Top(p + 1)
    BY <2>1, TopNext
  <2> QED BY <1>1, <2>1, <2>2, TopNext
<1>5. Passes(p + 2, result)
  <2>1. <<"(", ")">> \in Pairs /\ <<"(", ")">>[1] = "(" /\ <<"(", ")">>[2] = ")"
    BY PairsAre
  <2> QED BY <1>4, <2>1, PassesGroup
<1>6. Top(result) /\ result # 0
  BY <1>5 DEF Passes, Top
<1> HIDE DEF result
<1>7. ReturnTypeEnd(result) # 0
  BY <1>6, ReturnPasses DEF Passes, Top
<1>8. FuncDecl(p).end = ReturnTypeEnd(result)
  <2>1. p + 1 # 0 /\ p + 2 # 0 /\ IsId(p + 1)
    BY <1>1 DEF IsId
  <2> QED BY <1>2, <1>3, <1>6, <2>1 DEF FuncDecl, result
<1>9. FuncDecl(p).yields = IF FuncDecl(p).end = 0 THEN << >>
                           ELSE <<Event("func", p, FuncDecl(p).end)>>
  BY DEF FuncDecl
<1> QED BY <1>7, <1>8, <1>9

LEMMA TypePasses ==
  ASSUME CodeOK, Nested, NEW p, Top(p), Tok(p) = "type"
  PROVE  TypeDecl(p).end = 0 \/ Passes(p, TypeDecl(p).end)
<1> DEFINE next == p + 1
           named == IF IsId(next) THEN p + 2 ELSE next
           assigned == IF Tok(named) = "=" THEN named + 1 ELSE named
           body == PastGroup(assigned, "[", "]")
<1>1. TypeDecl(p).end =
        CASE Tok(next) = "(" -> PastGroup(next, "(", ")")
          [] Tok(next) # "(" /\ body = 0 -> 0
          [] Tok(next) # "(" /\ body > Size -> Size + 1
          [] Tok(body) = "struct" -> PastGroup(body + 1, LBRACE, RBRACE)
          [] OTHER -> Boundary(body)
  BY DEF TypeDecl
<1>2. /\ \A q : Top(q) => Passes(q, PastGroup(q, "(", ")"))
      /\ \A q : Top(q) => Passes(q, PastGroup(q, "[", "]"))
      /\ \A q : Top(q) => Passes(q, PastGroup(q, LBRACE, RBRACE))
  <2>1. /\ <<"(", ")">> \in Pairs /\ <<"(", ")">>[1] = "(" /\ <<"(", ")">>[2] = ")"
        /\ <<"[", "]">> \in Pairs /\ <<"[", "]">>[1] = "[" /\ <<"[", "]">>[2] = "]"
        /\ <<LBRACE, RBRACE>> \in Pairs
        /\ <<LBRACE, RBRACE>>[1] = LBRACE /\ <<LBRACE, RBRACE>>[2] = RBRACE
    BY PairsAre
  <2>2. \A q : Top(q) => \A b \in Pairs : Passes(q, PastGroup(q, b[1], b[2]))
    BY PassesGroup
  <2> QED BY <2>1, <2>2
<1>3. Size \in Nat /\ p \in Nat
  BY CodeIsTokens DEF Top
<1>4. Passes(p, next) /\ Top(next)
  <2>1. Plain(p)
    BY PlainTokens DEF TopLevelKeyword
  <2> QED BY <2>1, PassesToken DEF Passes
<1>5. named = IF IsId(next) THEN next + 1 ELSE next
  BY <1>3
<1> HIDE DEF next, named
<1>6. Passes(p, named) /\ Top(named)
  <2>1. CASE IsId(next)
    <3>1. Plain(next) /\ Tok(next) \notin {"func", "import"}
      BY <2>1, PlainTokens DEF IsId
    <3>2. named = next + 1
      BY <1>5, <2>1
    <3>3. Passes(next, named)
      BY <1>4, <3>1, <3>2, PassesToken
    <3> QED BY <1>4, <3>3, PassesJoin DEF Passes
  <2>2. CASE ~IsId(next)
    BY <1>4, <1>5, <2>2
  <2> QED BY <2>1, <2>2
<1>7. Passes(p, assigned) /\ Top(assigned)
  <2>1. CASE Tok(named) = "="
    <3>1. Plain(named) /\ Tok(named) \notin {"func", "import"}
      BY <2>1, PlainTokens
    <3>2. assigned = named + 1
      BY <2>1
    <3> HIDE DEF assigned
    <3>3. Passes(named, assigned)
      BY <1>6, <3>1, <3>2, PassesToken
    <3> QED BY <1>6, <3>3, PassesJoin DEF Passes
  <2>2. CASE Tok(named) # "="
    BY <1>6, <2>2
  <2> QED BY <2>1, <2>2
<1> HIDE DEF assigned
<1>8. Passes(p, body) /\ Top(body)
  BY <1>2, <1>7, PassesJoin DEF Passes
<1> HIDE DEF body
<1>9. \/ TypeDecl(p).end = PastGroup(next, "(", ")")
      \/ TypeDecl(p).end = 0
      \/ body > Size /\ TypeDecl(p).end = Size + 1
      \/ Tok(body) = "struct" /\ TypeDecl(p).end = PastGroup(body + 1, LBRACE, RBRACE)
      \/ TypeDecl(p).end = Boundary(body)
  BY <1>1
<1>10. CASE TypeDecl(p).end = PastGroup(next, "(", ")")
  BY <1>2, <1>4, <1>10, PassesJoin
<1>11. CASE body > Size /\ TypeDecl(p).end = Size + 1
  <2>1. body = Size + 1
    BY <1>3, <1>8, <1>11 DEF Top
  <2> QED BY <1>8, <1>11, <2>1
<1>12. CASE Tok(body) = "struct" /\ TypeDecl(p).end = PastGroup(body + 1, LBRACE, RBRACE)
  <2> DEFINE inner == body + 1
  <2>1. Plain(body)
    BY <1>12, PlainTokens
  <2>2. Passes(body, inner) /\ Top(inner)
    BY <1>8, <1>12, <2>1, PassesToken DEF Passes
  <2>3. TypeDecl(p).end = PastGroup(inner, LBRACE, RBRACE)
    BY <1>12
  <2> HIDE DEF inner
  <2> QED BY <1>2, <1>8, <2>2, <2>3, PassesJoin
<1>13. CASE TypeDecl(p).end = Boundary(body)
  BY <1>8, <1>13, PassesBoundary, PassesJoin
<1> QED BY <1>9, <1>10, <1>11, <1>12, <1>13

LEMMA ImportPasses ==
  ASSUME CodeOK, Nested, ClausesWellFormed, NEW p, Top(p), Tok(p) = "import"
  PROVE  /\ ImportDecl(p).end # 0
         /\ Passes(p + 1, ImportDecl(p).end)
         /\ IsString(p + 1) => ImportDecl(p).yields = <<Event("import", p + 1, p + 2)>>
<1> DEFINE next == p + 1
           end == Matching(next, "(", ")")
           path == AfterAlias(next)
           decl == ImportDecl(p)
<1>1. Size \in Nat /\ p \in Nat /\ p \in 1..Size /\ p + 2 = next + 1
  BY CodeIsTokens DEF Top
<1>2. /\ Tok(next) # "(" => PathAt(next)
      /\ Tok(next) = "(" => end # 0
  BY <1>1 DEF ClausesWellFormed
<1>3. Top(next)
  BY PlainTokens, TopNext DEF TopLevelKeyword
<1>4. /\ Tok(next) = "(" => decl.end = IF end = 0 THEN 0 ELSE end + 1
      /\ Tok(next) # "(" =>
           /\ decl.end = IF path > Size THEN Size + 1 ELSE path + 1
           /\ decl.yields = IF IsString(path) THEN <<Event("import", next, path + 1)>>
                            ELSE << >>
  BY DEF ImportDecl
<1> SUFFICES /\ decl.end # 0 /\ Passes(next, decl.end)
             /\ IsString(next) => decl.yields = <<Event("import", next, next + 1)>>
  BY <1>1
<1>5. path = IF IsId(next) \/ Tok(next) = "." THEN next + 1 ELSE next
  BY DEF AfterAlias
<1>6. \A q : Passes(next, q) => q # 0
  BY <1>1 DEF Passes, Top
<1> HIDE DEF path, decl
<1>7. CASE Tok(next) = "("
  <2>1. PastGroup(next, "(", ")") = end + 1
    BY <1>2, <1>7 DEF PastGroup
  <2>2. Passes(next, PastGroup(next, "(", ")"))
    <3>1. <<"(", ")">> \in Pairs /\ <<"(", ")">>[1] = "(" /\ <<"(", ")">>[2] = ")"
      BY PairsAre
    <3> QED BY <1>3, <3>1, PassesGroup
  <2>3. ~IsString(next)
    BY <1>7 DEF IsString
  <2> QED BY <1>2, <1>4, <1>6, <1>7, <2>1, <2>2, <2>3
<1>8. CASE Tok(next) # "("
  <2> HIDE DEF next
  <2>1. IsString(path) /\ Passes(next, path) /\ (IsString(next) => path = next)
    <3>1. CASE IsString(next)
      <4>1. ~(IsId(next) \/ Tok(next) = ".")
        BY <3>1 DEF IsString, IsId
      <4>2. path = next /\ Passes(next, next)
        <5>1. next \in Nat
          BY <1>1, <1>3 DEF Top
        <5>2. next <= next /\ \A r \in next..(next - 1) : FALSE
          BY <5>1
        <5> QED BY <1>3, <1>5, <4>1, <5>2 DEF Passes
      <4> QED BY <3>1, <4>2
    <3>2. CASE ~IsString(next)
      <4>1. (IsId(next) \/ Tok(next) = ".") /\ IsString(next + 1)
        BY <1>2, <1>8, <3>2 DEF PathAt
      <4>2. path = next + 1
        BY <1>5, <4>1
      <4>3. Plain(next) /\ Tok(next) \notin {"func", "import"}
        BY <4>1, PlainTokens DEF IsId
      <4> QED BY <1>3, <3>2, <4>1, <4>2, <4>3, PassesToken
    <3> QED BY <3>1, <3>2
  <2>2. Plain(path) /\ Tok(path) \notin {"func", "import"} /\ Top(path) /\ path \in 1..Size
    BY <2>1, PlainTokens DEF IsString, Passes, Plain
  <2>3. decl.end = path + 1
    BY <1>1, <1>4, <1>8, <2>2
  <2>4. Passes(path, decl.end)
    BY <2>2, <2>3, PassesToken
  <2>5. Passes(next, decl.end)
    BY <2>1, <2>4, PassesJoin
  <2> QED BY <1>4, <1>6, <1>8, <2>1, <2>5
<1> QED BY <1>7, <1>8

-----------------------------------------------------------------------------
(* The walk over a file with balanced brackets and whole clauses.           *)

PlainImport(p) == Tok(p) = "import" /\ IsString(p + 1) /\ Opens(p) = Closes(p)

KeptIn(p, new) ==
  /\ PlainFunction(p) => \E i \in DOMAIN new : new[i].kind = "func" /\ new[i].from = p
  /\ PlainImport(p) => \E i \in DOMAIN new : new[i].kind = "import" /\ new[i].from = p + 1

(* The event of p is there.                                                  *)
Kept(p) ==
  /\ PlainFunction(p) =>
       \E i \in DOMAIN events : events[i].kind = "func" /\ events[i].from = p
  /\ PlainImport(p) =>
       \E i \in DOMAIN events : events[i].kind = "import" /\ events[i].from = p + 1

WalkInv ==
  /\ phase = "scan" => cursor = 1 /\ depth = Level
  /\ BracketsBalance /\ ClausesWellFormed =>
       /\ phase = "walk" => \A c : c = cursor => depth = Levels(c, 0, 0, 0)
       /\ phase \in {"walk", "walked"} => \A p \in 1..Size : p < cursor => Kept(p)

LEMMA SameNesting ==
  ASSUME code' = code
  PROVE  /\ Size' = Size
         /\ BracketsBalance' <=> BracketsBalance
         /\ \A p : (PlainFunction(p)' <=> PlainFunction(p)) /\ (PlainImport(p)' <=> PlainImport(p))
         /\ \A c : Levels(c, 0, 0, 0)' = Levels(c, 0, 0, 0)
<1>1. /\ Size' = Size
      /\ \A q : /\ Tok(q)' = Tok(q)
                /\ IsString(q)' <=> IsString(q)
  BY DEF Size, Tok, IsString
<1>2. \A p : Opens(p)' = Opens(p) /\ Closes(p)' = Closes(p)
  BY DEF Opens, Closes
<1>3. BracketsBalance' <=> BracketsBalance
  BY <1>1, <1>2 DEF BracketsBalance
<1>4. \A p : (PlainFunction(p)' <=> PlainFunction(p)) /\ (PlainImport(p)' <=> PlainImport(p))
  BY <1>1, <1>2 DEF PlainFunction, PlainImport
<1>5. \A p : Nesting(p)' = Nesting(p)
  BY <1>2 DEF Nesting
<1>6. \A o, c : Unclosed(o, c)' = Unclosed(o, c)
  BY <1>1, <1>5 DEF Unclosed
<1>7. \A o, c : Pending(o, c)' = Pending(o, c)
  BY <1>6 DEF Pending
<1>8. \A c : Levels(c, 0, 0, 0)' = Levels(c, 0, 0, 0)
  BY <1>7 DEF Levels
<1> QED BY <1>1, <1>3, <1>4, <1>8

LEMMA TopIsLevel ==
  ASSUME CodeOK, Nested, NEW c \in 1..(Size + 1)
  PROVE  Levels(c, 0, 0, 0) = Level <=> Nesting(c) = 0
<1> DEFINE x == Pending("(", c)
           y == Pending(LBRACE, c)
           z == Pending("[", c)
<1>1. x \in Nat /\ y \in Nat /\ z \in Nat /\ Nesting(c) = x + y + z
  BY PendingAreNumbers, NestingIsPending
<1>2. Levels(c, 0, 0, 0) = [paren |-> x, brace |-> y, bracket |-> z]
  BY <1>1 DEF Levels
<1> HIDE DEF x, y, z
<1>3. Levels(c, 0, 0, 0) = Level <=> x = 0 /\ y = 0 /\ z = 0
  BY <1>2 DEF Level
<1> QED BY <1>1, <1>3

(* What is spared loses no event, whatever is yielded.                       *)
LEMMA SparedIsKept ==
  ASSUME CodeOK, Nested, NEW p \in 1..Size, Spared(p), NEW new
  PROVE  KeptIn(p, new)
<1>1. Opens(p) = Closes(p) => Nesting(p) = 0
  <2>1. p \in Nat /\ 1 <= p
    BY CodeIsTokens
  <2>2. Opens(p) \in Nat
    BY <2>1, CountOne DEF Opens
  <2> QED BY <2>2 DEF Nesting
<1> QED BY <1>1 DEF KeptIn, PlainFunction, PlainImport, Spared

LEMMA EventsStay ==
  ASSUME CodeOK, Nested, code' = code, cursor \in 1..Size,
         NEW e \in (cursor + 1)..(Size + 1), cursor' = e,
         NEW S, events \in Seq(S), NEW new \in Seq(S), events' = events \o new,
         \A p \in 1..Size : p < cursor => Kept(p),
         KeptIn(cursor, new), \A r \in (cursor + 1)..(e - 1) : Spared(r)
  PROVE  (\A p \in 1..Size : p < cursor => Kept(p))'
<1> SUFFICES ASSUME NEW p \in 1..Size, p < cursor' PROVE Kept(p)'
  BY SameNesting
<1>1. /\ \A i \in DOMAIN events : i \in DOMAIN events' /\ events'[i] = events[i]
      /\ \A i \in DOMAIN new : \E k \in DOMAIN events' : events'[k] = new[i]
  <2>1. \A i \in DOMAIN events : i \in DOMAIN events' /\ events'[i] = events[i]
    OBVIOUS
  <2>2. ASSUME NEW i \in DOMAIN new PROVE \E k \in DOMAIN events' : events'[k] = new[i]
    <3>1. Len(events) + i \in DOMAIN events' /\ events'[Len(events) + i] = new[i]
      OBVIOUS
    <3> QED BY <3>1
  <2> QED BY <2>1, <2>2
<1>2. (PlainFunction(p)' <=> PlainFunction(p)) /\ (PlainImport(p)' <=> PlainImport(p))
  BY SameNesting
<1>3. Kept(p) \/ KeptIn(p, new)
  <2>1. p < cursor \/ p = cursor \/ p \in (cursor + 1)..(e - 1)
    BY CodeIsTokens
  <2> QED BY <2>1, SparedIsKept
<1>4. CASE Kept(p)
  <2>1. ASSUME PlainFunction(p)
        PROVE  \E k \in DOMAIN events' : events'[k].kind = "func" /\ events'[k].from = p
    <3>1. PICK i \in DOMAIN events : events[i].kind = "func" /\ events[i].from = p
      BY <1>4, <2>1 DEF Kept
    <3> QED BY <1>1, <3>1
  <2>2. ASSUME PlainImport(p)
        PROVE  \E k \in DOMAIN events' : events'[k].kind = "import" /\ events'[k].from = p + 1
    <3>1. PICK i \in DOMAIN events : events[i].kind = "import" /\ events[i].from = p + 1
      BY <1>4, <2>2 DEF Kept
    <3> QED BY <1>1, <3>1
  <2> QED BY <1>2, <2>1, <2>2 DEF Kept
<1>5. CASE KeptIn(p, new)
  <2>1. ASSUME PlainFunction(p)
        PROVE  \E k \in DOMAIN events' : events'[k].kind = "func" /\ events'[k].from = p
    <3>1. PICK i \in DOMAIN new : new[i].kind = "func" /\ new[i].from = p
      BY <1>5, <2>1 DEF KeptIn
    <3>2. PICK k \in DOMAIN events' : events'[k] = new[i]
      BY <1>1
    <3> QED BY <3>1, <3>2
  <2>2. ASSUME PlainImport(p)
        PROVE  \E k \in DOMAIN events' : events'[k].kind = "import" /\ events'[k].from = p + 1
    <3>1. PICK i \in DOMAIN new : new[i].kind = "import" /\ new[i].from = p + 1
      BY <1>5, <2>2 DEF KeptIn
    <3>2. PICK k \in DOMAIN events' : events'[k] = new[i]
      BY <1>1
    <3> QED BY <3>1, <3>2
  <2> QED BY <1>2, <2>1, <2>2 DEF Kept
<1> QED BY <1>3, <1>4, <1>5

(* A step of the walk to e that yields new.                                  *)
LEMMA WalkMoves ==
  ASSUME CodeOK, WalkInv, ImportsInv, phase = "walk", phase' = phase, code' = code,
         cursor \in 1..Size, NEW e \in (cursor + 1)..(Size + 1), cursor' = e,
         NEW new, events' = events \o new,
         Nested /\ BracketsBalance /\ ClausesWellFormed =>
           /\ new \in Seq(Harmless)
           /\ depth' = Levels(e, 0, 0, 0)
           /\ KeptIn(cursor, new)
           /\ \A r \in (cursor + 1)..(e - 1) : Spared(r)
  PROVE  WalkInv'
<1>1. /\ BracketsBalance' <=> BracketsBalance
      /\ ClausesWellFormed' <=> ClausesWellFormed
      /\ \A c : Levels(c, 0, 0, 0)' = Levels(c, 0, 0, 0)
  BY SameNesting, SameImports
<1>2. CASE ~(BracketsBalance /\ ClausesWellFormed)
  BY <1>1, <1>2 DEF WalkInv
<1>3. CASE BracketsBalance /\ ClausesWellFormed
  <2>1. Nested
    BY <1>3, BalanceNests
  <2>2. events \in Seq(Harmless) /\ \A p \in 1..Size : p < cursor => Kept(p)
    BY <1>3 DEF WalkInv, ImportsInv
  <2>3. (\A p \in 1..Size : p < cursor => Kept(p))'
    BY <1>3, <2>1, <2>2, EventsStay
  <2>4. depth' = Levels(e, 0, 0, 0)
    BY <1>3, <2>1
  <2>5. \A c : c = cursor' => depth' = Levels(c, 0, 0, 0)'
    BY <1>1, <2>4
  <2> QED BY <2>3, <2>5 DEF WalkInv
<1> QED BY <1>2, <1>3

LEMMA WalkInvSteps ==
  ASSUME RecognizerTypes, ImportsInv, WalkInv, [RecognizerNext]_recognizerVars
  PROVE  WalkInv'
<1>1. /\ CodeOK /\ Size \in Nat /\ cursor \in Nat /\ cursor \in 1..(Size + 1)
      /\ cursor <= Size => /\ cursor \in 1..Size
                           /\ cursor + 1 \in (cursor + 1)..(Size + 1)
                           /\ cursor + 1 \in 1..(Size + 1)
  BY CodeIsTokens DEF RecognizerTypes
<1>2. code' = code
  BY DEF RecognizerNext, SkipFile, BeginWalk, WalkPackage, WalkVariable, WalkDeclaration,
         Recover, WalkConstruct, WalkToken, Walked, MoveTo, recognizerVars
<1>3. /\ Size' = Size
      /\ BracketsBalance' <=> BracketsBalance
      /\ ClausesWellFormed' <=> ClausesWellFormed
      /\ \A c : Levels(c, 0, 0, 0)' = Levels(c, 0, 0, 0)
      /\ \A p : (PlainFunction(p)' <=> PlainFunction(p)) /\ (PlainImport(p)' <=> PlainImport(p))
  BY <1>2, SameNesting, SameImports
<1>4. << >> \in Seq(Harmless) /\ \A k \in Harmless : <<k>> \in Seq(Harmless)
  OBVIOUS
<1>5. \A kind \in {"parse_error", "call", "struct"}, i, j \in Nat :
        Event(kind, i, j) \in Harmless
  BY DEF Event, Yielded, EventKinds, Harmless
<1> DEFINE Fine == Nested /\ BracketsBalance /\ ClausesWellFormed
<1>6. ASSUME phase = "walk", cursor <= Size, Fine
      PROVE  /\ depth = Levels(cursor, 0, 0, 0)
             /\ depth = Level <=> Nesting(cursor) = 0
             /\ AtTopLevel => Top(cursor) /\ Plain(cursor) /\ Top(cursor + 1)
             /\ ~AtTopLevel => Spared(cursor)
  <2>1. depth = Levels(cursor, 0, 0, 0)
    BY <1>6 DEF WalkInv
  <2>2. depth = Level <=> Nesting(cursor) = 0
    BY <1>1, <1>6, <2>1, TopIsLevel
  <2>3. AtTopLevel => Top(cursor) /\ Plain(cursor)
    BY <1>1, <2>2, PlainTokens DEF AtTopLevel, Top
  <2>4. AtTopLevel => Top(cursor + 1)
    BY <1>1, <1>6, <2>3, TopNext
  <2>5. ~AtTopLevel => Spared(cursor)
    BY <2>2 DEF AtTopLevel, Spared, TopLevelKeyword
  <2> QED BY <2>1, <2>2, <2>3, <2>4, <2>5
<1>7. ASSUME NEW e, Top(e), Fine PROVE Levels(e, 0, 0, 0) = Level
  BY <1>1, <1>7, TopIsLevel DEF Top
<1>8. CASE SkipFile
  <2>1. phase' = "skipped"
    BY <1>8 DEF SkipFile
  <2> QED BY <2>1 DEF WalkInv
<1>9. CASE BeginWalk
  <2>1. phase' = "walk" /\ cursor' = 1 /\ depth' = Level
    BY <1>9 DEF BeginWalk, WalkInv
  <2>2. BracketsBalance /\ ClausesWellFormed => Levels(1, 0, 0, 0) = Level
    <3>1. 1 \in 1..(Size + 1)
      BY <1>1
    <3>2. Nested => Nesting(1) = 0
      BY DEF Nested
    <3> QED BY <1>1, <3>1, <3>2, BalanceNests, TopIsLevel
  <2>3. \A p \in 1..Size : ~(p < 1)
    BY <1>1
  <2>4. BracketsBalance /\ ClausesWellFormed =>
          \A c : c = cursor' => depth' = Levels(c, 0, 0, 0)'
    BY <1>3, <2>1, <2>2
  <2> QED BY <1>3, <2>1, <2>3, <2>4 DEF WalkInv
<1>10. CASE WalkPackage
  <2> DEFINE c == cursor
             d == c + 1
             e == cursor'
  <2>1. /\ c <= Size /\ AtTopLevel /\ Tok(c) = "package" /\ phase = "walk" /\ phase' = phase
        /\ e = IF c + 2 <= Size + 1 THEN c + 2 ELSE Size + 1
        /\ events' = events \o << >> /\ depth' = depth
    BY <1>10 DEF WalkPackage, Walking, MoveTo
  <2>2. e \in (c + 1)..(Size + 1)
    BY <1>1, <2>1
  <2>3. ASSUME Fine
        PROVE  /\ depth' = Levels(e, 0, 0, 0) /\ KeptIn(c, << >>)
               /\ \A r \in (c + 1)..(e - 1) : Spared(r)
    <3>1. Tok(d) = "id"
      BY <1>1, <2>1, <2>3 DEF ClausesWellFormed
    <3>2. d \in 1..Size /\ Plain(d) /\ Top(d)
      BY <1>1, <1>6, <2>1, <2>3, <3>1, CodeIsTokens, PlainTokens DEF IsId
    <3>3. e = d + 1
      BY <1>1, <2>1, <3>2
    <3>4. Top(e) /\ \A r \in d..(e - 1) : r = d
      BY <1>1, <2>3, <3>2, <3>3, TopNext
    <3>5. Spared(c) /\ Spared(d)
      BY <2>1, <3>1 DEF Spared
    <3>6. depth' = Level
      BY <2>1 DEF AtTopLevel
    <3> QED BY <1>1, <1>7, <2>1, <2>3, <3>4, <3>5, <3>6, SparedIsKept
  <2> QED BY <1>1, <1>2, <1>4, <2>1, <2>2, <2>3, WalkMoves
<1>11. CASE WalkVariable
  <2> DEFINE e == cursor + 1
  <2>1. /\ cursor <= Size /\ AtTopLevel /\ Tok(cursor) = "var"
        /\ phase = "walk" /\ phase' = phase /\ cursor' = e
        /\ events' = events \o << >> /\ depth' = depth
    BY <1>11 DEF WalkVariable, Walking, MoveTo
  <2>2. e \in (cursor + 1)..(Size + 1) /\ \A r \in (cursor + 1)..(e - 1) : FALSE
    BY <1>1, <2>1
  <2>3. ASSUME Fine
        PROVE  depth' = Levels(e, 0, 0, 0) /\ KeptIn(cursor, << >>)
    <3>1. Top(e) /\ Spared(cursor) /\ depth' = Level
      BY <1>6, <2>1, <2>3 DEF Spared, AtTopLevel
    <3> QED BY <1>1, <1>7, <2>1, <2>3, <3>1, SparedIsKept
  <2> QED BY <1>1, <1>2, <1>4, <2>1, <2>2, <2>3, WalkMoves
<1>12. CASE WalkDeclaration
  <2> DEFINE d == Declaration(cursor)
             e == d.end
             new == d.yields
  <2>1. /\ cursor <= Size /\ AtTopLevel /\ Tok(cursor) \in {"import", "func", "type"}
        /\ e # 0 /\ phase = "walk" /\ phase' = phase /\ cursor' = e
        /\ events' = events \o new /\ depth' = depth
    BY <1>12 DEF WalkDeclaration, Walking, MoveTo
  <2>2. e \in (cursor + 1)..(Size + 1)
    BY <1>1, <2>1, DeclarationEnds
  <2>3. ASSUME Fine
        PROVE  /\ new \in Seq(Harmless)
               /\ depth' = Levels(e, 0, 0, 0) /\ KeptIn(cursor, new)
               /\ \A r \in (cursor + 1)..(e - 1) : Spared(r)
    <3>1. new \in Seq(Harmless)
      BY <1>1, <2>1, <2>3, DeclarationIsHarmless DEF ImportsInv
    <3>2. Top(cursor) /\ depth' = Level
      BY <1>6, <2>1, <2>3 DEF AtTopLevel
    <3>3. /\ Tok(cursor) = "import" => d = ImportDecl(cursor)
          /\ Tok(cursor) = "func" => d = FuncDecl(cursor)
          /\ Tok(cursor) = "type" => d = TypeDecl(cursor)
      BY DEF Declaration
    <3>4. Passes(cursor + 1, e) \/ Passes(cursor, e)
      BY <1>1, <2>1, <2>3, <3>2, <3>3, ImportPasses, FuncPasses, TypePasses
    <3>5. Top(e) /\ \A r \in (cursor + 1)..(e - 1) : Spared(r)
      <4>1. \A r \in (cursor + 1)..(e - 1) : r \in cursor..(e - 1)
        BY <1>1, <2>2
      <4> QED BY <3>4, <4>1 DEF Passes
    <3>6. KeptIn(cursor, new)
      <4>1. CASE PlainFunction(cursor)
        <5>1. new = <<Event("func", cursor, e)>> /\ ~PlainImport(cursor)
          BY <1>1, <2>1, <2>3, <3>2, <3>3, <4>1, PlainFunctionIsOne
             DEF PlainFunction, PlainImport
        <5> QED BY <5>1 DEF KeptIn, Event
      <4>2. CASE PlainImport(cursor)
        <5>1. new = <<Event("import", cursor + 1, cursor + 2)>> /\ ~PlainFunction(cursor)
          BY <1>1, <2>1, <2>3, <3>2, <3>3, <4>2, ImportPasses
             DEF PlainFunction, PlainImport
        <5> QED BY <5>1 DEF KeptIn, Event
      <4> QED BY <4>1, <4>2 DEF KeptIn
    <3> QED BY <1>7, <2>3, <3>1, <3>2, <3>5, <3>6
  <2> HIDE DEF d
  <2> QED BY <1>1, <1>2, <2>1, <2>2, <2>3, WalkMoves
<1>13. CASE Recover
  <2> DEFINE e == Boundary(cursor + 1)
             new == <<Event("parse_error", cursor, e)>>
  <2>1. /\ cursor <= Size /\ AtTopLevel /\ Tok(cursor) \in {"import", "func", "type"}
        /\ Declaration(cursor).end = 0 /\ phase = "walk" /\ phase' = phase /\ cursor' = e
        /\ events' = events \o new /\ depth' = depth
    BY <1>13 DEF Recover, Walking, MoveTo
  <2>2. e \in (cursor + 1)..(Size + 1)
    BY <1>1, <2>1, BoundaryEnds
  <2>3. new \in Seq(Harmless)
    <3>1. e \in Nat
      BY <1>1, <2>2
    <3> QED BY <1>1, <1>4, <1>5, <3>1
  <2>4. ASSUME Fine
        PROVE  /\ depth' = Levels(e, 0, 0, 0) /\ KeptIn(cursor, new)
               /\ \A r \in (cursor + 1)..(e - 1) : Spared(r)
    <3>1. Top(cursor) /\ Top(cursor + 1) /\ depth' = Level
      BY <1>6, <2>1, <2>4 DEF AtTopLevel
    <3>2. Passes(cursor + 1, e)
      BY <1>1, <2>4, <3>1, PassesBoundary
    <3>3. /\ Tok(cursor) = "import" => Declaration(cursor) = ImportDecl(cursor)
          /\ Tok(cursor) = "func" => Declaration(cursor) = FuncDecl(cursor)
      BY DEF Declaration
    <3>4. ~PlainFunction(cursor)
      BY <1>1, <2>1, <2>4, <3>1, <3>3, PlainFunctionIsOne DEF PlainFunction
    <3>5. ~PlainImport(cursor)
      BY <1>1, <2>1, <2>4, <3>1, <3>3, ImportPasses DEF PlainImport
    <3> QED BY <1>7, <2>4, <3>1, <3>2, <3>4, <3>5 DEF Passes, KeptIn
  <2> HIDE DEF e, new
  <2> QED BY <1>1, <1>2, <2>1, <2>2, <2>3, <2>4, WalkMoves
<1>14. CASE WalkConstruct
  <2> DEFINE m == Recognized[cursor]
             e == m.end
             new == <<Event(m.kind, cursor, e)>>
  <2>1. /\ cursor <= Size /\ ~AtTopLevel /\ m.kind # "none"
        /\ phase = "walk" /\ phase' = phase /\ cursor' = e
        /\ events' = events \o new /\ depth' = depth
    BY <1>14 DEF WalkConstruct, Walking, MoveTo
  <2>2. e \in (cursor + 1)..(Size + 1) /\ m.kind \in {"call", "struct"}
    BY <1>1, <2>1, RecognizedGoesOn
  <2>3. new \in Seq(Harmless)
    <3>1. e \in Nat
      BY <1>1, <2>2
    <3> QED BY <1>1, <1>4, <1>5, <2>2, <3>1
  <2>4. ASSUME Fine
        PROVE  /\ depth' = Levels(e, 0, 0, 0) /\ KeptIn(cursor, new)
               /\ \A r \in (cursor + 1)..(e - 1) : Spared(r)
    <3>1. depth' = Levels(cursor, 0, 0, 0) /\ Spared(cursor)
      BY <1>6, <2>1, <2>4
    <3>2. /\ Even(cursor, e)
          /\ \A r \in cursor..(e - 1) :
               Nesting(r) = Nesting(cursor) => Tok(r) \notin {"func", "import"}
      BY <1>1, <2>1, <2>4, RecognizedNests DEF MatchNests
    <3>3. \A o : Pending(o, e) = Pending(o, cursor)
      BY <1>1, <2>4, <3>2, EvenKeepsUnclosed DEF Pending
    <3>4. Levels(e, 0, 0, 0) = Levels(cursor, 0, 0, 0)
      BY <3>3 DEF Levels
    <3>5. ASSUME NEW r \in (cursor + 1)..(e - 1) PROVE Spared(r)
      <4>1. r \in cursor..(e - 1) /\ r \in cursor..e /\ r \in 1..(Size + 1)
        BY <1>1, <2>2
      <4>2. /\ Nesting(r) >= Nesting(cursor)
            /\ Nesting(r) \in Nat /\ Nesting(cursor) \in Nat
        BY <1>1, <2>4, <3>2, <4>1 DEF Even, Nested
      <4> QED BY <3>2, <4>1, <4>2 DEF Spared
    <3> QED BY <1>1, <2>1, <2>4, <3>1, <3>4, <3>5, SparedIsKept
  <2> HIDE DEF m, e, new
  <2> QED BY <1>1, <1>2, <2>1, <2>2, <2>3, <2>4, WalkMoves
<1>15. CASE WalkToken
  <2> DEFINE e == cursor + 1
  <2>1. /\ cursor <= Size /\ ~AtTopLevel /\ phase = "walk" /\ phase' = phase /\ cursor' = e
        /\ events' = events \o << >> /\ depth' = DepthAfter(depth, Tok(cursor))
    BY <1>15 DEF WalkToken, Walking, MoveTo
  <2>2. e \in (cursor + 1)..(Size + 1) /\ \A r \in (cursor + 1)..(e - 1) : FALSE
    BY <1>1, <2>1
  <2>3. ASSUME Fine
        PROVE  depth' = Levels(e, 0, 0, 0) /\ KeptIn(cursor, << >>)
    <3>1. depth = Levels(cursor, 0, 0, 0) /\ Spared(cursor)
      BY <1>6, <2>1, <2>3
    <3>2. Pending("(", e) >= 0 /\ Pending(LBRACE, e) >= 0 /\ Pending("[", e) >= 0
      <4>1. e \in 1..(Size + 1)
        BY <1>1, <2>1
      <4>2. Pending("(", e) \in Nat /\ Pending(LBRACE, e) \in Nat /\ Pending("[", e) \in Nat
        BY <1>1, <4>1, PendingAreNumbers
      <4> HIDE DEF e
      <4> QED BY <4>2
    <3>3. DepthAfter(Levels(cursor, 0, 0, 0), Tok(cursor)) = Levels(e, 0, 0, 0)
      BY <1>1, <2>1, <2>3, <3>2, DepthAfterLevels
    <3> QED BY <1>1, <2>1, <2>3, <3>1, <3>3, SparedIsKept
  <2> QED BY <1>1, <1>2, <1>4, <2>1, <2>2, <2>3, WalkMoves
<1>16. CASE Walked \/ UNCHANGED recognizerVars
  <2>1. /\ cursor' = cursor /\ events' = events /\ depth' = depth
        /\ \/ phase = "walk" /\ phase' = "walked"
           \/ phase' = phase
    BY <1>16 DEF Walked, recognizerVars
  <2>2. \A p : Kept(p)' <=> Kept(p)
    BY <1>3, <2>1 DEF Kept
  <2> QED BY <1>3, <2>1, <2>2 DEF WalkInv
<1> QED BY <1>8, <1>9, <1>10, <1>11, <1>12, <1>13, <1>14, <1>15, <1>16 DEF RecognizerNext

(* The walk ends at the end of the file.                                     *)
WalksToEnd == phase = "walked" => cursor > Size

LEMMA WalksToEndSteps ==
  ASSUME WalksToEnd, [RecognizerNext]_recognizerVars
  PROVE  WalksToEnd'
<1>1. code' = code
  BY DEF RecognizerNext, SkipFile, BeginWalk, WalkPackage, WalkVariable, WalkDeclaration,
         Recover, WalkConstruct, WalkToken, Walked, MoveTo, recognizerVars
<1>2. Size' = Size
  BY <1>1 DEF Size
<1>3. \/ phase' # "walked"
      \/ cursor' = cursor /\ ((phase = "walk" /\ cursor > Size) \/ phase = "walked")
  BY DEF RecognizerNext, SkipFile, BeginWalk, WalkPackage, WalkVariable, WalkDeclaration,
         Recover, WalkConstruct, WalkToken, Walked, Walking, MoveTo, recognizerVars
<1> QED BY <1>2, <1>3 DEF WalksToEnd

LEMMA WalkInvStarts == RecognizerInit => WalkInv /\ WalksToEnd
  BY DEF RecognizerInit, WalkInv, WalksToEnd

(* The depth the walk keeps is the nesting of the text.                      *)
LEMMA WalkKeepsDepth == RecognizerTypes /\ WalkInv => DepthIsNesting
<1> SUFFICES ASSUME RecognizerTypes, WalkInv, phase = "walk", BracketsBalance, ClausesWellFormed
             PROVE  depth.paren + depth.brace + depth.bracket = Opens(cursor) - Closes(cursor)
  BY DEF DepthIsNesting
<1>1. CodeOK /\ cursor \in 1..(Size + 1)
  BY DEF RecognizerTypes
<1>2. Nested
  BY <1>1, BalanceNests
<1>3. depth = Levels(cursor, 0, 0, 0)
  BY DEF WalkInv
<1>4. Nesting(cursor) = Pending("(", cursor) + Pending(LBRACE, cursor) + Pending("[", cursor)
  BY <1>1, <1>2, NestingIsPending
<1>5. /\ Pending("(", cursor) \in Nat /\ Pending(LBRACE, cursor) \in Nat
      /\ Pending("[", cursor) \in Nat
  BY <1>1, PendingAreNumbers
<1>6. /\ depth.paren = Pending("(", cursor) /\ depth.brace = Pending(LBRACE, cursor)
      /\ depth.bracket = Pending("[", cursor)
  BY <1>3, <1>5 DEF Levels
<1> QED BY <1>4, <1>6 DEF Nesting

(* At the end of the file every plain declaration has been passed.           *)
LEMMA WalkKeepsDeclarations == RecognizerTypes /\ WalkInv /\ WalksToEnd => DeclarationsSurvive
<1> SUFFICES ASSUME RecognizerTypes, WalkInv, WalksToEnd,
                    phase = "walked", BracketsBalance, ClausesWellFormed,
                    NEW p \in 1..Size
             PROVE  Kept(p)
  BY DEF DeclarationsSurvive, Kept, PlainImport
<1>1. Size \in Nat /\ cursor \in Nat /\ cursor > Size
  BY CodeIsTokens DEF RecognizerTypes, WalksToEnd
<1>2. p < cursor
  BY <1>1
<1> QED BY <1>2 DEF WalkInv

(* In every file with balanced brackets and whole clauses the walk of        *)
(* go_parser.py yields what is there: the depth of _DepthTracker is the      *)
(* nesting of the text at the cursor, every import and every plain function  *)
(* outside of the brackets has its event, whatever malformed declaration is  *)
(* recovered from before it (_dispatch_with_recovery), and no cgo import is  *)
(* among them (_check_cgo).                                                  *)
THEOREM EventsStaySound == RecognizerSpec => []EventsAreSound
<1> DEFINE Inv == RecognizerTypes /\ ImportsInv /\ WalkInv /\ WalksToEnd
<1>1. RecognizerInit => Inv
  <2>1. << >> \in Seq(Harmless)
    OBVIOUS
  <2>2. RecognizerInit => ImportsInv
    BY <2>1 DEF RecognizerInit, ImportsInv
  <2> QED BY <2>2, RecognizerStarts, WalkInvStarts
<1>2. Inv /\ [RecognizerNext]_recognizerVars => Inv'
  BY RecognizerSteps, ImportsSteps, WalkInvSteps, WalksToEndSteps
<1>3. Inv => EventsAreSound
  <2>1. ImportsInv => CgoIsSkipped
    BY HarmlessIsSkipped
  <2> QED BY <2>1, WalkKeepsDepth, WalkKeepsDeclarations DEF EventsAreSound
<1> QED BY <1>1, <1>2, <1>3, PTL DEF RecognizerSpec
=============================================================================
