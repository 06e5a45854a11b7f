------------------------------ MODULE GoTokenizer ------------------------------
(***************************************************************************)
(* The Go tokenizer (go_tokenizer.py): one step scans one token.  A text   *)
(* is a sequence of characters, some of them named ("LF", "TICK"); each of *)
(* the six keywords counts as one.  A token is an interval of the text.    *)
(***************************************************************************)
EXTENDS Naturals, FiniteSets, Sequences

CONSTANTS
  Alphabet,     \* the characters of the texts
  Letters,      \* isalpha() or "_", the keywords included
  Digits,       \* isdigit()
  Keywords,     \* _KEYWORD_KINDS
  Operators,    \* _THREE_CHAR_OPS, _TWO_CHAR_OPS and ":="
  Texts         \* the sources to tokenize

Trivia == {"whitespace", "newline", "line_comment", "block_comment"}

(* The kinds of tokens that are not written as they are.                     *)
NamedKinds ==
  Trivia \cup {"identifier", "number", "string", "raw_string", "struct_tag",
              "operator"}

ASSUME AlphabetAssumption ==
  /\ Letters \cup Digits \subseteq Alphabet
  /\ Keywords \subseteq Letters
  /\ Texts \subseteq Seq(Alphabet)
  /\ Letters \cap {"{", "}"} = {}
  /\ Alphabet \cap (NamedKinds \cup {"EOF"}) = {}

VARIABLES
  text,     \* _text
  pos,      \* _pos
  line,     \* _line
  column,   \* _col
  frames,   \* _struct_brace_stack
  tokens,   \* what has been yielded
  failure   \* the reason of the GoTokenizationError, or "none"

tokenizerVars == <<text, pos, line, column, frames, tokens, failure>>

HexDigits == Digits \cup ({"a", "b", "c", "d", "e", "f"} \cap Alphabet)
OctalDigits == Digits \ {"8", "9"}
SimpleEscapes == {"a", "b", "f", "n", "r", "t", "v", "BACKSLASH", "APOSTROPHE", "QUOTE"}

At(p) == IF p \in DOMAIN text THEN text[p] ELSE "EOF"

(* The first position from p on where P fails.                               *)
FirstFailing(p, P(_)) ==
  CHOOSE q \in p..(Len(text) + 1) :
    /\ q > Len(text) \/ ~P(q)
    /\ \A r \in p..(q - 1) : r <= Len(text) /\ P(r)

Skip(p, chars) == FirstFailing(p, LAMBDA q : text[q] \in chars)

-----------------------------------------------------------------------------
(* Where a token that begins at p ends: the position after it.              *)

(* Mutant of WhitespaceEnd: a bare CR is left to nobody.                     *)
BlanksEnd(p) == Skip(p, {" ", "TAB"})

(* A CR is whitespace unless an LF follows it.                               *)
Blank(p) ==
  text[p] \in {" ", "TAB"} \/ (text[p] = "CR" /\ At(p + 1) # "LF")

WhitespaceEnd(p) == FirstFailing(p, Blank)

LineCommentEnd(p) == FirstFailing(p, LAMBDA q : text[q] # "LF")

(* Past the first */, or 0.                                                  *)
BlockCommentEnd(p) ==
  LET q == FirstFailing(p + 2, LAMBDA r : ~(text[r] = "*" /\ At(r + 1) = "/"))
  IN IF q > Len(text) THEN 0 ELSE q + 2

RawStringEnd(p) ==
  LET q == FirstFailing(p + 1, LAMBDA r : text[r] # "TICK")
  IN IF q > Len(text) THEN 0 ELSE q + 1

(* The length of the escape sequence that begins at p, or 0.                 *)
EscapeLength(p) ==
  LET Numeric(first, n, set) ==
        IF \A q \in first..(first + n - 1) : At(q) \in set
          THEN first + n - p ELSE 0
  IN CASE At(p + 1) \in SimpleEscapes -> 2
       [] At(p + 1) = "x" -> Numeric(p + 2, 2, HexDigits)
       [] At(p + 1) = "u" -> Numeric(p + 2, 4, HexDigits)
       [] At(p + 1) = "U" -> Numeric(p + 2, 8, HexDigits)
       [] At(p + 1) \in OctalDigits -> Numeric(p + 1, 3, OctalDigits)
       [] OTHER -> 0

Ended(q) == [end |-> q, reason |-> "none"]
Malformed(reason) == [end |-> 0, reason |-> reason]

(* The position after the string literal at p, or what is wrong with it.     *)
StringScan(p) ==
  LET scan[q \in (p + 1)..(Len(text) + 1)] ==
        CASE At(q) = "QUOTE" -> Ended(q + 1)
          [] At(q) \in {"LF", "EOF"} -> Malformed("unterminated_string")
          [] At(q) = "BACKSLASH" ->
               IF At(q + 1) = "EOF" THEN Malformed("unterminated_string")
               ELSE IF EscapeLength(q) = 0 THEN Malformed("invalid_escape")
               ELSE scan[q + EscapeLength(q)]
          [] OTHER -> scan[q + 1]
  IN scan[p + 1]

(* Radix prefix, digits, fraction (a dot before a dot is an operator's),     *)
(* exponent and imaginary suffix.                                            *)
NumberEnd(p) ==
  LET radix == text[p] = "0" /\ At(p + 1) \in {"x", "X", "o", "O", "b", "B"}
      hex == radix /\ At(p + 1) \in {"x", "X"}
      run == (IF hex THEN HexDigits ELSE Digits)
      whole == Skip(IF radix THEN p + 2 ELSE p, run \cup {"_"})
      fraction == IF At(whole) # "." \/ At(whole + 1) = "." THEN whole
                  ELSE IF At(whole + 1) \in run
                    THEN Skip(whole + 1, run \cup {"_"}) ELSE whole + 1
      sign == IF At(fraction + 1) \in {"+", "-"} THEN fraction + 2
              ELSE fraction + 1
      exponent == IF At(fraction) \in (IF hex THEN {"p", "P"} ELSE {"e", "E"})
                    THEN Skip(sign, Digits \cup {"_"}) ELSE fraction
  IN IF At(exponent) = "i" THEN exponent + 1 ELSE exponent

WordEnd(p) == Skip(p, Letters \cup Digits)

(* The longest operator first.                                               *)
OperatorEnd(p) ==
  LET matched == {n \in 2..3 : p + n <= Len(text) + 1
                                 /\ SubSeq(text, p, p + n - 1) \in Operators}
  IN IF 3 \in matched THEN p + 3 ELSE IF 2 \in matched THEN p + 2 ELSE p + 1

-----------------------------------------------------------------------------
Significant == {i \in DOMAIN tokens : tokens[i].kind \notin Trivia}

(* The kind of _prev_significant.                                            *)
Previous ==
  IF Significant = {} THEN "none"
  ELSE tokens[CHOOSE i \in Significant : \A j \in Significant : j <= i].kind

InStructFrame == frames # << >> /\ frames[Len(frames)]

BacktickKind ==
  IF InStructFrame /\ Previous = "identifier" THEN "struct_tag" ELSE "raw_string"

WordKind(p) ==
  IF WordEnd(p) = p + 1 /\ text[p] \in Keywords THEN text[p] ELSE "identifier"

OperatorKind(p) ==
  IF OperatorEnd(p) = p + 1 THEN text[p] ELSE "operator"

Feeds(end) == {p \in pos..(end - 1) : text[p] = "LF"}

ColumnAfter(end) ==
  IF Feeds(end) = {} THEN column + (end - pos)
  ELSE end - (CHOOSE p \in Feeds(end) : \A q \in Feeds(end) : q <= p)

(* Appends the token and moves past it: after a line feed the column counts  *)
(* from there.                                                               *)
Emit(kind, end) ==
  /\ tokens' = Append(tokens, [kind |-> kind, from |-> pos, line |-> line,
                               column |-> column])
  /\ pos' = end
  /\ line' = line + Cardinality(Feeds(end))
  /\ column' = ColumnAfter(end)
  /\ UNCHANGED <<text, failure>>

Fail(reason) ==
  /\ failure' = reason
  /\ UNCHANGED <<text, pos, line, column, frames, tokens>>

EmitOrFail(kind, end, reason) ==
  IF end = 0 THEN Fail(reason) ELSE Emit(kind, end) /\ UNCHANGED frames

Scanning == failure = "none" /\ pos <= Len(text)

ScanNewline ==
  /\ Scanning
  /\ \/ text[pos] = "LF" /\ Emit("newline", pos + 1)
     \/ text[pos] = "CR" /\ At(pos + 1) = "LF" /\ Emit("newline", pos + 2)
  /\ UNCHANGED frames

ScanWhitespace ==
  /\ Scanning
  /\ Blank(pos)
  /\ Emit("whitespace", WhitespaceEnd(pos))
  /\ UNCHANGED frames

ScanComment ==
  /\ Scanning
  /\ text[pos] = "/"
  /\ \/ /\ At(pos + 1) = "/"
        /\ Emit("line_comment", LineCommentEnd(pos))
        /\ UNCHANGED frames
     \/ /\ At(pos + 1) = "*"
        /\ EmitOrFail("block_comment", BlockCommentEnd(pos),
                      "unterminated_block_comment")

ScanString ==
  /\ Scanning
  /\ text[pos] = "QUOTE"
  /\ LET scan == StringScan(pos)
     IN EmitOrFail("string", scan.end, scan.reason)

ScanRawString ==
  /\ Scanning
  /\ text[pos] = "TICK"
  /\ EmitOrFail(BacktickKind, RawStringEnd(pos), "unterminated_raw_string")

StartsNumber ==
  \/ text[pos] \in Digits
  \/ text[pos] = "." /\ At(pos + 1) \in Digits

ScanNumber ==
  /\ Scanning
  /\ StartsNumber
  /\ Emit("number", NumberEnd(pos))
  /\ UNCHANGED frames

ScanWord ==
  /\ Scanning
  /\ text[pos] \in Letters
  /\ Emit(WordKind(pos), WordEnd(pos))
  /\ UNCHANGED frames

(* Mutant of FramesAfter: every closing brace empties the stack.             *)
FramesReset(kind) ==
  CASE kind = "{" -> Append(frames, Previous = "struct")
    [] kind = "}" -> << >>
    [] OTHER -> frames

(* _maintain_brace_stack.                                                    *)
FramesAfter(kind) ==
  CASE kind = "{" -> Append(frames, Previous = "struct")
    [] kind = "}" /\ frames # << >> -> SubSeq(frames, 1, Len(frames) - 1)
    [] OTHER -> frames

(* Everything else, the quote of a rune literal included.                    *)
ScanOperator ==
  /\ Scanning
  /\ text[pos] \notin Letters \cup {"LF", "CR", " ", "TAB", "QUOTE", "TICK"}
  /\ ~StartsNumber
  /\ ~(text[pos] = "/" /\ At(pos + 1) \in {"/", "*"})
  /\ Emit(OperatorKind(pos), OperatorEnd(pos))
  /\ frames' = FramesAfter(OperatorKind(pos))

TokenizerInit ==
  /\ text \in Texts
  /\ pos = 1 /\ line = 1 /\ column = 1
  /\ frames = << >> /\ tokens = << >>
  /\ failure = "none"

TokenizerNext ==
  \/ ScanNewline
  \/ ScanWhitespace
  \/ ScanComment
  \/ ScanString
  \/ ScanRawString
  \/ ScanNumber
  \/ ScanWord
  \/ ScanOperator

TokenizerSpec == TokenizerInit /\ [][TokenizerNext]_tokenizerVars

-----------------------------------------------------------------------------
(* What the tokenizer promises.                                             *)

(* The text is consumed end to end: at every character some scanner applies *)
(* and consumes something, so that a scan that has stopped has failed or    *)
(* has reached the end ("contract-bound to consume any Go source file end   *)
(* to end").                                                                *)
TextIsConsumed ==
  /\ Scanning => ENABLED TokenizerNext
  /\ \A i \in DOMAIN tokens :
       tokens[i].from < (IF i = Len(tokens) THEN pos ELSE tokens[i + 1].from)

(* The line and column kept while scanning are those of the token in the    *)
(* text: comments and raw strings that span lines, CRLF and bare CR do not  *)
(* put them off.                                                            *)
TokensAreWhereTheySay ==
  \A i \in DOMAIN tokens :
    LET feeds == {p \in 1..(tokens[i].from - 1) : text[p] = "LF"}
        last == IF feeds = {} THEN 0
                ELSE CHOOSE p \in feeds : \A q \in feeds : q <= p
    IN /\ tokens[i].line = 1 + Cardinality(feeds)
       /\ tokens[i].column = tokens[i].from - last

Balanced(i, j) ==
  LET Count(k) == Cardinality({n \in i..j : tokens[n].kind = k})
  IN Count("{") = Count("}")

Adjacent(i, j) == \A k \in (i + 1)..(j - 1) : tokens[k].kind \in Trivia

(* A literal in backticks is a tag exactly when it follows an identifier    *)
(* and the innermost brace open before it follows the keyword struct:       *)
(* nested braces, comments in between and stray closing braces do not       *)
(* confuse the stack.                                                       *)
TagsAreInStructs ==
  \A i \in DOMAIN tokens : tokens[i].kind \in {"struct_tag", "raw_string"} =>
    ( tokens[i].kind = "struct_tag" <=>
      /\ \E n \in 1..(i - 1) : tokens[n].kind = "identifier" /\ Adjacent(n, i)
      /\ \E s, b \in 1..(i - 1) :
           /\ tokens[b].kind = "{" /\ Balanced(b + 1, i - 1)
           /\ \A c \in (b + 1)..(i - 1) :
                tokens[c].kind = "{" => ~Balanced(c + 1, i - 1)
           /\ tokens[s].kind = "struct" /\ s < b /\ Adjacent(s, b) )

(* What the parser is told of a token is so of the text: its position, and  *)
(* whether it is a tag (_maintain_brace_stack, the column bookkeeping).     *)
TokensAreExact == TokensAreWhereTheySay /\ TagsAreInStructs
=============================================================================
