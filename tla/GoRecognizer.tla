------------------------------ MODULE GoRecognizer ------------------------------
(***************************************************************************)
(* The construct recognizer (go_parser.py): a walk over the significant    *)
(* tokens of a Go file that emits imports, function declarations, calls    *)
(* and struct literals, and survives malformed declarations.               *)
(*                                                                         *)
(* A token is known by its kind.  "id" stands for every identifier but     *)
(* var and const, which are "var"; "&" for & and *; "C" is the string "C"  *)
(* and "str" every other one; "op" every other token.                      *)
(***************************************************************************)
EXTENDS Naturals, FiniteSets, Sequences, SequencesExt

CONSTANTS
  Leads,   \* the comments and line feeds before the first token
  Codes    \* the significant tokens of the files

TokenKinds == {"package", "import", "func", "type", "struct", "var", "id", "C",
               "str", "num", "(", ")", "{", "}", "[", "]", ".", ",", ":", "=",
               "&", "op"}

(* The kinds with a name of their own in the proofs.                         *)
LBRACE == "{"
RBRACE == "}"
COMMA == ","

(* "constraint" is a build constraint that needs a toolchain, "trivial" one  *)
(* that does not, "rule" a comment without text.                             *)
LeadKinds == {"comment", "rule", "constraint", "trivial", "LF"}

ASSUME SourceAssumption ==
  Leads \subseteq Seq(LeadKinds) /\ Codes \subseteq Seq(TokenKinds)

VARIABLES
  lead,      \* tokens before the first significant one
  code,      \* the tokens that _sig names
  phase,     \* where run() is: "scan", "walk", "walked" or "skipped"
  cursor,    \* s of _walk
  depth,     \* _DepthTracker
  events     \* what has been yielded

recognizerVars == <<lead, code, phase, cursor, depth, events>>

Size == Len(code)
Tok(p) == IF p \in 1..Size THEN code[p] ELSE "EOF"
IsId(p) == Tok(p) \in {"id", "var"}
IsString(p) == Tok(p) \in {"str", "C"}
TopLevelKeyword(p) == Tok(p) \in {"package", "import", "func", "type", "var"}

Earliest(positions, otherwise) ==
  IF positions = {} THEN otherwise
  ELSE CHOOSE p \in positions : \A q \in positions : p <= q

-----------------------------------------------------------------------------
(* Brackets.                                                                *)

Level == [paren |-> 0, brace |-> 0, bracket |-> 0]

Down(n) == IF n = 0 THEN 0 ELSE n - 1

(* _DepthTracker.update: clamped to zero.                                    *)
DepthAfter(d, kind) ==
  CASE kind = "(" -> [d EXCEPT !.paren = @ + 1]
    [] kind = LBRACE -> [d EXCEPT !.brace = @ + 1]
    [] kind = "[" -> [d EXCEPT !.bracket = @ + 1]
    [] kind = ")" -> [d EXCEPT !.paren = Down(@)]
    [] kind = RBRACE -> [d EXCEPT !.brace = Down(@)]
    [] kind = "]" -> [d EXCEPT !.bracket = Down(@)]
    [] OTHER -> d

(* The depth at q of a tracker that is fresh at p.                           *)
DepthFrom(p, q) ==
  LET at[r \in p..q] ==
        IF r = p THEN Level ELSE DepthAfter(at[r - 1], code[r - 1])
  IN at[q]

Occurrences(kind, p, q) == Cardinality({r \in p..q : code[r] = kind})

(* _find_matching; 0 when there is none.                                     *)
Matching(p, open, close) ==
  IF Tok(p) # open THEN 0
  ELSE Earliest({q \in (p + 1)..Size :
                   /\ code[q] = close
                   /\ Occurrences(open, p, q) = Occurrences(close, p, q)}, 0)

(* _next_top_level_boundary, _walk_to_boundary.                              *)
Boundary(p) ==
  Earliest({q \in p..Size : TopLevelKeyword(q) /\ DepthFrom(p, q) = Level},
           Size + 1)

-----------------------------------------------------------------------------
(* Calls and struct literals.                                               *)

NoMatch == [kind |-> "none", end |-> 0]

(* The position after IDENT [. IDENT]* at p.                                 *)
ChainEnd(p) ==
  LET Dotted(q) == \A r \in (p + 1)..(q - 1) :
                     IF (r - p) % 2 = 1 THEN Tok(r) = "." ELSE IsId(r)
  IN Earliest({q \in {p + 1 + 2 * k : k \in 0..Size} :
                 Dotted(q) /\ ~(Tok(q) = "." /\ IsId(q + 1))}, p + 1)

(* _parse_unknown_arg: to the next comma or closing bracket at its depth.    *)
UnknownEnd(p) ==
  Earliest({q \in p..Size : /\ code[q] \in {COMMA, ")", RBRACE, "]"}
                            /\ DepthFrom(p, q) = Level}, Size + 1)

(* The recursion of the recognizer: <<"match", p>> is what                   *)
(* _try_match_call_or_struct returns at p, <<"args", p>> and <<"fields", p>> *)
(* the position after the list whose rest begins at p, 0 for a _ParseError.  *)
Recognized ==
  LET parse[x \in {"match", "args", "fields"} \X (1..(Size + 1))] ==
        LET p == x[2]
            (* _parse_arg.                                                   *)
            ArgEnd(q) ==
              IF IsString(q) \/ Tok(q) = "num" THEN q + 1
              ELSE IF Tok(q) = "&" \/ IsId(q)
                THEN LET m == parse[<<"match", q>>]
                     IN IF m.kind # "none" THEN m.end
                        ELSE IF IsId(q) THEN ChainEnd(q) ELSE UnknownEnd(q)
                ELSE UnknownEnd(q)
            AfterComma(q) == IF Tok(q) = COMMA THEN q + 1 ELSE q
        IN CASE x[1] = "match" ->
                  LET first == IF Tok(p) = "&" THEN p + 1 ELSE p
                      after == ChainEnd(first)
                      call == parse[<<"args", after + 1>>]
                      literal == parse[<<"fields", after + 1>>]
                  IN IF ~IsId(first) \/ after > Size THEN NoMatch
                     ELSE IF Tok(after) = "(" /\ first = p /\ call # 0
                       THEN [kind |-> "call", end |-> call]
                     ELSE IF /\ Tok(after) = LBRACE
                             /\ IsId(after + 1) /\ Tok(after + 2) = ":"
                             /\ after - first <= 3 /\ literal # 0
                       THEN [kind |-> "struct", end |-> literal]
                     ELSE NoMatch
             [] x[1] = "args" ->
                  IF p > Size THEN 0
                  ELSE IF Tok(p) = ")" THEN p + 1
                  ELSE IF Tok(p) = COMMA THEN parse[<<"args", p + 1>>]
                  ELSE IF ArgEnd(p) <= p THEN 0
                  ELSE parse[<<"args", AfterComma(ArgEnd(p))>>]
             [] x[1] = "fields" ->
                  IF p > Size THEN 0
                  ELSE IF Tok(p) = RBRACE THEN p + 1
                  ELSE IF Tok(p) = COMMA THEN parse[<<"fields", p + 1>>]
                  ELSE IF ~(IsId(p) /\ Tok(p + 1) = ":" /\ p + 2 <= Size) THEN 0
                  ELSE parse[<<"fields", AfterComma(ArgEnd(p + 2))>>]
  IN [p \in 1..(Size + 1) |-> parse[<<"match", p>>]]

-----------------------------------------------------------------------------
(* Declarations: where they end (0 for a _ParseError) and what they yield.  *)

Event(kind, from, to) == [kind |-> kind, from |-> from, to |-> to]

(* _parse_optional_import_alias.                                             *)
AfterAlias(p) == IF IsId(p) \/ Tok(p) = "." THEN p + 1 ELSE p

(* The imports of a block from p to its closing parenthesis at end; an entry *)
(* without a path is passed over.                                            *)
BlockImports(start, end) ==
  LET entries[p \in start..(end + 1)] ==
        IF p >= end \/ AfterAlias(p) >= end THEN << >>
        ELSE (IF IsString(AfterAlias(p))
                THEN <<Event("import", p, AfterAlias(p) + 1)>> ELSE << >>)
             \o entries[AfterAlias(p) + 1]
  IN entries[start]

(* _parse_import.                                                            *)
ImportDecl(p) ==
  IF Tok(p + 1) = "("
    THEN LET end == Matching(p + 1, "(", ")")
         IN IF end = 0 THEN [end |-> 0, yields |-> << >>]
            ELSE [end |-> end + 1, yields |-> BlockImports(p + 2, end)]
    ELSE LET path == AfterAlias(p + 1)
         IN [end |-> IF path > Size THEN Size + 1 ELSE path + 1,
             yields |-> IF IsString(path) THEN <<Event("import", p + 1, path + 1)>>
                        ELSE << >>]

(* Past the group that opens at p, if one does.                              *)
PastGroup(p, open, close) ==
  IF Tok(p) # open THEN p
  ELSE IF Matching(p, open, close) = 0 THEN 0
  ELSE Matching(p, open, close) + 1

(* _skip_optional_return_type: to the brace of the body, or a boundary.      *)
ReturnTypeEnd(start) ==
  LET scan[p \in start..(Size + 1)] ==
        IF p > Size \/ Tok(p) = LBRACE \/ TopLevelKeyword(p) THEN p
        ELSE LET past == CASE Tok(p) = "(" -> PastGroup(p, "(", ")")
                           [] Tok(p) = "[" -> PastGroup(p, "[", "]")
                           [] OTHER -> p + 1
             IN IF past = 0 THEN 0 ELSE scan[past]
  IN scan[start]

(* _parse_func_decl_header: the body is left to the walk.                    *)
FuncDecl(p) ==
  LET name == PastGroup(p + 1, "(", ")")
      params == PastGroup(name + 1, "[", "]")
      result == PastGroup(params, "(", ")")
      end == IF \/ name = 0 \/ ~IsId(name)
                \/ params = 0 \/ Tok(params) # "(" \/ result = 0
               THEN 0 ELSE ReturnTypeEnd(result)
  IN [end |-> end,
      yields |-> IF end = 0 THEN << >> ELSE <<Event("func", p, end)>>]

(* _parse_type_skip.                                                         *)
TypeDecl(p) ==
  LET named == IF IsId(p + 1) THEN p + 2 ELSE p + 1
      assigned == IF Tok(named) = "=" THEN named + 1 ELSE named
      body == PastGroup(assigned, "[", "]")
      end == CASE Tok(p + 1) = "(" -> PastGroup(p + 1, "(", ")")
               [] Tok(p + 1) # "(" /\ body = 0 -> 0
               [] Tok(p + 1) # "(" /\ body > Size -> Size + 1
               [] Tok(body) = "struct" -> PastGroup(body + 1, LBRACE, RBRACE)
               [] OTHER -> Boundary(body)
  IN [end |-> end, yields |-> << >>]

Declaration(p) ==
  CASE Tok(p) = "import" -> ImportDecl(p)
    [] Tok(p) = "func" -> FuncDecl(p)
    [] Tok(p) = "type" -> TypeDecl(p)

-----------------------------------------------------------------------------
(* The pre-passes.                                                          *)

(* _cgo_check_block, _cgo_in_import_at: an unaliased "C".                    *)
CgoAt(p) ==
  \/ Tok(p + 1) = "C"
  \/ /\ Tok(p + 1) = "("
     /\ \E q \in (p + 2)..Matching(p + 1, "(", ")") :
          /\ Tok(q) = "C"
          /\ q = p + 2 \/ ~(IsId(q - 1) \/ Tok(q - 1) = ".")

(* _end_of_import_decl.                                                      *)
ImportEnd(p) ==
  LET past == PastGroup(p + 1, "(", ")")
  IN CASE Tok(p + 1) = "(" -> IF past = 0 THEN Size + 1 ELSE past
       [] IsString(p + 1) -> p + 2
       [] OTHER -> IF p + 3 <= Size + 1 THEN p + 3 ELSE Size + 1

UsesCgo ==
  LET scan[p \in 1..(Size + 1)] ==
        IF p > Size THEN FALSE
        ELSE IF Tok(p) # "import" THEN scan[p + 1]
        ELSE CgoAt(p) \/ scan[ImportEnd(p)]
  IN scan[1]

(* _collect_leading_doc_comments: the comments up to a blank line or a build *)
(* constraint, going back from the package line.                             *)
DocComment ==
  LET n == Len(lead)
      Adjacent(i) == \A j \in i..n :
        /\ lead[j] \in {"comment", "rule", "LF"}
        /\ j < n => ~(lead[j] = "LF" /\ lead[j + 1] = "LF")
  IN \E i \in 1..n : lead[i] = "comment" /\ Adjacent(i)

RecognizerInit ==
  /\ lead \in Leads /\ code \in Codes
  /\ phase = "scan"
  /\ cursor = 1 /\ depth = Level
  /\ events = << >>

(* _scan_for_skip_file.                                                      *)
SkipFile ==
  /\ phase = "scan"
  /\ "constraint" \in Range(lead) \/ UsesCgo
  /\ events' = <<Event("skip_file", 1, 1)>>
  /\ phase' = "skipped"
  /\ UNCHANGED <<lead, code, cursor, depth>>

BeginWalk ==
  /\ phase = "scan"
  /\ "constraint" \notin Range(lead) /\ ~UsesCgo
  /\ events' = IF Tok(1) = "package" /\ DocComment
                 THEN <<Event("doc", 1, 1)>> ELSE << >>
  /\ phase' = "walk"
  /\ UNCHANGED <<lead, code, cursor, depth>>

-----------------------------------------------------------------------------
(* _walk, one iteration of its loop.                                        *)

Walking == phase = "walk" /\ cursor <= Size
AtTopLevel == depth = Level /\ TopLevelKeyword(cursor)

MoveTo(p, new) ==
  /\ cursor' = p
  /\ events' = events \o new
  /\ UNCHANGED <<lead, code, phase>>

WalkPackage ==
  /\ Walking /\ AtTopLevel /\ Tok(cursor) = "package"
  /\ MoveTo(IF cursor + 2 <= Size + 1 THEN cursor + 2 ELSE Size + 1, << >>)
  /\ UNCHANGED depth

WalkVariable ==
  /\ Walking /\ AtTopLevel /\ Tok(cursor) = "var"
  /\ MoveTo(cursor + 1, << >>)
  /\ UNCHANGED depth

WalkDeclaration ==
  /\ Walking /\ AtTopLevel /\ Tok(cursor) \in {"import", "func", "type"}
  /\ LET d == Declaration(cursor)
     IN d.end # 0 /\ MoveTo(d.end, d.yields)
  /\ UNCHANGED depth

(* Mutant of Recover: the search begins at the keyword that failed.          *)
RecoverInPlace ==
  /\ Walking /\ AtTopLevel /\ Tok(cursor) \in {"import", "func", "type"}
  /\ Declaration(cursor).end = 0
  /\ MoveTo(Boundary(cursor), <<Event("parse_error", cursor, Boundary(cursor))>>)
  /\ UNCHANGED depth

(* Mutant of Recover: a malformed declaration ends the file.                 *)
RecoverNever ==
  /\ Walking /\ AtTopLevel /\ Tok(cursor) \in {"import", "func", "type"}
  /\ Declaration(cursor).end = 0
  /\ MoveTo(Size + 1, <<Event("parse_error", cursor, Size + 1)>>)
  /\ UNCHANGED depth

(* _dispatch_with_recovery.                                                  *)
Recover ==
  /\ Walking /\ AtTopLevel /\ Tok(cursor) \in {"import", "func", "type"}
  /\ Declaration(cursor).end = 0
  /\ LET resume == Boundary(cursor + 1)
     IN MoveTo(resume, <<Event("parse_error", cursor, resume)>>)
  /\ UNCHANGED depth

WalkConstruct ==
  /\ Walking /\ ~AtTopLevel
  /\ LET m == Recognized[cursor]
     IN m.kind # "none" /\ MoveTo(m.end, <<Event(m.kind, cursor, m.end)>>)
  /\ UNCHANGED depth

WalkToken ==
  /\ Walking /\ ~AtTopLevel
  /\ Recognized[cursor].kind = "none"
  /\ MoveTo(cursor + 1, << >>)
  /\ depth' = DepthAfter(depth, Tok(cursor))

Walked ==
  /\ phase = "walk" /\ cursor > Size
  /\ phase' = "walked"
  /\ UNCHANGED <<lead, code, cursor, depth, events>>

RecognizerNext ==
  \/ SkipFile
  \/ BeginWalk
  \/ WalkPackage
  \/ WalkVariable
  \/ WalkDeclaration
  \/ Recover
  \/ WalkConstruct
  \/ WalkToken
  \/ Walked

RecognizerSpec == RecognizerInit /\ [][RecognizerNext]_recognizerVars

-----------------------------------------------------------------------------
(* What the recognizer promises.                                            *)

Opens(p) == Cardinality({q \in 1..(p - 1) : code[q] \in {"(", LBRACE, "["}})
Closes(p) == Cardinality({q \in 1..(p - 1) : code[q] \in {")", RBRACE, "]"}})

(* Every bracket closes the one opened last.                                 *)
BracketsBalance ==
  /\ \A p \in 1..(Size + 1) : Closes(p) <= Opens(p)
  /\ Opens(Size + 1) = Closes(Size + 1)
  /\ \A b \in {<<"(", ")">>, <<LBRACE, RBRACE>>, <<"[", "]">>} :
       \A p \in 1..Size : code[p] = b[1] =>
         \E q \in (p + 1)..Size :
           /\ code[q] = b[2] /\ Opens(q) - Closes(q) = Opens(p) - Closes(p) + 1
           /\ \A r \in (p + 1)..q : Opens(r) - Closes(r) > Opens(p) - Closes(p)

(* An import has a path, and so has every entry of an import block; "package" *)
(* has a name.                                                               *)
PathAt(p) == IsString(p) \/ ((IsId(p) \/ Tok(p) = ".") /\ IsString(p + 1))

ClausesWellFormed ==
  \A p \in 1..Size :
    /\ Tok(p) = "package" => Tok(p + 1) = "id"
    /\ Tok(p) = "import" /\ Tok(p + 1) # "(" => PathAt(p + 1)
    /\ Tok(p) = "import" /\ Tok(p + 1) = "(" =>
         /\ Matching(p + 1, "(", ")") # 0
         /\ \A q \in (p + 2)..(Matching(p + 1, "(", ")") - 1) : PathAt(q)

(* Every iteration gets on, whatever the tokens: no malformed declaration,  *)
(* argument list or literal makes the walk stand still or go back (the      *)
(* comment on the progress guard in _parse_call_args), and it always ends   *)
(* at the end of the file.                                                  *)
WalkGetsOn ==
  [][phase = "walk" => cursor' > cursor \/ phase' = "walked"]_recognizerVars

(* In a file with balanced brackets and whole clauses the depth the walk    *)
(* keeps is the nesting of the text at its cursor, although calls, literals,*)
(* declarations and the recovery pass over whole groups at once             *)
(* (_DepthTracker).  An import without a path is no error of the parser: it *)
(* passes over the token in its place, a bracket too (_parse_import_path).  *)
DepthIsNesting ==
  phase = "walk" /\ BracketsBalance /\ ClausesWellFormed =>
    depth.paren + depth.brace + depth.bracket = Opens(cursor) - Closes(cursor)

PlainFunction(p) ==
  /\ Tok(p) = "func" /\ Tok(p + 1) = "id" /\ Tok(p + 2) = "("
  /\ Opens(p) = Closes(p)

(* A malformed func or type costs itself only: in such a file every import  *)
(* and every plain function outside of them has its event, whatever stands  *)
(* before it ("a single bad construct yields one SkipFileEvent and parsing  *)
(* resumes at the next package-level boundary, leaving the rest of the      *)
(* file's constructs intact").                                              *)
DeclarationsSurvive ==
  phase = "walked" /\ BracketsBalance /\ ClausesWellFormed =>
    \A p \in 1..Size :
      /\ PlainFunction(p) =>
           \E i \in DOMAIN events : events[i].kind = "func" /\ events[i].from = p
      /\ Tok(p) = "import" /\ IsString(p + 1) /\ Opens(p) = Closes(p) =>
           \E i \in DOMAIN events :
             events[i].kind = "import" /\ events[i].from = p + 1

(* The pre-pass and the import parser read the same language: no walk ever  *)
(* yields an unaliased import "C", so no cgo file is analyzed (_check_cgo   *)
(* and _parse_import are two parsers of import declarations).  In a block   *)
(* like ( a b "C" ) they part: to _parse_import b is the path of a, and "C" *)
(* an entry of its own; to _check_cgo b is the alias of "C".                *)
CgoIsSkipped ==
  ClausesWellFormed => \A i \in DOMAIN events :
    ~(events[i].kind = "import" /\ code[events[i].from] = "C")

(* What the detectors get of a file is what is there: declarations survive  *)
(* their neighbours, the top level is where the text has it, and no cgo     *)
(* file gets through (_walk, _dispatch_with_recovery, _check_cgo).          *)
EventsAreSound == DepthIsNesting /\ DeclarationsSurvive /\ CgoIsSkipped
=============================================================================
