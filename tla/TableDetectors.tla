----------------------------- MODULE TableDetectors -----------------------------
(***************************************************************************)
(* The detectors of database tables: db_tables.py reads every file of a    *)
(* repository that is no documentation, in four passes; go_db_tables.py    *)
(* reads the string literals of the files that follow the repository       *)
(* pattern.  Both end in the same aggregation.                             *)
(*                                                                         *)
(* A file is the sequence of its lines (of its literals, for the Go        *)
(* detector), in path order; a line is what one of the patterns can see of *)
(* it.  A text is a sequence of words: SQL keywords, names, and "?" for    *)
(* what no pattern takes.                                                  *)
(***************************************************************************)
EXTENDS Naturals, FiniteSets, Sequences, SequencesExt

CONSTANTS
  TableRepositories,   \* the repositories: sequences of files
  Unqualified,         \* what _clean_identifier makes of a name
  WithoutPlaceholder,  \* a name after _strip_fmt_schema_prefixes
  Acceptable,          \* the names _is_acceptable_identifier admits
  AcceptableProcedures \* the names _is_acceptable_procedure_name admits

Line(kind, words) == [kind |-> kind, words |-> words]

(* What no pattern takes for a table, and what is no name.                   *)
Unnamed == {"?", "("}

SqlKeywords ==
  {"INSERT", "INTO", "UPDATE", "SET", "DELETE", "FROM", "from", "JOIN", "MERGE",
   "CREATE", "TEMPORARY", "TABLE", "IF", "NOT", "EXISTS"}

ASSUME NamesAssumption ==
  /\ DOMAIN Unqualified = DOMAIN WithoutPlaceholder
  /\ Range(Unqualified) \subseteq DOMAIN Unqualified
  /\ Acceptable \subseteq AcceptableProcedures
  /\ AcceptableProcedures \subseteq DOMAIN Unqualified
  /\ DOMAIN Unqualified \cap (Unnamed \cup SqlKeywords) = {}

(* What the patterns see of a line, or of a literal.                         *)
AnyLine ==
  [kind : {"sql", "literal", "boilerplate"}, words : Seq(STRING)]
  \cup [kind : {"class"}, class : STRING, indent : Nat]
  \cup [kind : {"__tablename__", "db_table", "table_name"}, table : DOMAIN Unqualified]
  \cup [kind : {"op"}, tables : SUBSET DOMAIN Unqualified]
  \cup [kind : {"query"}, class : STRING, mode : {"read", "write", "unknown_method"}]

ASSUME TableRepositoriesAssumption ==
  \A repo \in TableRepositories :
    /\ repo.files \in Seq([skipped : BOOLEAN, lines : Seq(AnyLine)])
    /\ \A f \in DOMAIN repo.files : \A i \in DOMAIN repo.files[f].lines :
         repo.language = "go" <=> repo.files[f].lines[i].kind \in {"literal", "boilerplate"}

VARIABLES
  tableRepo,    \* [language, files]
  tablePass,    \* the pass, and the file it is at
  tableFile,
  modelTables,  \* class_to_table
  uses,         \* detections
  tables        \* the result of the aggregation, once there is one

tableVars == <<tableRepo, tablePass, tableFile, modelTables, uses, tables>>

-----------------------------------------------------------------------------
(* Raw SQL: patterns over the words of a text.                              *)

Statement(keywords, then) == [keywords |-> keywords, then |-> then]

WritePatterns == {
  Statement({<<"INSERT", "INTO">>}, << >>),
  Statement({<<"UPDATE">>}, <<"SET">>),
  Statement({<<"DELETE", "FROM">>}, << >>),
  Statement({<<"CREATE", "TABLE">>, <<"CREATE", "TEMPORARY", "TABLE">>,
             <<"CREATE", "TABLE", "IF", "NOT", "EXISTS">>,
             <<"CREATE", "TEMPORARY", "TABLE", "IF", "NOT", "EXISTS">>}, << >>),
  Statement({<<"MERGE", "INTO">>}, << >>) }

ReadPatterns == {Statement({<<"FROM">>}, << >>), Statement({<<"JOIN">>}, << >>)}

(* Keywords are matched whatever their case.                                 *)
Upper(word) == IF word = "from" THEN "FROM" ELSE word

Reads(words, p, phrase) ==
  /\ p + Len(phrase) - 1 <= Len(words)
  /\ \A i \in DOMAIN phrase : Upper(words[p + i - 1].text) = phrase[i]

(* The position of the table when the pattern matches at p, 0 otherwise; of  *)
(* the optional keywords the pattern takes all it can.                       *)
TableAt(words, p, pattern) ==
  LET at == {p + Len(k) : k \in {k \in pattern.keywords :
                /\ Reads(words, p, k)
                /\ p + Len(k) <= Len(words) /\ words[p + Len(k)].text \notin Unnamed
                /\ Reads(words, p + Len(k) + 1, pattern.then)}}
  IN IF at = {} THEN 0 ELSE CHOOSE q \in at : \A r \in at : r <= q

(* finditer: the matches from left to right, none over another.              *)
Matches(words, pattern) ==
  LET scan[p \in 1..(Len(words) + 1)] ==
        IF p > Len(words) THEN {}
        ELSE LET q == TableAt(words, p, pattern)
                 end == q + Len(pattern.then)
             IN IF q = 0 THEN scan[p + 1]
                ELSE {[start |-> p, end |-> end, table |-> q]} \cup scan[end + 1]
  IN scan[1]

(* _is_python_import_line, of the line the match starts on.                  *)
IsImport(lines, i) ==
  /\ lines[i].kind = "sql" /\ Len(lines[i].words) >= 3
  /\ lines[i].words[1] = "from" /\ lines[i].words[3] = "import"

(* The words of a text with their lines; what is no SQL is one "?".          *)
WordsOf(lines) ==
  FlattenSeq([i \in DOMAIN lines |->
    IF lines[i].kind = "sql"
      THEN [j \in DOMAIN lines[i].words |->
              [text |-> lines[i].words[j], line |-> i]]
      ELSE <<[text |-> "?", line |-> i]>>])

Use(name, mode, line) == [table |-> name, mode |-> mode, line |-> line]

(* Mutant of RawSql: a read within a write counts.                           *)
RawSqlUnconsumed(lines, imports, name) ==
  LET words == WordsOf(lines)
      Seen(patterns) ==
        {m \in UNION {Matches(words, p) : p \in patterns} :
           ~(imports /\ IsImport(lines, words[m.start].line))}
  IN {Use(name[words[m.table].text], "write", words[m.start].line) :
        m \in Seen(WritePatterns)}
     \cup {Use(name[words[m.table].text], "read", words[m.start].line) :
             m \in Seen(ReadPatterns)}

(* _detect_raw_sql, with "imports"; without it, and with schemas kept,       *)
(* extract_table_references_preserving_schema.                               *)
RawSql(lines, imports, name) ==
  LET words == WordsOf(lines)
      Seen(patterns) ==
        {m \in UNION {Matches(words, p) : p \in patterns} :
           ~(imports /\ IsImport(lines, words[m.start].line))}
      consumed == Seen(WritePatterns)
  IN {Use(name[words[m.table].text], "write", words[m.start].line) : m \in consumed}
     \cup {Use(name[words[m.table].text], "read", words[m.start].line) :
             m \in {r \in Seen(ReadPatterns) :
                      ~\E w \in consumed : w.start <= r.start /\ r.start <= w.end}}

-----------------------------------------------------------------------------
(* Models, migrations and queries.                                          *)

(* The classes that begin above line i, the last one first in the search.    *)
ClassesAbove(lines, i) == {j \in 1..(i - 1) : lines[j].kind = "class"}

(* __tablename__ belongs to the class above it, db_table to the outermost    *)
(* one, Ruby's table_name to none; "" for no class.                          *)
Owner(lines, i) ==
  LET above == ClassesAbove(lines, i)
      last == CHOOSE j \in above : \A k \in above : k <= j
      outer == CHOOSE j \in above : \A k \in above :
                 \/ lines[j].indent < lines[k].indent
                 \/ lines[j].indent = lines[k].indent /\ k <= j
  IN CASE above = {} \/ lines[i].kind = "table_name" -> ""
       [] above # {} /\ lines[i].kind = "__tablename__" -> lines[last].class
       [] above # {} /\ lines[i].kind = "db_table" -> lines[outer].class

Models(lines) ==
  {i \in DOMAIN lines : lines[i].kind \in {"__tablename__", "db_table", "table_name"}}

(* The classes of the models in lines: later declarations and, among kinds,  *)
(* db_table win.                                                             *)
Declared(lines, known) ==
  LET Of(class) == {i \in Models(lines) : Owner(lines, i) = class}
      Later(i, j) == \/ lines[i].kind = lines[j].kind /\ i >= j
                     \/ lines[i].kind = "db_table" /\ lines[j].kind # "db_table"
      owners == {Owner(lines, i) : i \in Models(lines)} \ {""}
  IN [c \in DOMAIN known \cup owners |->
        IF c \in owners
          THEN Unqualified[lines[CHOOSE i \in Of(c) : \A j \in Of(c) : Later(i, j)].table]
          ELSE known[c]]

(* _detect_orm_models: declaring a table counts as writing it.               *)
ModelUses(lines) ==
  {Use(Unqualified[lines[i].table], "write", i) : i \in Models(lines)}

(* _detect_migrations.                                                       *)
Migrations(lines) ==
  UNION {{Use(Unqualified[t], "write", i) : t \in lines[i].tables} :
           i \in {j \in DOMAIN lines : lines[j].kind = "op"}}

(* _detect_orm_queries: a method of neither list is no query.                *)
Queries(lines, known) ==
  {Use(known[lines[i].class], lines[i].mode, i) :
     i \in {j \in DOMAIN lines : /\ lines[j].kind = "query"
                                 /\ lines[j].class \in DOMAIN known
                                 /\ lines[j].mode # "unknown_method"}}

-----------------------------------------------------------------------------
(* The literals of a Go file.                                               *)

(* _iter_stored_procedure_calls: BEGIN name ( and CALL name (.                *)
Procedures(words) ==
  {words[p + 1] : p \in {q \in 1..(Len(words) - 2) :
      words[q] \in {"BEGIN", "CALL"} /\ words[q + 1] \notin Unnamed /\ words[q + 2] = "("}}

Normalized(words) ==
  [i \in DOMAIN words |->
     IF words[i] \in DOMAIN WithoutPlaceholder THEN WithoutPlaceholder[words[i]]
     ELSE words[i]]

(* One location for the whole file: line 0 stands for none.                  *)
LiteralUses(literal) ==
  LET words == Normalized(literal.words)
      identity == [n \in Range(words) |-> n]
      references == RawSql(<<Line("sql", words)>>, FALSE, identity)
  IN IF literal.kind = "boilerplate" THEN {}
     ELSE {Use(n, "unknown", 0) : n \in Procedures(words) \cap AcceptableProcedures}
          \cup {[u EXCEPT !.line = 0] : u \in {r \in references : r.table \in Acceptable}}

-----------------------------------------------------------------------------
(* Aggregation.                                                             *)

AccessMode(observed) ==
  CASE {"read", "write"} \subseteq observed -> "read_write"
    [] "write" \in observed /\ "read" \notin observed -> "write"
    [] "read" \in observed /\ "write" \notin observed -> "read"
    [] OTHER -> "unknown"

(* One entry for each name.                                                  *)
Aggregated ==
  [n \in {u.table : u \in uses} |->
     [access_mode |-> AccessMode({u.mode : u \in {v \in uses : v.table = n}}),
      source_locations |-> {<<u.path, u.line>> : u \in {v \in uses : v.table = n}}]]

-----------------------------------------------------------------------------
(* detect_database_tables and detect_go_database_tables, file by file.      *)

NoTables == [n \in {} |-> 0]

TablesInit ==
  /\ tableRepo \in TableRepositories
  /\ tablePass = IF tableRepo.language = "go" THEN "literals" ELSE "models"
  /\ tableFile = 1
  /\ modelTables = NoTables /\ uses = {} /\ tables = NoTables

Files == tableRepo.files
AtFile(pass) == tablePass = pass /\ tableFile <= Len(Files)
Lines == Files[tableFile].lines

(* The uses of the file, unless it is documentation or not of the pattern.   *)
Add(new) ==
  /\ uses' = IF Files[tableFile].skipped THEN uses
             ELSE uses \cup {[table |-> u.table, mode |-> u.mode,
                              path |-> tableFile, line |-> u.line] : u \in new}
  /\ tableFile' = tableFile + 1
  /\ UNCHANGED <<tableRepo, tablePass, tables>>

FindModels ==
  /\ AtFile("models")
  /\ Add(ModelUses(Lines))
  /\ modelTables' = IF Files[tableFile].skipped THEN modelTables
                    ELSE Declared(Lines, modelTables)

FindSql ==
  /\ AtFile("sql")
  /\ Add(RawSql(Lines, TRUE, Unqualified) \cup Migrations(Lines))
  /\ UNCHANGED modelTables

FindQueries ==
  /\ AtFile("queries")
  /\ Add(Queries(Lines, modelTables))
  /\ UNCHANGED modelTables

FindInLiterals ==
  /\ AtFile("literals")
  /\ Add(UNION {LiteralUses(Lines[i]) : i \in DOMAIN Lines})
  /\ UNCHANGED modelTables

PassAfter ==
  [models |-> "sql", sql |-> "queries", queries |-> "aggregated",
   literals |-> "aggregated"]

EndPass ==
  /\ tablePass # "aggregated" /\ tableFile > Len(Files)
  /\ tablePass' = PassAfter[tablePass]
  /\ tableFile' = 1
  /\ tables' = IF tablePass' = "aggregated" THEN Aggregated ELSE tables
  /\ UNCHANGED <<tableRepo, modelTables, uses>>

TablesNext ==
  \/ FindModels
  \/ FindSql
  \/ FindQueries
  \/ FindInLiterals
  \/ EndPass

TablesSpec == TablesInit /\ [][TablesNext]_tableVars

-----------------------------------------------------------------------------
(* The reference: what each word of a text says by the words around it.     *)

Before(words, p, phrase) == p > Len(phrase) /\ Reads(words, p - Len(phrase), phrase)

WritePhrases == {
  <<"INSERT", "INTO">>, <<"MERGE", "INTO">>, <<"DELETE", "FROM">>,
  <<"CREATE", "TABLE">>, <<"CREATE", "TEMPORARY", "TABLE">>,
  <<"CREATE", "TABLE", "IF", "NOT", "EXISTS">>,
  <<"CREATE", "TEMPORARY", "TABLE", "IF", "NOT", "EXISTS">> }

WritesAt(words, p) ==
  \/ \E k \in WritePhrases : Before(words, p, k)
  \/ Before(words, p, <<"UPDATE">>) /\ Reads(words, p + 1, <<"SET">>)

ReadsAt(words, p) ==
  \/ Before(words, p, <<"JOIN">>)
  \/ Before(words, p, <<"FROM">>) /\ ~Before(words, p, <<"DELETE", "FROM">>)

(* The accesses of a name in the SQL of a file.                              *)
SqlAccesses(lines, names, imports) ==
  LET words == WordsOf(lines)
      At(p) == words[p].text \in names /\ ~(imports /\ IsImport(lines, words[p].line))
  IN {"write" : p \in {q \in DOMAIN words : At(q) /\ WritesAt(words, q)}}
     \cup {"read" : p \in {q \in DOMAIN words : At(q) /\ ReadsAt(words, q)}}

SpelledAs(n) == {m \in DOMAIN Unqualified : Unqualified[m] = n}

(* The models of the whole repository, wherever a query of them stands.      *)
ModelsOf(f) == IF Files[f].skipped THEN {} ELSE Models(Files[f].lines)

ClassesOf(n) ==
  (UNION {{Owner(Files[f].lines, i) :
             i \in {j \in ModelsOf(f) : Files[f].lines[j].table \in SpelledAs(n)}} :
            f \in DOMAIN Files}) \ {""}

AccessesIn(lines, n) ==
  SqlAccesses(lines, SpelledAs(n), TRUE)
  \cup {"write" : i \in {j \in Models(lines) : lines[j].table \in SpelledAs(n)}}
  \cup {"write" : i \in {j \in DOMAIN lines :
           lines[j].kind = "op" /\ lines[j].tables \cap SpelledAs(n) # {}}}
  \cup {lines[i].mode : i \in {j \in DOMAIN lines :
           /\ lines[j].kind = "query" /\ lines[j].class \in ClassesOf(n)
           /\ lines[j].mode # "unknown_method"}}

LiteralAccesses(literal, n) ==
  LET words == Normalized(literal.words)
  IN IF literal.kind = "boilerplate" THEN {}
     ELSE (IF n \in Acceptable
             THEN SqlAccesses(<<Line("sql", words)>>, {n}, FALSE) ELSE {})
          \cup {"unknown" : p \in {q \in 2..(Len(words) - 1) :
                   /\ n \in AcceptableProcedures /\ words[q] = n
                   /\ words[q - 1] \in {"BEGIN", "CALL"} /\ words[q + 1] = "("}}

FileAccesses(f, n) ==
  LET lines == Files[f].lines
  IN IF Files[f].skipped THEN {}
     ELSE IF tableRepo.language = "go"
       THEN UNION {LiteralAccesses(lines[i], n) : i \in DOMAIN lines}
     ELSE AccessesIn(lines, n)

Accesses(n) == UNION {FileAccesses(f, n) : f \in DOMAIN Files}

ReadsAndWrites(n) == Accesses(n) \cap {"read", "write"}

(* A pattern matches at p, for the word at q.                                *)
MatchesAt(words, p, q) ==
  \E pattern \in WritePatterns \cup ReadPatterns :
    TableAt(words, p, pattern) = q /\ q # 0

(* No keyword stands where a pattern takes a table.                          *)
TablesAreNamed(words) ==
  \A p, q \in DOMAIN words :
    MatchesAt(words, p, q) => words[q].text \in DOMAIN Unqualified

(* No statement runs into an import, or out of one: the filter of imports    *)
(* sees but the line a match starts on.                                      *)
ImportsStandAlone(lines) ==
  LET words == WordsOf(lines)
  IN \A p, q \in DOMAIN words :
       MatchesAt(words, p, q) =>
         (IsImport(lines, words[p].line) <=> IsImport(lines, words[q].line))

(* One class has one table, also over all files: a later one replaces it.    *)
ClassesHaveOneTable ==
  \A f, g \in DOMAIN Files : \A i \in ModelsOf(f), j \in ModelsOf(g) :
    Owner(Files[f].lines, i) = Owner(Files[g].lines, j) /\ Owner(Files[f].lines, i) # ""
      => Unqualified[Files[f].lines[i].table] = Unqualified[Files[g].lines[j].table]

Ordinary ==
  /\ ClassesHaveOneTable
  /\ \A f \in DOMAIN Files :
       IF tableRepo.language = "go"
         THEN \A i \in DOMAIN Files[f].lines :
                TablesAreNamed(WordsOf(<<Line("sql", Normalized(Files[f].lines[i].words))>>))
         ELSE /\ TablesAreNamed(WordsOf(Files[f].lines))
              /\ ImportsStandAlone(Files[f].lines)

(* A profile names exactly the tables its repository uses, each once, with   *)
(* the access that all its uses add up to and every file that has one:       *)
(* whatever order the files come in, wherever a model stands that a query    *)
(* needs, and however one pattern's text lies within another's (Requirements *)
(* 6.3, 9.6 and 9.8 in the comments of _aggregate).                          *)
TablesAreExact ==
  tablePass = "aggregated" /\ Ordinary =>
    /\ DOMAIN tables = {n \in Range(Unqualified) \cup AcceptableProcedures :
                          Accesses(n) # {}}
    /\ \A n \in DOMAIN tables :
         /\ tables[n].access_mode =
              CASE ReadsAndWrites(n) = {"read", "write"} -> "read_write"
                [] ReadsAndWrites(n) = {"read"} -> "read"
                [] ReadsAndWrites(n) = {"write"} -> "write"
                [] ReadsAndWrites(n) = {} -> "unknown"
         /\ {l[1] : l \in tables[n].source_locations} =
              {f \in DOMAIN Files : FileAccesses(f, n) # {}}
=============================================================================
