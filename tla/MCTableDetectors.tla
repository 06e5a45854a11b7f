---------------------------- MODULE MCTableDetectors ----------------------------
EXTENDS TableDetectors
Bare == ("USERS" :> "USERS") @@ ("s.USERS" :> "USERS") @@ ("ORDERS" :> "ORDERS")
        @@ ("app" :> "app") @@ ("%v.USERS" :> "USERS") @@ ("do" :> "do")
Plain == ("USERS" :> "USERS") @@ ("s.USERS" :> "s.USERS") @@ ("ORDERS" :> "ORDERS")
         @@ ("app" :> "app") @@ ("%v.USERS" :> "USERS") @@ ("do" :> "do")

Sql(words) == Line("sql", words)
SqlTexts == { <<"FROM", "USERS">>, <<"DELETE", "FROM", "USERS">>,
           <<"UPDATE", "s.USERS", "SET">>, <<"UPDATE", "?">>,
           <<"INSERT", "INTO", "ORDERS", "FROM", "USERS">>,
           <<"FROM", "ORDERS", "JOIN", "USERS">>,
           <<"CREATE", "TEMPORARY", "TABLE", "IF", "NOT", "EXISTS", "ORDERS">>,
           <<"CREATE", "TABLE", "USERS">>, <<"MERGE", "INTO", "s.USERS">>,
           <<"from", "app", "import">>, <<"DELETE">>,
           <<"DELETE", "FROM", "ORDERS", "FROM", "(", "FROM", "USERS">> }

Class == [kind |-> "class", class |-> "User", indent |-> 0]
Meta == [kind |-> "class", class |-> "Meta", indent |-> 1]
Model(kind, t) == [kind |-> kind, table |-> t]
Query(class, mode) == [kind |-> "query", class |-> class, mode |-> mode]

Sources ==
  {<<Sql(t)>> : t \in SqlTexts} \cup {<<Sql(p[1]), Sql(p[2])>> : p \in SqlTexts \X SqlTexts}
  \cup { <<Class, Model("__tablename__", "USERS")>>,
         <<Class, Meta, Model("db_table", "s.USERS")>>,
         <<Model("table_name", "ORDERS"), Query("User", "read")>>,
         <<[kind |-> "op", tables |-> {"USERS", "ORDERS"}]>>,
         <<Query("User", "read"), Query("User", "write")>>,
         <<Query("User", "unknown_method"), Query("Meta", "read")>> }

Orm == {s \in Sources : s[1].kind # "sql"} \cup {<<Sql(t)>> : t \in SqlTexts}

File(skipped, lines) == [skipped |-> skipped, lines |-> lines]

Literals == {Line("literal", t) : t \in {u \in SqlTexts : Len(u) > 1}}
  \cup { Line("boilerplate", <<"FROM", "USERS">>),
         Line("literal", <<"FROM", "%v.USERS">>), Line("literal", <<"FROM", "do">>),
         Line("literal", <<"BEGIN", "USERS", "(">>),
         Line("literal", <<"CALL", "app", "(">>),
         Line("literal", <<"CALL", "do", "(">>) }

SomeTableRepositories ==
  {[language |-> "generic", files |-> <<File(FALSE, s)>>] : s \in Sources}
  \cup {[language |-> "generic", files |-> <<File(d, s), File(FALSE, t)>>] :
          d \in BOOLEAN, s, t \in Orm}
  \cup {[language |-> "go", files |-> <<File(d, <<k, l>>), File(FALSE, <<m>>)>>] :
          d \in BOOLEAN, k, l, m \in Literals}
=============================================================================
