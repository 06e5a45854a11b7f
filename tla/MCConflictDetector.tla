--------------------------- MODULE MCConflictDetector ---------------------------
EXTENDS ConflictDetector

Vocabulary ==
  {"owns", "delegates", "is responsible for", "the", "user", "users",
   "login", "billing"}

SingularOf ==
  [w \in Vocabulary |-> CASE w = "owns" -> "own"
                          [] w = "delegates" -> "delegate"
                          [] w = "users" -> "user"
                          [] OTHER -> w]

SomeSummaries ==
  { Unknown, << >>, <<"the">>,
    <<"owns", "users", "login">>, <<"delegates", "users", "login">>,
    <<"is responsible for", "the", "user", "login">>,
    <<"user", "login", "delegates", "billing">>,
    <<"billing">>, <<"is responsible for", "billing", "delegates">> }
=============================================================================
