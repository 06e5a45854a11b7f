--------------------------- MODULE MCGitLabConnector ---------------------------
(* Groups of up to four projects and trees over seven paths, in pages of two. *)
EXTENDS GitLabConnector

Path(dir, base, text) == [dir |-> dir, base |-> base, text |-> text]

TreePaths ==
  << Path("root", "readme", TRUE),      \* README.md
     Path("plain", "directory", TRUE),  \* api
     Path("plain", "go_test", TRUE),    \* api/api_test.go
     Path("plain", "go", TRUE),         \* api/main.go
     Path("root", "go.mod", TRUE),      \* go.mod
     Path("root", "source", FALSE),     \* schema.sql, more than 1 MiB
     Path("vendor", "go", TRUE) >>      \* vendor/lib/lib.go
=============================================================================
