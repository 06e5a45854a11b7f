---------------------------- MODULE MCProjectAnalyzer ----------------------------
EXTENDS ProjectAnalyzer
SomeRepoPaths ==
  << "readme", "script", "gomod", "adapter", "repository", "main", "manifest", "vendored" >>
=============================================================================
