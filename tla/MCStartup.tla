------------------------------- MODULE MCStartup -------------------------------
EXTENDS Startup
SomeEnvironments ==
  {[e \in Range(Fields) |->
      CASE e = f -> v [] e = g -> w [] OTHER -> "valid"] :
     f \in Range(Fields), g \in Range(Fields), v \in Written, w \in Written}
=============================================================================
