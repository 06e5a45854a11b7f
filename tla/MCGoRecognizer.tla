----------------------------- MODULE MCGoRecognizer -----------------------------
EXTENDS GoRecognizer
Declarations == {
  <<"import", "str">>, <<"import", "id", "C">>, <<"import", "C">>,
  <<"import", "(", "C", "id", "str", ")">>,
  <<"import", "(", ".", "C", "str", ")">>,
  <<"import", "{", "id", "}">>, <<"import", "(", "id", "id", "C", ")">>,
  <<"func", "id", "(", ")", "{", "id", "(", ")", "}">>,
  <<"func", "(", "id", ")", "id", "(", ")", "(", "id", ")", "{", "}">>,
  <<"func", "{", "}">>, <<"func", "id", "{", "id", "}">>,
  <<"func", "id", "(", ")", "{", "func", "(", ")", "{", "}", "(", ")", "}">>,
  <<"func", "id", "(", ")", "(", "id", "(", "func", "]", ")", "{", "}">>,
  <<"type", "id", "struct", "{", "id", "id", "}">>,
  <<"type", "id", "=", "id">>, <<"type", "(", "id", "func", "(", ")", ")">>,
  <<"type", "[", "id">>,
  <<"var", "id", "=", "&", "id", "{", "id", ":", "id", "(", "id", ",", "str", ")", "}">>,
  <<"var", "(", "id", "=", "id", "(", "]", ")", ")">>,
  <<"var", "id", "=", "id", ".", "id", "(", "[", "]", "id", "{", "}", ",", "id", ")">> }

Combined ==
  {a \o b : a, b \in Declarations} \cup
  {<<"package", "id">> \o a : a \in Declarations}

Fragments ==
  UNION {[1..n -> {"func", "type", "id", "(", ")", "{", "}", ","}] : n \in 0..4}

SomeLeads == {<< >>, <<"comment", "LF">>, <<"comment", "LF", "LF">>,
              <<"trivial", "LF", "comment", "LF">>, <<"constraint", "LF">>}

SomeCodes == Fragments \cup Combined
=============================================================================
