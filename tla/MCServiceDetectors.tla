--------------------------- MODULE MCServiceDetectors ---------------------------
EXTENDS ServiceDetectors
Hosts == [h \in {"api", "redis", "mq", "localhost"} |->
            IF h = "redis" THEN "cache" ELSE "http_api"]
ServicePaths == [config |-> 10]

Url(scheme, host, line) == [scheme |-> scheme, host |-> host, line |-> line]
Sdk(name, kind, line) == [name |-> name, kind |-> kind, line |-> line]

Urls == [scheme : {"http", "git", "redis", "grpc"}, host : {"api", "redis", "localhost"},
         line : {1}]
SomeFiles ==
  {[skipped |-> s, urls |-> <<u>>, sdks |-> d] :
     s \in BOOLEAN, u \in Urls,
     d \in {<< >>, <<Sdk("redis", "cache", 1), Sdk("api", "auth_provider", 2)>>}}

SomeConfigs ==
  {[read |-> r, urls |-> u, constants |-> c, destinations |-> d] :
     r \in BOOLEAN,
     u \in {<< >>, <<Url("stomp", "mq", 1), Url("http", "mq", 2), Url("http", "", 3)>>},
     c \in {<< >>, <<[root |-> "activemq", suffix |-> "_HOST", value |-> "text", line |-> 4],
                     [root |-> "mq", suffix |-> "_URL", value |-> "url", line |-> 1],
                     [root |-> "", suffix |-> "_URL", value |-> "text", line |-> 5],
                     [root |-> "mq", suffix |-> "_BROKER", value |-> "text", line |-> 1]>>},
     d \in {<< >>, <<6, 7>>, <<4>>}}

Adapter(p, r, base, urls) == [path |-> p, read |-> r, base |-> base, urls |-> urls]
SomeAdapters ==
  { << >>, <<Adapter(11, TRUE, "activemq", << >>)>>,
    <<Adapter(11, FALSE, "mq", << >>), Adapter(12, TRUE, "mq", <<Url("tcp", "mq", 1),
       Url("tcp", "", 2), Url("redis", "redis", 3), Url("http", "mq", 4)>>)>>,
    <<Adapter(11, TRUE, "", << >>)>> }

SomeHelpers ==
  {[i \in 1..2 |-> [path |-> 12 + i, read |-> r[i], jms |-> j[i]]] :
     r \in [1..2 -> BOOLEAN], j \in [1..2 -> BOOLEAN]}

SomeServiceRepositories ==
  {[language |-> "generic", files |-> <<f, g>>] : f, g \in SomeFiles}
  \cup {[language |-> "go", config |-> c, adapters |-> a, helpers |-> h] :
          c \in SomeConfigs, a \in SomeAdapters, h \in SomeHelpers}
=============================================================================
