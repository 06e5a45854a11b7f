---------------------------- MODULE ServiceDetectors ----------------------------
(***************************************************************************)
(* The detectors of external services: external_services.py looks for URLs *)
(* and SDK calls in every file, go_external_services.py for URLs, named    *)
(* constants and JMS usage in the configuration, the adapters and the      *)
(* helpers of a Go microservice.  They join sightings of one name in       *)
(* different ways: the first takes the most specific kind and sorts, the   *)
(* second keeps the kind and the order of the first sighting.              *)
(*                                                                         *)
(* A name is a sequence: of one host, constant or SDK, or of an adapter    *)
(* and the hosts it names.                                                 *)
(***************************************************************************)
EXTENDS Naturals, FiniteSets, Sequences, SequencesExt

CONSTANTS
  ServiceRepositories,  \* what the patterns can see of the repositories
  LocalHosts,           \* the hosts _is_local_host knows, and templates
  HostKind,             \* _classify_http_host
  GoService             \* the path numbers of config.go and the helpers

ServiceKinds == {"message_broker", "object_store", "cache", "auth_provider",
          "http_api", "other"}

ASSUME HostsAssumption == Range(HostKind) \subseteq ServiceKinds

(* What the patterns see of a file, with its line.                           *)
UrlSeen == [scheme : STRING, host : STRING, line : Nat]
SdkSeen == [name : STRING, kind : ServiceKinds, line : Nat]
ConstantSeen ==
  [root : STRING, suffix : {"_BROKER", "_HOST", "_URL", "_ENDPOINT", "_URI"},
   value : STRING, line : Nat]

AnyFile == [skipped : BOOLEAN, urls : Seq(UrlSeen), sdks : Seq(SdkSeen)]
ConfigFile ==
  [read : BOOLEAN, urls : Seq(UrlSeen), constants : Seq(ConstantSeen),
   destinations : Seq(Nat)]
AdapterFile == [path : Nat, read : BOOLEAN, base : STRING, urls : Seq(UrlSeen)]
HelperFile == [path : Nat, read : BOOLEAN, jms : BOOLEAN]

ASSUME RepositoriesAssumption ==
  /\ GoService.config \in Nat
  /\ \A repo \in ServiceRepositories :
       IF repo.language = "go"
         THEN /\ repo.config \in ConfigFile
              /\ repo.adapters \in Seq(AdapterFile) /\ repo.helpers \in Seq(HelperFile)
         ELSE /\ repo.files \in Seq(AnyFile)
              /\ \A f \in DOMAIN repo.files : \A u \in Range(repo.files[f].urls) :
                   u.scheme = "http" => u.host \in DOMAIN HostKind

VARIABLES
  serviceRepo,   \* [language, ...]
  servicePass,
  serviceFile,   \* the file the pass is at
  sightings,     \* detections, in the order of the scan
  services       \* the result, a function on the names

serviceVars == <<serviceRepo, servicePass, serviceFile, sightings, services>>

(* The elements of seq at the positions in K, in their order.                *)
Picked(seq, K) ==
  FlattenSeq([i \in DOMAIN seq |-> IF i \in K THEN <<seq[i]>> ELSE << >>])

Those(seq, Test(_)) == Picked(seq, {i \in DOMAIN seq : Test(seq[i])})

Sighting(name, kind, locations) ==
  [name |-> name, kind |-> kind, locations |-> locations]

-----------------------------------------------------------------------------
(* URLs and SDK calls of any file.                                          *)

Denied == {"git", "file", "ssh"}

(* _SCHEME_KIND, and http(s) by the host.                                    *)
KindOfUrl(url) ==
  CASE url.scheme \in {"kafka", "amqp"} -> "message_broker"
    [] url.scheme = "redis" -> "cache"
    [] url.scheme = "s3" -> "object_store"
    [] url.scheme = "http" -> HostKind[url.host]
    [] OTHER -> "other"

External(url) == url.scheme \notin Denied /\ url.host \notin LocalHosts

(* _scan_urls, then _scan_sdk_patterns.                                      *)
Scan(file, f) ==
  LET urls == Those(file.urls, External)
  IN [i \in DOMAIN urls |->
        Sighting(<<urls[i].host>>, KindOfUrl(urls[i]), << <<f, urls[i].line>> >>)]
     \o [i \in DOMAIN file.sdks |->
           Sighting(<<file.sdks[i].name>>, file.sdks[i].kind,
                    << <<f, file.sdks[i].line>> >>)]

Rank(kind) == CASE kind = "http_api" -> 1 [] kind = "other" -> 2 [] OTHER -> 0

Named(n) == {i \in DOMAIN sightings : sightings[i].name = n}

Names == {sightings[i].name : i \in DOMAIN sightings}

(* Mutant of BestKind: the first sighting says it.                           *)
BestKindFirst(n) ==
  sightings[CHOOSE i \in Named(n) : \A j \in Named(n) : i <= j].kind

(* min over the ranks: the first of the most specific ones.                  *)
BestKind(n) ==
  sightings[CHOOSE i \in Named(n) : \A j \in Named(n) :
    \/ Rank(sightings[i].kind) < Rank(sightings[j].kind)
    \/ Rank(sightings[i].kind) = Rank(sightings[j].kind) /\ i <= j].kind

Earlier(a, b) == a[1] < b[1] \/ (a[1] = b[1] /\ a[2] < b[2])

(* By path and line, each once.                                              *)
Sorted(places) ==
  CHOOSE s \in [1..Cardinality(places) -> places] :
    \A i, j \in 1..Cardinality(places) : i < j => Earlier(s[i], s[j])

(* _aggregate.                                                               *)
Aggregate ==
  [n \in Names |->
     [kind |-> BestKind(n),
      locations |-> Sorted(UNION {Range(sightings[i].locations) : i \in Named(n)})]]

-----------------------------------------------------------------------------
(* Go: a broker is known by its scheme, an API too.                         *)

KindOfScheme(scheme) ==
  CASE scheme \in {"tcp", "stomp", "amqp"} -> "message_broker"
    [] scheme = "redis" -> "cache"
    [] scheme = "http" -> "http_api"
    [] OTHER -> "other"

Hosted(url) == url.host # ""

KindOfConstant(suffix) ==
  CASE suffix = "_BROKER" -> "message_broker"
    [] suffix = "_HOST" -> "other"
    [] suffix \in {"_URL", "_ENDPOINT", "_URI"} -> "http_api"

(* A constant whose value has a URL is left to the URLs, also when that URL  *)
(* has no host.                                                              *)
WithoutUrl(constant) == constant.value = "text" /\ constant.root # ""

(* _scan_config.                                                             *)
ConfigSightings(config) ==
  LET urls == Those(config.urls, Hosted)
      constants == Those(config.constants, WithoutUrl)
      At(line) == << <<GoService.config, line>> >>
  IN [i \in DOMAIN urls |->
        Sighting(<<urls[i].host>>, KindOfScheme(urls[i].scheme), At(urls[i].line))]
     \o [i \in DOMAIN constants |->
           Sighting(<<constants[i].root>>, KindOfConstant(constants[i].suffix),
                    At(constants[i].line))]

FirstOfHost(urls) ==
  Picked(urls, {i \in DOMAIN urls : \A j \in 1..(i - 1) : urls[j].host # urls[i].host})

(* _scan_adapter: one sighting, named for the file and its hosts; line 0     *)
(* stands for none.                                                          *)
AdapterSightings(adapter) ==
  LET urls == FirstOfHost(Those(adapter.urls, Hosted))
  IN IF adapter.base = "" THEN << >>
     ELSE IF urls = << >>
       THEN <<Sighting(<<adapter.base>>, "other", << <<adapter.path, 0>> >>)>>
     ELSE <<Sighting(<<adapter.base>> \o [i \in DOMAIN urls |-> urls[i].host],
                     KindOfScheme(urls[1].scheme),
                     << <<adapter.path, urls[1].line>> >>)>>

(* _scan_jms: the helper, and each line of the configuration that names a    *)
(* destination.                                                              *)
HelperSightings(helper, config) ==
  IF ~helper.jms THEN << >>
  ELSE <<Sighting(<<"activemq">>, "message_broker",
           << <<helper.path, 0>> >>
           \o [i \in DOMAIN config.destinations |->
                 <<GoService.config, config.destinations[i]>>])>>

(* The locations of a name, each once, in the order of discovery.            *)
LocationsOf(n) ==
  LET all == FlattenSeq([i \in DOMAIN sightings |->
               IF i \in Named(n) THEN sightings[i].locations ELSE << >>])
  IN Picked(all, {i \in DOMAIN all : \A j \in 1..(i - 1) : all[j] # all[i]})

(* _coalesce.                                                                *)
Coalesce ==
  [n \in Names |->
     [kind |-> sightings[CHOOSE i \in Named(n) : \A j \in Named(n) : i <= j].kind,
      locations |-> LocationsOf(n)]]

-----------------------------------------------------------------------------
NoServices == [n \in {} |-> 0]

Missing == [urls |-> << >>, constants |-> << >>, destinations |-> << >>]

(* config.go, unless it is missing or imports nothing but the APM agent.     *)
Config == IF serviceRepo.config.read THEN serviceRepo.config ELSE Missing

ServicesInit ==
  /\ serviceRepo \in ServiceRepositories
  /\ servicePass = IF serviceRepo.language = "go" THEN "config" ELSE "files"
  /\ serviceFile = 1
  /\ sightings = << >> /\ services = NoServices

See(new) ==
  /\ sightings' = sightings \o new
  /\ UNCHANGED <<serviceRepo, services>>

(* One file of detect_external_services, unless _should_skip_file.           *)
ScanFile ==
  /\ servicePass = "files" /\ serviceFile <= Len(serviceRepo.files)
  /\ LET file == serviceRepo.files[serviceFile]
     IN See(IF file.skipped THEN << >> ELSE Scan(file, serviceFile))
  /\ serviceFile' = serviceFile + 1
  /\ UNCHANGED servicePass

Aggregation ==
  /\ servicePass = "files" /\ serviceFile > Len(serviceRepo.files)
  /\ services' = Aggregate
  /\ servicePass' = "done"
  /\ UNCHANGED <<serviceRepo, serviceFile, sightings>>

(* The three passes of detect_go_external_services.                          *)
ScanConfig ==
  /\ servicePass = "config"
  /\ See(ConfigSightings(Config))
  /\ servicePass' = "adapters"
  /\ UNCHANGED serviceFile

(* An adapter, or a helper, that imports nothing but the agent is passed.    *)
ScanAdapter ==
  /\ servicePass = "adapters" /\ serviceFile <= Len(serviceRepo.adapters)
  /\ LET adapter == serviceRepo.adapters[serviceFile]
     IN See(IF adapter.read THEN AdapterSightings(adapter) ELSE << >>)
  /\ serviceFile' = serviceFile + 1
  /\ UNCHANGED servicePass

AdaptersScanned ==
  /\ servicePass = "adapters" /\ serviceFile > Len(serviceRepo.adapters)
  /\ servicePass' = "helpers" /\ serviceFile' = 1
  /\ UNCHANGED <<serviceRepo, sightings, services>>

ScanHelper ==
  /\ servicePass = "helpers" /\ serviceFile <= Len(serviceRepo.helpers)
  /\ LET helper == serviceRepo.helpers[serviceFile]
     IN See(IF helper.read THEN HelperSightings(helper, Config) ELSE << >>)
  /\ serviceFile' = serviceFile + 1
  /\ UNCHANGED servicePass

Coalescing ==
  /\ servicePass = "helpers" /\ serviceFile > Len(serviceRepo.helpers)
  /\ services' = Coalesce
  /\ servicePass' = "done"
  /\ UNCHANGED <<serviceRepo, serviceFile, sightings>>

ServicesNext ==
  \/ ScanFile
  \/ Aggregation
  \/ ScanConfig
  \/ ScanAdapter
  \/ AdaptersScanned
  \/ ScanHelper
  \/ Coalescing

ServicesSpec == ServicesInit /\ [][ServicesNext]_serviceVars

-----------------------------------------------------------------------------
(* The reference: who is seen where, and as what, in any order.             *)

SeenInFile(f) ==
  LET file == serviceRepo.files[f]
  IN IF file.skipped THEN {}
     ELSE {<<<<u.host>>, KindOfUrl(u), <<f, u.line>> >> :
             u \in {v \in Range(file.urls) : External(v)}}
          \cup {<<<<s.name>>, s.kind, <<f, s.line>> >> : s \in Range(file.sdks)}

SeenInConfig ==
  {<<<<u.host>>, KindOfScheme(u.scheme), <<GoService.config, u.line>> >> :
     u \in {v \in Range(Config.urls) : Hosted(v)}}
  \cup {<<<<c.root>>, KindOfConstant(c.suffix), <<GoService.config, c.line>> >> :
          c \in {d \in Range(Config.constants) : WithoutUrl(d)}}

SeenInAdapter(a) ==
  LET adapter == serviceRepo.adapters[a]
  IN IF ~adapter.read THEN {}
     ELSE {<<s.name, s.kind, s.locations[1]>> : s \in Range(AdapterSightings(adapter))}

SeenInHelper(h) ==
  LET helper == serviceRepo.helpers[h]
  IN IF ~(helper.read /\ helper.jms) THEN {}
     ELSE {<<<<"activemq">>, "message_broker", p>> :
             p \in {<<helper.path, 0>>}
                    \cup {<<GoService.config, d>> : d \in Range(Config.destinations)}}

Seen ==
  IF serviceRepo.language = "go"
    THEN SeenInConfig
         \cup (UNION {SeenInAdapter(a) : a \in DOMAIN serviceRepo.adapters})
         \cup (UNION {SeenInHelper(h) : h \in DOMAIN serviceRepo.helpers})
  ELSE UNION {SeenInFile(f) : f \in DOMAIN serviceRepo.files}

KindsOf(n) == {s[2] : s \in {t \in Seen : t[1] = n}}

(* A profile names exactly the services that are seen, each once, with every*)
(* place it is seen at exactly once, also when the two helper paths and the *)
(* configuration speak of the same broker; its kind is one it is seen as    *)
(* and, in files of any language, none of them is more specific, in         *)
(* whatever file or order they stand (Requirement 5.3 in the comments of    *)
(* _aggregate, and _coalesce).                                              *)
ServicesAreExact ==
  servicePass = "done" =>
    /\ DOMAIN services = {s[1] : s \in Seen}
    /\ \A n \in DOMAIN services :
         /\ Range(services[n].locations) = {s[3] : s \in {t \in Seen : t[1] = n}}
         /\ Len(services[n].locations) = Cardinality(Range(services[n].locations))
         /\ services[n].kind \in KindsOf(n)
         /\ serviceRepo.language # "go" =>
              \A k \in KindsOf(n) : Rank(services[n].kind) <= Rank(k)
=============================================================================
