-------------------------- MODULE ReadSurfacesProofs --------------------------
(***************************************************************************)
(* The read surfaces for every number of requests, projects and snapshots: *)
(* an empty answer is true of the pointer it was read from, and the        *)
(* dependency page draws its catalog whatever snapshot its profiles are    *)
(* of.                                                                     *)
(***************************************************************************)
EXTENDS ReadSurfaces, FiniteSetTheorems, TLAPS

Profiles == [Projects -> {NoSnapshot} \cup Ids]

(* What a read may find.                                                     *)
Findings ==
  BOOLEAN \cup (SUBSET Projects) \cup {NoSnapshot} \cup Ids \cup Profiles

ReadNames == {"pointer", "catalog", "scope", "profile", "profiles"}

Empties == {"no_snapshot", "not_in_scope", "not_yet_analyzed"}

Answers ==
  {"none", "content", "not_found", "method_not_allowed", "MethodNotFound",
   "InvalidParams", "deadline_exceeded", "store_unavailable",
   "internal_error", "tool_error"} \cup Empties

RequestType ==
  [kind : Kinds, project : Projects, at : {"queued", "handling", "answered"},
   seen : Seq(Findings), answer : Answers]

(* What a request is while it is handled, and what the dependency page has   *)
(* read when it is answered with content.                                    *)
RequestOK(q) ==
  /\ q \in RequestType
  /\ q.at = "queued" => q.seen = << >> /\ q.answer = "none"
  /\ q.at = "handling" =>
       /\ q.kind \notin Misdirected
       /\ q.answer = "none"
       /\ Len(q.seen) < Len(ReadsOf(q.kind))
  /\ q.kind = "dependencies" =>
       /\ Len(q.seen) >= 2 => q.seen[2] \in SUBSET Projects
       /\ Len(q.seen) >= 3 => q.seen[3] \in Profiles
       /\ q.answer = "content" => Len(q.seen) = 3

(* The pointer is at a snapshot that the connection shows, and at another    *)
(* one than the file's while it is uncommitted.                              *)
ViewsOK ==
  /\ DOMAIN views \subseteq Ids
  /\ views = [n \in DOMAIN views |-> views[n]]
  /\ \A n \in DOMAIN views : views[n] \in Views
  /\ current \in {NoSnapshot} \cup DOMAIN views
  /\ uncommitted \in BOOLEAN
  /\ uncommitted => before \in {NoSnapshot} \cup (DOMAIN views \ {current})

RequestsOK ==
  /\ request = [r \in Requests |-> request[r]]
  /\ \A r \in Requests : RequestOK(request[r])

SurfaceInv == ViewsOK /\ RequestsOK

-----------------------------------------------------------------------------
(* The handlers and their reads.                                            *)

LEMMA HandlersRead ==
  ASSUME NEW kind \in Kinds \ Misdirected
  PROVE  /\ Len(ReadsOf(kind)) \in 1..3
         /\ \A i \in 1..Len(ReadsOf(kind)) : ReadsOf(kind)[i] \in ReadNames
<1>1. kind \in Pages \cup QueryTools
  BY DEF Kinds
<1>2. CASE kind = "index"
  <2>1. ReadsOf(kind) = <<"pointer", "catalog">>
    BY <1>2 DEF ReadsOf, IndexReads, QueryTools
  <2> QED BY <2>1 DEF ReadNames
<1>3. CASE kind = "project_page"
  <2>1. ReadsOf(kind) = <<"scope", "profile">>
    BY <1>3 DEF ReadsOf, ProjectReads, QueryTools
  <2> QED BY <2>1 DEF ReadNames
<1>4. CASE kind = "dependencies"
  <2>1. ReadsOf(kind) = <<"pointer", "catalog", "profiles">>
    BY <1>4 DEF ReadsOf, DependenciesReads, QueryTools
  <2> QED BY <2>1 DEF ReadNames
<1>5. CASE kind \in QueryTools
  <2>1. ReadsOf(kind) = ToolReads(kind)
    BY <1>5 DEF ReadsOf, QueryTools
  <2>2. CASE kind = "list_projects"
    BY <2>1, <2>2 DEF ToolReads, ReadNames
  <2>3. CASE kind = "get_project"
    BY <2>1, <2>3 DEF ToolReads, ReadNames
  <2>4. CASE kind = "list_purpose_conflicts"
    BY <2>1, <2>4 DEF ToolReads, ReadNames
  <2> QED BY <1>5, <2>2, <2>3, <2>4 DEF QueryTools
<1> QED BY <1>1, <1>2, <1>3, <1>4, <1>5 DEF Pages

LEMMA DependencyReads ==
  /\ Len(ReadsOf("dependencies")) = 3
  /\ ReadsOf("dependencies")[2] = "catalog"
  /\ ReadsOf("dependencies")[3] = "profiles"
<1>1. ReadsOf("dependencies") = <<"pointer", "catalog", "profiles">>
  BY DEF ReadsOf, DependenciesReads, QueryTools
<1> QED BY <1>1

LEMMA ViewTyped ==
  ASSUME ViewsOK
  PROVE  /\ ViewOf(current).catalog \in SUBSET Projects
         /\ ViewOf(current).profile \in Profiles
<1>1. CASE current = NoSnapshot
  BY <1>1 DEF ViewOf, Profiles
<1>2. CASE current # NoSnapshot
  <2>1. views[current] \in Views /\ ViewOf(current) = views[current]
    BY <1>2 DEF ViewsOK, ViewOf
  <2> QED BY <2>1 DEF Views, Profiles, NoSnapshot
<1> QED BY <1>1, <1>2

LEMMA FindingTyped ==
  ASSUME ViewsOK, NEW read \in ReadNames, NEW p \in Projects
  PROVE  /\ Found(read, p, current) \in Findings
         /\ read = "catalog" => Found(read, p, current) \in SUBSET Projects
         /\ read = "profiles" => Found(read, p, current) \in Profiles
<1>1. /\ ViewOf(current).catalog \in SUBSET Projects
      /\ ViewOf(current).profile \in Profiles
  BY ViewTyped
<1>2. CASE read = "pointer"
  BY <1>2 DEF Found, Findings
<1>3. CASE read = "catalog"
  BY <1>1, <1>3 DEF Found, Findings
<1>4. CASE read = "scope"
  BY <1>4 DEF Found, Findings
<1>5. CASE read = "profile"
  <2>1. ViewOf(current).profile[p] \in {NoSnapshot} \cup Ids
    BY <1>1 DEF Profiles
  <2>2. Found(read, p, current) = ViewOf(current).profile[p]
    BY <1>5 DEF Found
  <2> QED BY <1>5, <2>1, <2>2 DEF Findings
<1>6. CASE read = "profiles"
  <2>1. Found(read, p, current) = ViewOf(current).profile
    BY <1>6 DEF Found
  <2> QED BY <1>1, <1>6, <2>1 DEF Findings
<1> QED BY <1>2, <1>3, <1>4, <1>5, <1>6 DEF ReadNames

(* An early answer is true of the pointer that was read.                     *)
LEMMA EarlyAnswerIsTrue ==
  ASSUME NEW read \in ReadNames, NEW p \in Projects, NEW answer,
         answer = EarlyAnswer(read, Found(read, p, current))
  PROVE  /\ answer \in Empties \cup {"none"}
         /\ answer = "no_snapshot" => current = NoSnapshot
         /\ answer = "not_in_scope" => p \notin ViewOf(current).catalog
         /\ answer = "not_yet_analyzed" =>
              ViewOf(current).profile[p] = NoSnapshot
         /\ read \in {"catalog", "profiles"} => answer = "none"
<1>1. CASE read = "pointer"
  BY <1>1 DEF EarlyAnswer, Found, Empties
<1>2. CASE read = "scope"
  BY <1>2 DEF EarlyAnswer, Found, Empties
<1>3. CASE read = "profile"
  BY <1>3 DEF EarlyAnswer, Found, Empties
<1>4. CASE read \in {"catalog", "profiles"}
  BY <1>4 DEF EarlyAnswer, Empties
<1> QED BY <1>1, <1>2, <1>3, <1>4 DEF ReadNames

-----------------------------------------------------------------------------
(* The invariant.                                                           *)

LEMMA SurfaceInitInv == SurfaceInit => SurfaceInv
<1> SUFFICES ASSUME SurfaceInit PROVE SurfaceInv
  OBVIOUS
<1>1. ViewsOK
  <2>1. views = << >> /\ DOMAIN views = {} /\ current = NoSnapshot /\ uncommitted = FALSE
    BY DEF SurfaceInit, ShownInit, Init
  <2>2. views = [n \in DOMAIN views |-> views[n]]
    BY <2>1
  <2> QED BY <2>1, <2>2 DEF ViewsOK
<1>2. ASSUME NEW k \in Kinds, NEW p \in Projects
      PROVE  RequestOK(Queued(k, p))
  <2>1. << >> \in Seq(Findings) /\ Len(<< >>) = 0
    OBVIOUS
  <2>2. Queued(k, p) \in RequestType
    BY <2>1 DEF Queued, RequestType, Answers
  <2> QED BY <2>1, <2>2 DEF Queued, RequestOK
<1>3. /\ request = [r \in Requests |-> request[r]]
      /\ \A r \in Requests :
           \E k \in Kinds, p \in Projects : request[r] = Queued(k, p)
  BY DEF SurfaceInit
<1> QED BY <1>1, <1>2, <1>3 DEF SurfaceInv, RequestsOK

(* What Next publishes is a view under an id that was free.                  *)
LEMMA NextPublishes ==
  ASSUME ViewsOK, Next
  PROVE  \E n \in Ids, v \in Views : Publish(n, v)
<1> USE DEF ViewsOK
<1>1. PICK n \in Ids : PublishFull(n) \/ PublishSingle(n)
  BY DEF Next
<1>2. CASE PublishFull(n)
  <2>1. PICK catalog \in SUBSET Projects : \E analyzed \in SUBSET catalog :
          Publish(n, [catalog |-> catalog,
                      profile |-> [p \in Projects |->
                                     IF p \in analyzed THEN n ELSE NoSnapshot]])
    BY <1>2 DEF PublishFull
  <2>2. PICK analyzed \in SUBSET catalog :
          Publish(n, [catalog |-> catalog,
                      profile |-> [p \in Projects |->
                                     IF p \in analyzed THEN n ELSE NoSnapshot]])
    BY <2>1
  <2>3. [catalog |-> catalog,
         profile |-> [p \in Projects |->
                        IF p \in analyzed THEN n ELSE NoSnapshot]] \in Views
    BY DEF Views, NoSnapshot
  <2> QED BY <2>2, <2>3
<1>3. CASE PublishSingle(n)
  <2>1. PICK base \in DOMAIN views, p \in Projects :
          \/ Publish(n, views[base])
          \/ Publish(n, [views[base] EXCEPT !.profile[p] = n])
    BY <1>3 DEF PublishSingle
  <2>2. views[base] \in Views
    OBVIOUS
  <2>3. [views[base] EXCEPT !.profile[p] = n] \in Views
    BY <2>2 DEF Views
  <2> QED BY <2>1, <2>2, <2>3
<1> QED BY <1>1, <1>2, <1>3

LEMMA MovePointerInv ==
  ASSUME SurfaceInv, MovePointer, UNCHANGED request
  PROVE  SurfaceInv'
<1> USE DEF SurfaceInv
<1>1. PICK n \in Ids, v \in Views : Publish(n, v)
  BY NextPublishes DEF MovePointer
<1>2. /\ n \notin DOMAIN views
      /\ views' = [m \in DOMAIN views \cup {n} |->
                     IF m = n THEN v ELSE views[m]]
      /\ current' = n /\ before' = current /\ uncommitted' = TRUE
  BY <1>1 DEF Publish, MovePointer
<1>3. before' \in {NoSnapshot} \cup (DOMAIN views' \ {n})
  <2>1. n # NoSnapshot
    BY FiniteAssumption DEF Ids, NoSnapshot
  <2> QED BY <1>2, <2>1 DEF ViewsOK
<1>4. ViewsOK'
  BY <1>2, <1>3 DEF ViewsOK
<1>5. RequestsOK'
  BY DEF RequestsOK
<1> QED BY <1>4, <1>5

LEMMA CommitInv ==
  ASSUME SurfaceInv, CommitSucceeds \/ CommitFails, UNCHANGED request
  PROVE  SurfaceInv'
<1> USE DEF SurfaceInv
<1>1. ViewsOK'
  <2>1. CASE CommitSucceeds
    BY <2>1 DEF CommitSucceeds, ViewsOK
  <2>2. CASE CommitFails
    BY <2>2 DEF CommitFails, ViewsOK
  <2> QED BY <2>1, <2>2
<1>2. RequestsOK'
  BY DEF RequestsOK
<1> QED BY <1>1, <1>2

(* The steps of one request leave the others and the store alone.            *)
LEMMA RequestStepInv ==
  ASSUME SurfaceInv, NEW r \in Requests, NEW q,
         request' = [request EXCEPT ![r] = q], RequestOK(q),
         UNCHANGED shownVars
  PROVE  SurfaceInv'
<1>1. ViewsOK'
  BY DEF SurfaceInv, ViewsOK, shownVars
<1>2. RequestsOK'
  BY DEF SurfaceInv, RequestsOK
<1> QED BY <1>1, <1>2 DEF SurfaceInv

LEMMA AnsweredInv ==
  ASSUME SurfaceInv, NEW r \in Requests, NEW answer \in Answers,
         answer # "content", request[r].at # "answered", Answered(r, answer),
         UNCHANGED shownVars
  PROVE  SurfaceInv'
<1> DEFINE q == [request[r] EXCEPT !.at = "answered", !.answer = answer]
<1>1. RequestOK(request[r]) /\ request = [s \in Requests |-> request[s]]
  BY DEF SurfaceInv, RequestsOK
<1>2. request' = [request EXCEPT ![r] = q]
  BY <1>1 DEF Answered
<1>3. RequestOK(q)
  <2>1. q \in RequestType /\ q.at = "answered" /\ q.answer = answer
        /\ q.seen = request[r].seen /\ q.kind = request[r].kind
    BY <1>1 DEF RequestOK, RequestType
  <2> HIDE DEF q
  <2> QED BY <1>1, <2>1 DEF RequestOK
<1> QED BY <1>2, <1>3, RequestStepInv

LEMMA HandleInv ==
  ASSUME SurfaceInv, NEW r \in Requests, Handle(r)
  PROVE  SurfaceInv'
<1> DEFINE q == [request[r] EXCEPT !.at = "handling"]
<1>1. /\ RequestOK(request[r]) /\ request = [s \in Requests |-> request[s]]
      /\ request[r].at = "queued" /\ request[r].kind \notin Misdirected
  BY DEF SurfaceInv, RequestsOK, Handle
<1>2. request' = [request EXCEPT ![r] = q]
  BY <1>1 DEF Handle
<1>3. /\ q \in RequestType /\ q.at = "handling" /\ q.answer = "none"
      /\ q.seen = << >> /\ q.kind \in Kinds \ Misdirected
  BY <1>1 DEF RequestOK, RequestType
<1> HIDE DEF q
<1>4. Len(q.seen) = 0 /\ Len(ReadsOf(q.kind)) >= 1
  <2>1. Len(ReadsOf(q.kind)) \in 1..3
    BY <1>3, HandlersRead
  <2>2. Len(q.seen) = 0
    <3>1. Len(<< >>) = 0
      OBVIOUS
    <3>2. q.seen = << >>
      BY <1>3
    <3> QED BY <3>1, <3>2, Zenon
  <2>3. Len(ReadsOf(q.kind)) >= 1
    BY <2>1
  <2> QED BY <2>2, <2>3
<1>5. RequestOK(q)
  BY <1>3, <1>4 DEF RequestOK
<1> QED BY <1>2, <1>5, RequestStepInv DEF Handle

(* What a read adds to a request, and that its answer is true.               *)
LEMMA ReadStep ==
  ASSUME SurfaceInv, NEW r \in Requests, Read(r)
  PROVE  \E q \in RequestType :
           /\ request' = [request EXCEPT ![r] = q]
           /\ RequestOK(q)
           /\ q.answer = "no_snapshot" => current = NoSnapshot
           /\ q.answer = "not_in_scope" =>
                q.project \notin ViewOf(current).catalog
           /\ q.answer = "not_yet_analyzed" =>
                ViewOf(current).profile[q.project] = NoSnapshot
<1> DEFINE o == request[r]
           n == Len(o.seen) + 1
           read == ReadsOf(o.kind)[n]
           found == Found(read, o.project, current)
           seen == Append(o.seen, found)
           early == EarlyAnswer(read, found)
           answer == IF early # "none" THEN early
                     ELSE IF Len(seen) = Len(ReadsOf(o.kind)) THEN "content"
                     ELSE "none"
           q == [o EXCEPT !.seen = seen, !.answer = answer,
                          !.at = IF answer = "none" THEN "handling"
                                 ELSE "answered"]
<1>1. /\ request' = [request EXCEPT ![r] = q] /\ o.at = "handling"
  BY DEF Read
<1>2. RequestOK(o) /\ ViewsOK
  BY DEF SurfaceInv, RequestsOK
<1>3. /\ o.kind \in Kinds \ Misdirected /\ o.project \in Projects
      /\ o.seen \in Seq(Findings) /\ n \in 1..Len(ReadsOf(o.kind))
      /\ o \in RequestType
  <2>1. /\ o.kind \in Kinds \ Misdirected /\ o.project \in Projects
        /\ o.seen \in Seq(Findings) /\ Len(o.seen) < Len(ReadsOf(o.kind))
        /\ o \in RequestType
    BY <1>1, <1>2 DEF RequestOK, RequestType
  <2> QED BY <2>1, HandlersRead
<1>4. read \in ReadNames
  BY <1>3, HandlersRead
<1>5. /\ found \in Findings
      /\ read = "catalog" => found \in SUBSET Projects
      /\ read = "profiles" => found \in Profiles
  BY <1>2, <1>3, <1>4, FindingTyped
<1>6. /\ early \in Empties \cup {"none"}
      /\ early = "no_snapshot" => current = NoSnapshot
      /\ early = "not_in_scope" => o.project \notin ViewOf(current).catalog
      /\ early = "not_yet_analyzed" =>
           ViewOf(current).profile[o.project] = NoSnapshot
      /\ read \in {"catalog", "profiles"} => early = "none"
  BY <1>3, <1>4, EarlyAnswerIsTrue
<1>7. /\ seen \in Seq(Findings) /\ Len(seen) = n /\ seen[n] = found
      /\ \A i \in 1..(n - 1) : seen[i] = o.seen[i]
  BY <1>3, <1>5
<1> HIDE DEF read, found, seen, early, n
<1>8. /\ answer \in Answers /\ answer \in Empties \cup {"none", "content"}
      /\ answer \in Empties => answer = early
      /\ answer = "content" => n = Len(ReadsOf(o.kind))
      /\ answer = "none" => n # Len(ReadsOf(o.kind))
  BY <1>6, <1>7 DEF Answers, Empties
<1> HIDE DEF answer
<1>9. /\ q \in RequestType /\ q.seen = seen /\ q.answer = answer
      /\ q.kind = o.kind /\ q.project = o.project
      /\ q.at = IF answer = "none" THEN "handling" ELSE "answered"
  BY <1>3, <1>7, <1>8 DEF RequestType
<1> HIDE DEF q
<1>10. RequestOK(q)
  <2>1. q.at = "handling" =>
          /\ q.kind \notin Misdirected /\ q.answer = "none"
          /\ Len(q.seen) < Len(ReadsOf(q.kind))
    BY <1>3, <1>7, <1>8, <1>9, HandlersRead
  <2>2. ASSUME q.kind = "dependencies"
        PROVE  /\ Len(q.seen) >= 2 => q.seen[2] \in SUBSET Projects
               /\ Len(q.seen) >= 3 => q.seen[3] \in Profiles
               /\ q.answer = "content" => Len(q.seen) = 3
    <3>1. n \in 1..3 /\ Len(q.seen) = n
      BY <1>3, <1>7, <1>9, <2>2, DependencyReads
    <3>2. /\ n > 2 => o.seen[2] \in SUBSET Projects
          /\ n = 2 => found \in SUBSET Projects
          /\ n = 3 => found \in Profiles
      <4>1. n > 2 => Len(o.seen) >= 2
        BY <1>3 DEF n
      <4>2. n > 2 => o.seen[2] \in SUBSET Projects
        BY <1>2, <1>9, <2>2, <4>1 DEF RequestOK
      <4>3. (n = 2 => read = "catalog") /\ (n = 3 => read = "profiles")
        BY <1>9, <2>2, DependencyReads DEF read
      <4> QED BY <1>5, <4>2, <4>3
    <3>3. Len(q.seen) >= 2 => q.seen[2] \in SUBSET Projects
      BY <1>7, <1>9, <3>1, <3>2
    <3>4. Len(q.seen) >= 3 => q.seen[3] \in Profiles
      BY <1>7, <1>9, <3>1, <3>2
    <3>5. q.answer = "content" => Len(q.seen) = 3
      BY <1>8, <1>9, <2>2, <3>1, DependencyReads
    <3> QED BY <3>3, <3>4, <3>5
  <2>3. q.at # "queued"
    BY <1>9
  <2> QED BY <1>9, <2>1, <2>2, <2>3 DEF RequestOK
<1> QED BY <1>1, <1>6, <1>8, <1>9, <1>10 DEF Empties
-----------------------------------------------------------------------------
(* Emptiness is true: each step keeps the invariant, and an empty answer is  *)
(* one of Read.                                                              *)

StepIsTrue ==
  \A r \in Requests :
    LET q == request'[r]
        p == q.project
    IN q # request[r] =>
         /\ q.answer = "no_snapshot" => current = NoSnapshot
         /\ q.answer = "not_in_scope" => p \notin ViewOf(current).catalog
         /\ q.answer = "not_yet_analyzed" =>
              ViewOf(current).profile[p] = NoSnapshot

LEMMA AnsweredIsTrue ==
  ASSUME SurfaceInv, NEW r \in Requests, NEW answer, answer \notin Empties,
         Answered(r, answer)
  PROVE  StepIsTrue
<1>1. /\ request = [s \in Requests |-> request[s]]
      /\ RequestOK(request[r])
  BY DEF SurfaceInv, RequestsOK
<1>2. request[r] \in RequestType
  BY <1>1 DEF RequestOK
<1>3. /\ request'[r].answer = answer
      /\ \A s \in Requests \ {r} : request'[s] = request[s]
  BY <1>1, <1>2 DEF Answered, RequestType
<1> QED BY <1>3 DEF StepIsTrue, Empties

LEMMA RefuseStep ==
  ASSUME SurfaceInv, NEW r \in Requests, Refuse(r)
  PROVE  SurfaceInv' /\ StepIsTrue
<1> DEFINE answer == IF request[r].kind \in Http THEN PageRefusal(request[r].kind)
                     ELSE ToolRefusal(request[r].kind)
<1>1. answer \in {"not_found", "method_not_allowed", "MethodNotFound", "InvalidParams"}
  BY DEF PageRefusal, ToolRefusal
<1>2. Answered(r, answer) /\ request[r].at # "answered"
      /\ UNCHANGED shownVars
  BY DEF Refuse
<1> HIDE DEF answer
<1>3. answer \in Answers /\ answer # "content" /\ answer \notin Empties
  BY <1>1 DEF Answers, Empties
<1> QED BY <1>2, <1>3, AnsweredInv, AnsweredIsTrue

LEMMA ReadFailsStep ==
  ASSUME SurfaceInv, NEW r \in Requests, ReadFails(r)
  PROVE  SurfaceInv' /\ StepIsTrue
<1>1. PICK unavailable \in BOOLEAN :
        /\ request[r].at = "handling"
        /\ Answered(r, FailureAnswer(request[r].kind, unavailable))
        /\ UNCHANGED shownVars
  BY DEF ReadFails
<1> DEFINE answer == FailureAnswer(request[r].kind, unavailable)
<1>2. answer \in {"store_unavailable", "internal_error", "tool_error"}
  BY DEF FailureAnswer, PageFailure, ToolFailure
<1>3. Answered(r, answer) /\ request[r].at # "answered"
  BY <1>1
<1> HIDE DEF answer
<1>4. answer \in Answers /\ answer # "content" /\ answer \notin Empties
  BY <1>2 DEF Answers, Empties
<1> QED BY <1>1, <1>3, <1>4, AnsweredInv, AnsweredIsTrue

LEMMA DeadlineStep ==
  ASSUME SurfaceInv, NEW r \in Requests, DeadlinePasses(r)
  PROVE  SurfaceInv' /\ StepIsTrue
<1>1. /\ Answered(r, "deadline_exceeded") /\ request[r].at # "answered"
      /\ UNCHANGED shownVars
  BY DEF DeadlinePasses
<1>2. /\ "deadline_exceeded" \in Answers /\ "deadline_exceeded" # "content"
      /\ "deadline_exceeded" \notin Empties
  BY DEF Answers, Empties
<1> QED BY <1>1, <1>2, AnsweredInv, AnsweredIsTrue

LEMMA HandleStep ==
  ASSUME SurfaceInv, NEW r \in Requests, Handle(r)
  PROVE  SurfaceInv' /\ StepIsTrue
<1>1. /\ request = [s \in Requests |-> request[s]]
      /\ RequestOK(request[r]) /\ request[r].at = "queued"
      /\ request' = [request EXCEPT ![r].at = "handling"]
  BY DEF SurfaceInv, RequestsOK, Handle
<1>2. request[r] \in RequestType /\ request[r].answer = "none"
  BY <1>1 DEF RequestOK
<1>3. /\ request'[r].answer = "none"
      /\ \A s \in Requests \ {r} : request'[s] = request[s]
  BY <1>1, <1>2 DEF RequestType
<1>4. StepIsTrue
  BY <1>3 DEF StepIsTrue
<1> QED BY <1>4, HandleInv

LEMMA ReadStepIsTrue ==
  ASSUME SurfaceInv, NEW r \in Requests, Read(r)
  PROVE  SurfaceInv' /\ StepIsTrue
<1>1. PICK q \in RequestType :
           /\ request' = [request EXCEPT ![r] = q]
           /\ RequestOK(q)
           /\ q.answer = "no_snapshot" => current = NoSnapshot
           /\ q.answer = "not_in_scope" =>
                q.project \notin ViewOf(current).catalog
           /\ q.answer = "not_yet_analyzed" =>
                ViewOf(current).profile[q.project] = NoSnapshot
  BY ReadStep
<1>2. UNCHANGED shownVars
  BY DEF Read
<1>3. SurfaceInv'
  BY <1>1, <1>2, RequestStepInv
<1>4. request'[r] = q /\ \A s \in Requests \ {r} : request'[s] = request[s]
  BY <1>1 DEF SurfaceInv, RequestsOK
<1> QED BY <1>1, <1>3, <1>4 DEF StepIsTrue

LEMMA SurfaceStep ==
  ASSUME SurfaceInv, [SurfaceNext]_surfaceVars
  PROVE  SurfaceInv' /\ [StepIsTrue]_surfaceVars
<1>1. CASE ShownNext /\ UNCHANGED request
  <2>1. StepIsTrue
    BY <1>1 DEF StepIsTrue
  <2> QED BY <1>1, <2>1, MovePointerInv, CommitInv DEF ShownNext
<1>2. ASSUME NEW r \in Requests, HandlerStep(r) \/ DeadlinePasses(r)
      PROVE  SurfaceInv' /\ StepIsTrue
  BY <1>2, RefuseStep, HandleStep, ReadStepIsTrue, ReadFailsStep, DeadlineStep
     DEF HandlerStep
<1>3. CASE UNCHANGED surfaceVars
  BY <1>3 DEF surfaceVars, shownVars, SurfaceInv, ViewsOK, RequestsOK
<1> QED BY <1>1, <1>2, <1>3 DEF SurfaceNext

(* The invariant holds throughout.                                           *)
THEOREM SurfacesTyped == SurfaceSpec => []SurfaceInv
<1>1. SurfaceInv /\ [SurfaceNext]_surfaceVars => SurfaceInv'
  BY SurfaceStep
<1> QED BY SurfaceInitInv, <1>1, PTL DEF SurfaceSpec

(* Emptiness is never a failure in disguise, nor a memory: whatever is       *)
(* published, undone or raised between the reads of a handler, it answers    *)
(* "no snapshot", "not in scope" or "not yet analyzed" only when that is so  *)
(* of the pointer as it answers (the early returns of the pages and tools).  *)
THEOREM EmptyAnswersAreTrue == SurfaceSpec => EmptinessIsTrue
<1>1. SurfaceInv /\ [SurfaceNext]_surfaceVars => [StepIsTrue]_surfaceVars
  BY SurfaceStep
<1>2. SurfaceSpec => [][StepIsTrue]_surfaceVars
  BY <1>1, SurfacesTyped, PTL DEF SurfaceSpec
<1> QED BY <1>2 DEF EmptinessIsTrue, StepIsTrue
-----------------------------------------------------------------------------
(* The dependency page.                                                     *)

(* What makes an edge of the page, when the profiles are read from profile.  *)
Shares(catalog, profile, a, b, t) ==
  /\ a # b /\ {a, b} \subseteq catalog
  /\ UsesTable(a, profile, t) /\ UsesTable(b, profile, t)

EdgeOf(profile, a, b, t) ==
  [ends |-> {a, b}, table |-> t,
   unknown |-> "unknown" \in {TablesOf[a][profile[a]][t],
                              TablesOf[b][profile[b]][t]}]

(* The profiles that render_dependency_graph keeps.                          *)
Kept(catalog, profile) == InScopeOnly(catalog, Tables(profile))

EdgesOf(kept) ==
  UNION {SharedTableEdges(pair[1], pair[2], kept) : pair \in Pairs(DOMAIN kept)}

(* Dropping the profiles outside the catalog leaves the tables that the      *)
(* profiles of the catalog use.                                              *)
LEMMA KeptTables ==
  ASSUME NEW catalog \in SUBSET Projects, NEW profile \in Profiles
  PROVE  /\ DOMAIN Kept(catalog, profile) = {p \in catalog : profile[p] # NoSnapshot}
         /\ \A p \in DOMAIN Kept(catalog, profile) :
              Kept(catalog, profile)[p] = TablesOf[p][profile[p]]
         /\ catalog \cap DOMAIN Kept(catalog, profile) = DOMAIN Kept(catalog, profile)
<1>1. DOMAIN Tables(profile) = {p \in Projects : profile[p] # NoSnapshot}
  BY DEF Tables
<1>2. \A p \in DOMAIN Tables(profile) :
        Tables(profile)[p] = TablesOf[p][profile[p]]
  BY DEF Tables
<1>3. Kept(catalog, profile) =
        [p \in catalog \cap DOMAIN Tables(profile) |-> Tables(profile)[p]]
  BY DEF Kept, InScopeOnly
<1> QED BY <1>1, <1>2, <1>3

(* The edges are those of the projects that share a table.                   *)
LEMMA EdgesAreShared ==
  ASSUME NEW catalog \in SUBSET Projects, NEW profile \in Profiles, NEW e
  PROVE  e \in EdgesOf(Kept(catalog, profile)) <=>
           \E a, b \in Projects : \E t \in TableNames :
             Shares(catalog, profile, a, b, t) /\ e = EdgeOf(profile, a, b, t)
<1> DEFINE kept == Kept(catalog, profile)
<1>1. /\ DOMAIN kept = {p \in catalog : profile[p] # NoSnapshot}
      /\ \A p \in DOMAIN kept : kept[p] = TablesOf[p][profile[p]]
  BY KeptTables
<1> HIDE DEF kept
<1>2. e \in EdgesOf(kept) <=>
        \E a, b \in DOMAIN kept : a # b /\ e \in SharedTableEdges(a, b, kept)
  <2>1. e \in EdgesOf(kept) <=>
          \E pair \in Pairs(DOMAIN kept) :
            e \in SharedTableEdges(pair[1], pair[2], kept)
    BY DEF EdgesOf
  <2>2. ASSUME NEW pair \in Pairs(DOMAIN kept)
        PROVE  /\ pair[1] \in DOMAIN kept /\ pair[2] \in DOMAIN kept
               /\ pair[1] # pair[2]
    BY DEF Pairs
  <2>3. ASSUME NEW a \in DOMAIN kept, NEW b \in DOMAIN kept, a # b
        PROVE  <<a, b>> \in Pairs(DOMAIN kept) /\ <<a, b>>[1] = a /\ <<a, b>>[2] = b
    BY <2>3 DEF Pairs
  <2> QED BY <2>1, <2>2, <2>3
<1>3. ASSUME NEW a \in DOMAIN kept, NEW b \in DOMAIN kept
      PROVE  e \in SharedTableEdges(a, b, kept) <=>
               \E t \in DOMAIN TablesOf[a][profile[a]]
                          \cap DOMAIN TablesOf[b][profile[b]] :
                 e = EdgeOf(profile, a, b, t)
  BY <1>1, <1>3 DEF SharedTableEdges, EdgeOf
<1>4. ASSUME NEW a \in DOMAIN kept, NEW t \in DOMAIN TablesOf[a][profile[a]]
      PROVE  t \in TableNames
  <2>1. a \in Projects /\ profile[a] \in Ids
    BY <1>1, <1>4 DEF Profiles
  <2> QED BY <2>1, <1>4 DEF TableNames
<1>5. ASSUME NEW a \in Projects, NEW b \in Projects, NEW t \in TableNames
      PROVE  Shares(catalog, profile, a, b, t) <=>
               /\ a # b /\ a \in DOMAIN kept /\ b \in DOMAIN kept
               /\ t \in DOMAIN TablesOf[a][profile[a]]
                          \cap DOMAIN TablesOf[b][profile[b]]
  BY <1>1 DEF Shares, UsesTable
<1>6. DOMAIN kept \subseteq Projects
  BY <1>1
<1>7. e \in EdgesOf(kept) <=>
        \E a, b \in Projects : \E t \in TableNames :
          Shares(catalog, profile, a, b, t) /\ e = EdgeOf(profile, a, b, t)
  BY <1>2, <1>3, <1>4, <1>5, <1>6
<1> QED BY <1>7 DEF kept

(* A page has finitely many edges: as there are finitely many tables.        *)
LEMMA FinitelyManyEdges ==
  ASSUME NEW catalog \in SUBSET Projects, NEW profile \in Profiles
  PROVE  IsFiniteSet(EdgesOf(Kept(catalog, profile)))
<1> DEFINE E == EdgesOf(Kept(catalog, profile))
           F == (SUBSET Projects) \X (TableNames \X BOOLEAN)
           f == [e \in E |-> <<e.ends, <<e.table, e.unknown>>>>]
<1>1. IsFiniteSet(F)
  <2>1. IsFiniteSet(SUBSET Projects)
    BY FiniteAssumption, FS_SUBSET
  <2>2. IsFiniteSet(TableNames)
    BY FiniteAssumption DEF TableNames
  <2>3. IsFiniteSet(BOOLEAN)
    <3>1. IsFiniteSet({} \cup {TRUE}) /\ IsFiniteSet(({} \cup {TRUE}) \cup {FALSE})
      BY FS_EmptySet, FS_AddElement
    <3>2. ({} \cup {TRUE}) \cup {FALSE} = BOOLEAN
      OBVIOUS
    <3> QED BY <3>1, <3>2
  <2>4. IsFiniteSet(TableNames \X BOOLEAN)
    BY <2>2, <2>3, FS_Product
  <2> QED BY <2>1, <2>4, FS_Product
<1>2. ASSUME NEW e \in E
      PROVE  /\ e = [ends |-> e.ends, table |-> e.table, unknown |-> e.unknown]
             /\ e.ends \in SUBSET Projects /\ e.table \in TableNames
             /\ e.unknown \in BOOLEAN
  <2>1. e \in EdgesOf(Kept(catalog, profile))
    BY <1>2
  <2>2. \E a, b \in Projects : \E t \in TableNames :
          Shares(catalog, profile, a, b, t) /\ e = EdgeOf(profile, a, b, t)
    BY <2>1, EdgesAreShared
  <2>3. PICK a \in Projects, b \in Projects, t \in TableNames :
          e = EdgeOf(profile, a, b, t)
    BY <2>2
  <2> QED BY <2>3 DEF EdgeOf
<1>3. f \in [E -> F]
  BY <1>2
<1>4. ASSUME NEW d \in E, NEW e \in E, f[d] = f[e]
      PROVE  d = e
  <2>1. d.ends = e.ends /\ d.table = e.table /\ d.unknown = e.unknown
    BY <1>4
  <2> QED BY <1>2, <2>1
<1>5. f \in Injection(E, F)
  BY <1>3, <1>4 DEF Injection, IsInjective
<1> HIDE DEF E, F, f
<1>6. IsFiniteSet(E)
  BY <1>1, <1>5, FS_Injection
<1> QED BY <1>6 DEF E
(* What DependencyPage says of the edges, for any catalog and profiles.      *)
LEMMA PageIsExact ==
  ASSUME NEW catalog \in SUBSET Projects, NEW profile \in Profiles
  PROVE  LET page == DependencyPage(catalog, Tables(profile))
         IN /\ page.data.nodes = page.source.nodes
            /\ page.data.edges = page.source.edges
            /\ page.data.nodes = UNION {e.ends : e \in page.data.edges}
            /\ page.data.edges = {} <=> "no shared dependencies" \in page.messages
            /\ page.data.edges = EdgesOf(Kept(catalog, profile))
<1> DEFINE kept == Kept(catalog, profile)
           edges == EdgesOf(kept)
           page == DependencyPage(catalog, Tables(profile))
<1>1. DOMAIN kept \subseteq catalog /\ catalog \cap DOMAIN kept = DOMAIN kept
  BY KeptTables
<1>2. ASSUME NEW e \in edges
      PROVE  e.ends \subseteq catalog
  <2>1. e \in EdgesOf(Kept(catalog, profile))
    BY <1>2
  <2>2. \E a, b \in Projects : \E t \in TableNames :
          Shares(catalog, profile, a, b, t) /\ e = EdgeOf(profile, a, b, t)
    BY <2>1, EdgesAreShared
  <2> QED BY <2>2 DEF Shares, EdgeOf
<1>3. CASE catalog = {}
  <2> DEFINE none == {}
  <2>0. page.data = [nodes |-> none, edges |-> none]
    BY <1>3 DEF DependencyPage
  <2>1. /\ page.source.nodes = none /\ page.source.edges = none
        /\ page.messages = {"no projects in scope", "no shared dependencies"}
    BY <1>3 DEF DependencyPage
  <2>2. edges = none /\ UNION {e.ends : e \in edges} = none
    <3>1. Pairs(DOMAIN kept) = {}
      BY <1>1, <1>3 DEF Pairs
    <3> QED BY <3>1 DEF EdgesOf
  <2> HIDE DEF page, edges, none
  <2>3. page.data.nodes = none /\ page.data.edges = none
    BY <2>0
  <2>4. "no shared dependencies" \in page.messages
    BY <2>1, Zenon
  <2>5. page.data.edges = {}
    BY <2>3 DEF none
  <2> QED BY <2>1, <2>2, <2>3, <2>4, <2>5, Zenon DEF page, edges, kept
<1>4. CASE catalog # {}
  <2> DEFINE drawn == catalog \cap UNION {e.ends : e \in edges}
             listed == {p \in catalog : \E e \in edges : p \in e.ends}
             count == Cardinality(edges)
  <2> USE <1>1, <1>4 DEF DependencyPage, MermaidSource, GraphData, Kept, EdgesOf,
                         Participating
  <2>0. page.source = [nodes |-> listed, edges |-> edges, count |-> count]
    OBVIOUS
  <2>1. page.data = [nodes |-> drawn, edges |-> edges]
    OBVIOUS
  <2>6. page.messages = IF page.source.count > 0 THEN {}
                        ELSE {"no shared dependencies"}
    OBVIOUS
  <2> HIDE <1>1, <1>4 DEF DependencyPage, MermaidSource, GraphData, Kept, EdgesOf,
                         Participating
  <2>2. drawn = listed /\ drawn = UNION {e.ends : e \in edges}
    BY <1>2
  <2>3. count \in Nat /\ (count = 0 <=> edges = {})
    <3>1. IsFiniteSet(edges)
      BY FinitelyManyEdges
    <3> HIDE DEF edges
    <3> QED BY <3>1, FS_CardinalityType, FS_EmptySet
  <2> HIDE DEF page, edges, drawn, listed, count
  <2>4. /\ page.data.nodes = drawn /\ page.source.nodes = listed
        /\ page.data.edges = edges /\ page.source.edges = edges
        /\ page.source.count = count
    <3>1. page.data.nodes = drawn /\ page.data.edges = edges
      BY <2>1
    <3>2. page.source.nodes = listed /\ page.source.edges = edges
          /\ page.source.count = count
      BY <2>0
    <3> QED BY <3>1, <3>2
  <2>5. edges = {} <=> "no shared dependencies" \in page.messages
    <3>1. count > 0 <=> edges # {}
      BY <2>3
    <3>2. page.messages = IF count > 0 THEN {} ELSE {"no shared dependencies"}
      BY <2>4, <2>6, Zenon
    <3>3. CASE edges = {}
      BY <3>1, <3>2, <3>3, Zenon
    <3>4. CASE edges # {}
      BY <3>1, <3>2, <3>4, Zenon
    <3> QED BY <3>3, <3>4
  <2> QED BY <2>2, <2>4, <2>5, Zenon DEF page, edges, kept
<1> QED BY <1>3, <1>4

(* The edges of a page, as its readers see them.                             *)
DrawsSharing(edges, catalog, profile) ==
  /\ \A a, b \in Projects, t \in TableNames :
       (\E e \in edges : e.ends = {a, b} /\ e.table = t)
         <=> Shares(catalog, profile, a, b, t)
  /\ \A e \in edges :
       e.unknown <=>
         \E p \in e.ends : TablesOf[p][profile[p]][e.table] = "unknown"

LEMMA EdgesAreExact ==
  ASSUME NEW catalog \in SUBSET Projects, NEW profile \in Profiles
  PROVE  DrawsSharing(EdgesOf(Kept(catalog, profile)), catalog, profile)
<1> DEFINE edges == EdgesOf(Kept(catalog, profile))
<1>1. \A e : e \in edges <=>
        \E a, b \in Projects : \E t \in TableNames :
          Shares(catalog, profile, a, b, t) /\ e = EdgeOf(profile, a, b, t)
  BY EdgesAreShared
<1> HIDE DEF edges
<1>2. ASSUME NEW a \in Projects, NEW b \in Projects, NEW t \in TableNames
      PROVE  (\E e \in edges : e.ends = {a, b} /\ e.table = t)
               <=> Shares(catalog, profile, a, b, t)
  <2>1. ASSUME NEW e \in edges, e.ends = {a, b}, e.table = t
        PROVE  Shares(catalog, profile, a, b, t)
    <3>1. PICK c \in Projects, d \in Projects, u \in TableNames :
            Shares(catalog, profile, c, d, u) /\ e = EdgeOf(profile, c, d, u)
      BY <1>1, <2>1
    <3>2. e.ends = {c, d} /\ e.table = u
      BY <3>1 DEF EdgeOf
    <3>3. u = t /\ ((c = a /\ d = b) \/ (c = b /\ d = a))
      BY <2>1, <3>1, <3>2 DEF Shares
    <3> QED BY <3>1, <3>3 DEF Shares
  <2>2. ASSUME Shares(catalog, profile, a, b, t)
        PROVE  \E e \in edges : e.ends = {a, b} /\ e.table = t
    <3>1. EdgeOf(profile, a, b, t) \in edges
      BY <1>1, <2>2
    <3>2. EdgeOf(profile, a, b, t).ends = {a, b}
          /\ EdgeOf(profile, a, b, t).table = t
      BY DEF EdgeOf
    <3> QED BY <3>1, <3>2
  <2> QED BY <2>1, <2>2
<1>3. ASSUME NEW e \in edges
      PROVE  e.unknown <=> \E p \in e.ends :
                             TablesOf[p][profile[p]][e.table] = "unknown"
  <2>1. PICK a \in Projects, b \in Projects, t \in TableNames :
          e = EdgeOf(profile, a, b, t)
    BY <1>1, <1>3
  <2>2. /\ e.ends = {a, b} /\ e.table = t
        /\ e.unknown = ("unknown" \in {TablesOf[a][profile[a]][t],
                                       TablesOf[b][profile[b]][t]})
    BY <2>1 DEF EdgeOf
  <2> QED BY <2>2
<1> QED BY <1>2, <1>3 DEF edges, DrawsSharing

(* The dependency page draws its catalog and nothing else, whatever snapshot *)
(* its profiles are of: for every catalog and every profiles that its three  *)
(* reads may return, an edge for each table that two projects of the catalog *)
(* share, a node where an edge ends, the same graph in both forms, and the   *)
(* message exactly when there is no edge (render_dependency_graph).          *)
THEOREM PagesDrawTheirCatalogs == SurfaceSpec => []PageDrawsItsCatalog
<1>1. SurfaceInv => PageDrawsItsCatalog
  <2> SUFFICES ASSUME SurfaceInv, NEW q \in Served("dependencies")
      PROVE  LET catalog == q.seen[2]
                 profile == q.seen[3]
                 page == DependencyPage(catalog, Tables(profile))
             IN /\ page.data.nodes = page.source.nodes
                /\ page.data.edges = page.source.edges
                /\ page.data.nodes = UNION {e.ends : e \in page.data.edges}
                /\ page.data.edges = {} <=>
                     "no shared dependencies" \in page.messages
                /\ \A a, b \in Projects, t \in TableNames :
                     (\E e \in page.data.edges : e.ends = {a, b} /\ e.table = t)
                       <=> /\ a # b /\ {a, b} \subseteq catalog
                           /\ UsesTable(a, profile, t)
                           /\ UsesTable(b, profile, t)
                /\ \A e \in page.data.edges :
                     e.unknown <=>
                       \E p \in e.ends :
                         TablesOf[p][profile[p]][e.table] = "unknown"
    BY DEF PageDrawsItsCatalog
  <2> DEFINE catalog == q.seen[2]
             profile == q.seen[3]
             page == DependencyPage(catalog, Tables(profile))
  <2>1. catalog \in SUBSET Projects /\ profile \in Profiles
    <3>1. RequestOK(q) /\ q.kind = "dependencies" /\ q.answer = "content"
      BY DEF Served, SurfaceInv, RequestsOK
    <3> QED BY <3>1 DEF RequestOK
  <2> HIDE DEF catalog, profile
  <2>2. /\ page.data.nodes = page.source.nodes
        /\ page.data.edges = page.source.edges
        /\ page.data.nodes = UNION {e.ends : e \in page.data.edges}
        /\ page.data.edges = {} <=> "no shared dependencies" \in page.messages
        /\ page.data.edges = EdgesOf(Kept(catalog, profile))
    BY <2>1, PageIsExact
  <2> HIDE DEF page
  <2>3. DrawsSharing(page.data.edges, catalog, profile)
    <3>1. DrawsSharing(EdgesOf(Kept(catalog, profile)), catalog, profile)
      BY <2>1, EdgesAreExact
    <3>2. page.data.edges = EdgesOf(Kept(catalog, profile))
      BY <2>2
    <3> QED BY <3>1, <3>2, Zenon
  <2> QED BY <2>2, <2>3 DEF DrawsSharing, Shares, page, catalog, profile
<1> QED BY <1>1, SurfacesTyped, PTL
=============================================================================
