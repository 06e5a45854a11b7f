--------------------------- MODULE AnalysisProofs ---------------------------
(***************************************************************************)
(* Proofs of what the analysis of a project promises, from the fetch of its *)
(* files to the conflicts of its profile.                                  *)
(*                                                                         *)
(* The GitLab_Connector (GitLabConnector.tla), for every group, tree, page *)
(* size, cap, pool and kind of failure: an enumeration skips nobody while  *)
(* projects come and go, the pool of threads gives what a loop would give, *)
(* and the contents are those of the commit.                               *)
(*                                                                         *)
(* analyze (ProjectAnalyzer.tla), for every repository and whatever raises: *)
(* the sections are isolated and every loss is in the profile.             *)
(*                                                                         *)
(* find_all_conflicts (ConflictDetector.tla), for every vocabulary, every  *)
(* set of summaries and every list of profiles: it returns each conflict   *)
(* once.                                                                   *)
(*                                                                         *)
(* The detectors (ServiceDetectors.tla, TableDetectors.tla), for every     *)
(* repository: what they report is what a definition without passes and    *)
(* order says of it.                                                       *)
(***************************************************************************)
EXTENDS GitLabConnector, ProjectAnalyzer, ConflictDetector, ServiceDetectors,
        TableDetectors, OrderingProofs

-----------------------------------------------------------------------------
(* The GitLab_Connector.                                                    *)

Requesting == {"group", "tree"}
Pooled == {"fetching", "joining", "fetched"}
Places == Requesting \cup Pooled \cup Errors \cup {"enumerated"}

FailedFetches == InState("unauthorized") \cup InState("server_error")
FetchStates ==
  {"pending", "running", "cancelled", "unauthorized", "server_error", "text",
   "none"}

ConnectorTypes ==
  /\ lastId \in 0..MaxProject
  /\ group \subseteq 1..lastId
  /\ groupBefore \subseteq 1..lastId
  /\ batch \subseteq 1..lastId
  /\ yielded \in Seq([id : 1..MaxProject, branch_missing : BOOLEAN])
  /\ tree \subseteq Paths
  /\ unlisted \subseteq tree
  /\ blobs \subseteq tree
  /\ links \in BOOLEAN
  /\ at \in Places
  /\ page \in Nat
  /\ DOMAIN fetch \subseteq Paths
  /\ fetch \in [DOMAIN fetch -> FetchStates]
  /\ handed \subseteq Paths
  /\ files \in Seq(Paths)

(* Projects are handled in ascending order, on pages that lie behind.        *)
InOrder ==
  /\ \A i, j \in DOMAIN yielded : i < j => yielded[i].id < yielded[j].id
  /\ \A i \in DOMAIN yielded : yielded[i].id <= lastId
  /\ \A i \in DOMAIN yielded : \A p \in batch : yielded[i].id < p

PagesBehind == page # 0 =>
  /\ \A i \in DOMAIN yielded : UpTo(group, yielded[i].id) <= (page - 1) * PerPage
  /\ \A p \in batch : UpTo(group, p) <= (page - 1) * PerPage

(* A project of the first hour is handled, or on a page that lies ahead.     *)
NewestLast == \A p \in groupBefore : \A q \in group \ groupBefore : p < q

NoneSkipped == groupBefore \subseteq group =>
  \A p \in groupBefore :
    \/ Yields(p)
    \/ p \in batch
    \/ (page # 0 /\ (page - 1) * PerPage <= Below(groupBefore, p))

NoListingYet == at = "tree" => yielded = << >> /\ batch = {} /\ groupBefore = {}

EnumerationInv ==
  /\ ConnectorTypes
  /\ NoListingYet
  /\ at \in {"group", "enumerated"} => refused = {}
  /\ at = "enumerated" => page = 0 /\ batch = {}
  /\ InOrder
  /\ PagesBehind
  /\ NewestLast
  /\ NoneSkipped

(* What is handed over is a first part of the paths, and ends with the       *)
(* first failure.                                                            *)
FetchInv ==
  /\ ConnectorTypes
  /\ handed \subseteq DOMAIN fetch
  /\ at \in Requesting \cup {"enumerated"} => DOMAIN fetch = {}
  /\ \A p \in handed : \A q \in DOMAIN fetch : q < p => q \in handed
  /\ at \in {"fetching", "fetched"} =>
       \A p \in handed : fetch[p] \in {"text", "none"}
  /\ at = "fetched" => handed = DOMAIN fetch
  /\ FilesAre({p \in handed : fetch[p] = "text"})
  /\ at = "joining" =>
       \E p \in handed \cap FailedFetches :
         \A q \in handed \ {p} : q < p /\ fetch[q] \in {"text", "none"}
  /\ at \in Errors /\ DOMAIN fetch # {} =>
       \E p \in FailedFetches : IsFirst(p, FailedFetches) /\ at = fetch[p]

(* Without a failing answer everything listed so far is known.               *)
ContentsInv ==
  /\ FetchInv
  /\ at \in {"tree"} \cup Pooled /\ refused = {} =>
       /\ blobs = BlobPaths(tree \ unlisted)
       /\ (at = "tree" /\ page # 0) \/ unlisted = {}
  /\ at \in Pooled => DOMAIN fetch = Selected(blobs)
  /\ refused = {} =>
       \A p \in DOMAIN fetch :
         /\ fetch[p] = "text" => SortedPaths[p].text
         /\ fetch[p] = "none" => ~SortedPaths[p].text

-----------------------------------------------------------------------------
(* Type correctness.                                                        *)

LEMMA PathsAreNumbers ==
  /\ Len(SortedPaths) \in Nat
  /\ Paths \in SUBSET (0..Len(SortedPaths))
  /\ \A p \in Paths : SortedPaths[p].text \in BOOLEAN
<1> DEFINE Entries == [dir : STRING, base : STRING, text : BOOLEAN]
<1>1. SortedPaths \in Seq(Entries)
  BY ConnectorAssumption DEF ConnectorAssumption
<1>2. \A e \in Entries : e.text \in BOOLEAN
  OBVIOUS
<1>3. /\ Len(SortedPaths) \in Nat
      /\ Paths = 1..Len(SortedPaths)
      /\ \A p \in Paths : SortedPaths[p] \in Entries
  <2> HIDE DEF Entries
  <2> QED BY <1>1 DEF Paths
<1> QED BY <1>2, <1>3

LEMMA FailuresAreRaised ==
  ASSUME NEW status \in Failures
  PROVE  /\ Raised(status) \in {"unauthorized", "server_error"}
         /\ status \in {"unauthorized", "server_error", "not_found"}
  BY ConnectorAssumption DEF ConnectorAssumption, Raised

LEMMA SelectedArePaths ==
  ASSUME NEW entries \in SUBSET Paths
  PROVE  Selected(entries) \in SUBSET entries
  BY DEF Selected, FirstFiles

LEMMA TypesInit ==
  ASSUME ConnectorInit
  PROVE  ConnectorTypes
  BY ConnectorAssumption
  DEF ConnectorInit, ConnectorTypes, ConnectorAssumption, Places, Requesting

LEMMA TypesStep ==
  ASSUME ConnectorTypes, [ConnectorNext]_connectorVars
  PROVE  ConnectorTypes'
<1> USE DEF ConnectorTypes, Places, Requesting, Pooled, Errors, FetchStates,
            listingVars, contentsVars, gitlabVars
<1>1. ASSUME ListProjects PROVE ConnectorTypes'
  <2>1. page' \in Nat
    BY <1>1 DEF ListProjects, NextPage
  <2> QED BY <1>1, <2>1 DEF ListProjects, GroupPage
<1>2. ASSUME ListingFails PROVE ConnectorTypes'
  BY <1>2, FailuresAreRaised DEF ListingFails
<1>3. ASSUME LookUpBranch PROVE ConnectorTypes'
  <2>1. PICK p \in batch, missing \in BOOLEAN :
          /\ batch' = batch \ {p}
          /\ yielded' = Append(yielded, [id |-> p, branch_missing |-> missing])
    BY <1>3 DEF LookUpBranch
  <2>2. p \in 1..MaxProject
    BY ConnectorAssumption DEF ConnectorAssumption
  <2>3. yielded' \in Seq([id : 1..MaxProject, branch_missing : BOOLEAN])
    BY <2>1, <2>2
  <2> QED BY <1>3, <2>1, <2>3 DEF LookUpBranch
<1>4. ASSUME BranchFails PROVE ConnectorTypes'
  BY <1>4, FailuresAreRaised DEF BranchFails
<1>5. ASSUME Enumerated PROVE ConnectorTypes'
  BY <1>5 DEF Enumerated
<1>6. ASSUME CreateProject PROVE ConnectorTypes'
  <2>1. lastId' \in 0..MaxProject
    BY <1>6, ConnectorAssumption DEF CreateProject, ConnectorAssumption
  <2>2. 1..lastId \subseteq 1..lastId' /\ lastId' \in 1..lastId'
    BY <1>6 DEF CreateProject
  <2> QED BY <1>6, <2>1, <2>2 DEF CreateProject
<1>7. ASSUME DeleteProject PROVE ConnectorTypes'
  BY <1>7 DEF DeleteProject
<1>8. ASSUME ListTree PROVE ConnectorTypes'
  <2>1. page' \in Nat
    BY <1>8 DEF ListTree, NextPage
  <2> QED BY <1>8, <2>1 DEF ListTree, BlobPaths
<1>9. ASSUME TreeFails PROVE ConnectorTypes'
  BY <1>9 DEF TreeFails
<1>10. ASSUME SubmitFetches PROVE ConnectorTypes'
  <2>1. Selected(blobs) \subseteq Paths
    BY SelectedArePaths
  <2>2. fetch' = [p \in Selected(blobs) |-> "pending"]
    BY <1>10 DEF SubmitFetches
  <2> QED BY <1>10, <2>1, <2>2 DEF SubmitFetches
<1>11. ASSUME StartFetch PROVE ConnectorTypes'
  BY <1>11 DEF StartFetch
<1>12. ASSUME NEW p \in Paths, FetchBlobText(p) PROVE ConnectorTypes'
  <2>1. PICK state \in FetchStates : fetch' = [fetch EXCEPT ![p] = state]
    BY <1>12, FailuresAreRaised DEF FetchBlobText, FetchReturns, FetchFails
  <2> QED BY <1>12, <2>1 DEF FetchBlobText
<1>13. ASSUME HandOver PROVE ConnectorTypes'
  <2>1. PICK p \in InState("text") \cup InState("none") :
          /\ handed' = handed \cup {p}
          /\ files' = IF fetch[p] = "text" THEN Append(files, p) ELSE files
    BY <1>13 DEF HandOver
  <2>2. p \in DOMAIN fetch /\ p \in Paths
    BY DEF InState
  <2>3. files' \in Seq(Paths)
    BY <2>1, <2>2
  <2> QED BY <1>13, <2>1, <2>2, <2>3 DEF HandOver
<1>14. ASSUME HandOverException PROVE ConnectorTypes'
  BY <1>14 DEF HandOverException, NextResult, IsFirst
<1>15. ASSUME Joined PROVE ConnectorTypes'
  BY <1>15 DEF Joined
<1>16. ASSUME Fetched PROVE ConnectorTypes'
  BY <1>16 DEF Fetched
<1>17. ASSUME UNCHANGED connectorVars PROVE ConnectorTypes'
  BY <1>17 DEF connectorVars
<1> QED
  BY <1>1, <1>2, <1>3, <1>4, <1>5, <1>6, <1>7, <1>8, <1>9, <1>10, <1>11,
     <1>12, <1>13, <1>14, <1>15, <1>16, <1>17 DEF ConnectorNext

-----------------------------------------------------------------------------
(* Enumeration.                                                             *)

LEMMA EnumerationTypes ==
  ASSUME ConnectorTypes
  PROVE  /\ MaxProject \in Nat /\ PerPage \in Nat \ {0}
         /\ group \in SUBSET (0..MaxProject)
         /\ groupBefore \in SUBSET (0..MaxProject)
         /\ \A p \in group : p \in Nat
         /\ \A p \in groupBefore : p \in Nat
         /\ \A p \in batch : p \in Nat
         /\ \A i \in DOMAIN yielded : yielded[i].id \in Nat
<1>1. MaxProject \in Nat /\ PerPage \in Nat \ {0}
  BY ConnectorAssumption DEF ConnectorAssumption
<1>2. 1..lastId \subseteq 0..MaxProject
  BY <1>1 DEF ConnectorTypes
<1>3. ASSUME NEW i \in DOMAIN yielded PROVE yielded[i].id \in Nat
  <2> DEFINE Items == [id : 1..MaxProject, branch_missing : BOOLEAN]
  <2>1. yielded \in Seq(Items)
    BY DEF ConnectorTypes
  <2>2. yielded[i] \in Items
    <3> HIDE DEF Items
    <3> QED BY <2>1
  <2> QED BY <2>2, <1>1
<1> QED BY <1>1, <1>2, <1>3 DEF ConnectorTypes

(* Projects created since the listing began come after all others.           *)
LEMMA BelowIsFixed ==
  ASSUME ConnectorTypes, NewestLast, groupBefore \subseteq group,
         NEW p \in groupBefore
  PROVE  Below(group, p) = Below(groupBefore, p)
<1>1. \A q \in group : q < p => q \in groupBefore
  <2> SUFFICES ASSUME NEW q \in group, q < p, q \notin groupBefore PROVE FALSE
    OBVIOUS
  <2>1. p < q /\ p \in Nat /\ q \in Nat
    BY EnumerationTypes DEF NewestLast
  <2> QED BY <2>1
<1>2. {q \in group : q < p} = {q \in groupBefore : q < p}
  BY <1>1
<1> QED BY <1>2 DEF Below

(* The page after the last handled project: nobody on it was handled, and    *)
(* nobody between the handled ones and the next page is missing from it.     *)
LEMMA PageIsNext ==
  ASSUME EnumerationInv, ListProjects
  PROVE  InOrder' /\ PagesBehind' /\ NoneSkipped'
<1> DEFINE k == (page - 1) * PerPage
<1>1. /\ at = "group" /\ page # 0 /\ batch = {}
      /\ batch' = GroupPage(page)
      /\ page' = NextPage(page, batch', page * PerPage < Cardinality(group))
      /\ UNCHANGED <<group, lastId, links, yielded, groupBefore>>
  BY DEF ListProjects, gitlabVars
<1>2. ConnectorTypes
  BY DEF EnumerationInv
<1>3. page - 1 \in Nat /\ page \in Nat
  BY <1>1, <1>2 DEF ConnectorTypes
<1>4. k \in Nat /\ page * PerPage \in Nat /\ page * PerPage = k + PerPage
  BY <1>2, <1>3, EnumerationTypes
<1>5. page' # 0 => (page' - 1) * PerPage = k + PerPage
  <2>1. page' # 0 => page' = page + 1
    BY <1>1 DEF NextPage
  <2>2. (page + 1) - 1 = page
    BY <1>3
  <2> QED BY <2>1, <2>2, <1>4
<1>6. \A p \in batch' :
        p \in group /\ k <= Below(group, p) /\ Below(group, p) < k + PerPage
  BY <1>1, <1>4 DEF GroupPage
<1>7. \A p \in group : k <= Below(group, p) /\ Below(group, p) < k + PerPage
                         => p \in batch'
  BY <1>1, <1>4 DEF GroupPage
<1>8. ASSUME NEW p \in group
      PROVE  /\ p \in Nat /\ Below(group, p) \in Nat
             /\ UpTo(group, p) = Below(group, p) + 1
             /\ UpTo(group, p) <= Cardinality(group)
             /\ Cardinality(group) \in Nat
  <2>1. p \in Nat
    BY <1>2, EnumerationTypes
  <2> QED BY <2>1, <1>2, EnumerationTypes, Counts
<1>9. ASSUME NEW i \in DOMAIN yielded
      PROVE  /\ yielded[i].id \in Nat /\ UpTo(group, yielded[i].id) \in Nat
             /\ UpTo(group, yielded[i].id) <= k
  <2>1. yielded[i].id \in Nat
    BY <1>2, EnumerationTypes
  <2>2. UpTo(group, yielded[i].id) \in Nat
    BY <2>1, <1>2, EnumerationTypes, Counts
  <2>3. UpTo(group, yielded[i].id) <= k
    BY <1>1 DEF EnumerationInv, PagesBehind
  <2> QED BY <2>1, <2>2, <2>3
<1>10. ASSUME NEW i \in DOMAIN yielded, NEW p \in batch'
       PROVE  yielded[i].id < p
  <2>1. p \in group /\ p \in Nat /\ k < UpTo(group, p) /\ UpTo(group, p) \in Nat
    BY <1>4, <1>6, <1>8
  <2> SUFFICES ASSUME p < yielded[i].id PROVE FALSE
    BY <2>1, <1>4, <1>9
  <2>2. UpTo(group, p) <= Below(group, yielded[i].id)
    BY <2>1, <1>2, <1>9, EnumerationTypes, Monotone
  <2> DEFINE x == yielded[i].id
  <2>3. /\ Below(group, x) \in Nat /\ UpTo(group, x) \in Nat
        /\ UpTo(group, x) \in {Below(group, x), Below(group, x) + 1}
    BY <1>2, <1>9, EnumerationTypes, Counts
  <2> QED BY <2>1, <2>2, <2>3, <1>4, <1>9
<1>11. InOrder'
  BY <1>1, <1>10 DEF EnumerationInv, InOrder
<1>12. PagesBehind'
  <2> SUFFICES ASSUME page' # 0 PROVE PagesBehind'
    BY DEF PagesBehind
  <2>1. ASSUME NEW i \in DOMAIN yielded
        PROVE  UpTo(group, yielded[i].id) <= k + PerPage
    BY <1>2, <1>4, <1>9, EnumerationTypes
  <2>2. ASSUME NEW p \in batch' PROVE UpTo(group, p) <= k + PerPage
    BY <1>2, <1>4, <1>6, <1>8, EnumerationTypes
  <2> QED BY <1>1, <1>5, <2>1, <2>2 DEF PagesBehind
<1>13. NoneSkipped'
  <2> SUFFICES ASSUME groupBefore \subseteq group, NEW p \in groupBefore,
                      ~Yields(p), p \notin batch'
               PROVE  page' # 0 /\ k + PerPage <= Below(groupBefore, p)
    BY <1>1, <1>5 DEF NoneSkipped, Yields
  <2>1. k <= Below(groupBefore, p)
    BY <1>1 DEF EnumerationInv, NoneSkipped
  <2>2. Below(group, p) = Below(groupBefore, p)
    BY <1>2, BelowIsFixed DEF EnumerationInv
  <2>3. k + PerPage <= Below(group, p)
    BY <2>1, <2>2, <1>2, <1>4, <1>7, <1>8, EnumerationTypes
  <2>4. k + PerPage < Cardinality(group) /\ k < Cardinality(group)
    BY <2>3, <1>2, <1>4, <1>8, EnumerationTypes
  <2>5. PICK r \in group : Below(group, r) = k
    BY <2>4, <1>2, <1>4, EnumerationTypes, EveryRank
  <2>6. batch' # {}
    BY <2>5, <1>2, <1>4, <1>7, EnumerationTypes
  <2>7. page' # 0
    BY <2>4, <2>6, <1>1, <1>2, <1>3, <1>4 DEF NextPage, ConnectorTypes
  <2> QED BY <2>2, <2>3, <2>7
<1> QED BY <1>11, <1>12, <1>13

LEMMA YieldedGrows ==
  ASSUME ConnectorTypes, NEW y, yielded' = Append(yielded, y)
  PROVE  /\ Len(yielded) \in Nat
         /\ DOMAIN yielded = 1..Len(yielded)
         /\ DOMAIN yielded' = 1..(Len(yielded) + 1)
         /\ \A i \in DOMAIN yielded : i \in DOMAIN yielded' /\ yielded'[i] = yielded[i]
         /\ yielded'[Len(yielded) + 1] = y
<1> DEFINE Items == [id : 1..MaxProject, branch_missing : BOOLEAN]
<1>1. yielded \in Seq(Items)
  BY DEF ConnectorTypes
<1> HIDE DEF Items
<1> QED BY <1>1

LEMMA EnumerationStep ==
  ASSUME EnumerationInv, [ConnectorNext]_connectorVars
  PROVE  EnumerationInv'
<1>t. ConnectorTypes /\ ConnectorTypes'
  BY TypesStep DEF EnumerationInv
<1> USE DEF gitlabVars, listingVars, contentsVars
(* The steps of the repository's contents leave the listing alone.           *)
<1>0. ASSUME UNCHANGED <<group, lastId, batch, yielded, groupBefore>>,
             at # "tree" => page' = page,
             at' = "tree" => at = "tree",
             at' \in {"group", "enumerated"} => UNCHANGED <<at, refused>>
      PROVE  EnumerationInv'
  <2>1. InOrder' /\ NewestLast'
    BY <1>0 DEF EnumerationInv, InOrder, NewestLast
  <2>2. NoListingYet'
    BY <1>0 DEF EnumerationInv, NoListingYet
  <2>3. PagesBehind' /\ NoneSkipped'
    <3>1. CASE at = "tree"
      BY <3>1, <1>0 DEF EnumerationInv, NoListingYet, PagesBehind, NoneSkipped
    <3>2. CASE at # "tree"
      BY <3>2, <1>0 DEF EnumerationInv, PagesBehind, NoneSkipped, Yields
    <3> QED BY <3>1, <3>2
  <2>4. at' = "enumerated" => page' = 0 /\ batch' = {}
    BY <1>0 DEF EnumerationInv
  <2>5. at' \in {"group", "enumerated"} => refused' = {}
    BY <1>0 DEF EnumerationInv
  <2> QED BY <1>t, <2>1, <2>2, <2>3, <2>4, <2>5 DEF EnumerationInv
<1>1. ASSUME ListProjects PROVE EnumerationInv'
  <2>1. InOrder' /\ PagesBehind' /\ NoneSkipped'
    BY <1>1, PageIsNext
  <2>2. NoListingYet' /\ NewestLast'
    BY <1>1 DEF EnumerationInv, NoListingYet, NewestLast, ListProjects
  <2>3. at' = "group" /\ refused' = {}
    BY <1>1 DEF EnumerationInv, ListProjects
  <2> QED BY <1>t, <2>1, <2>2, <2>3 DEF EnumerationInv
<1>2. ASSUME ListingFails PROVE EnumerationInv'
  <2>1. at' \in Errors /\ at = "group"
    BY <1>2, FailuresAreRaised DEF ListingFails, Errors
  <2> QED BY <1>0, <1>2, <2>1 DEF ListingFails, Errors
<1>3. ASSUME LookUpBranch PROVE EnumerationInv'
  <2>1. PICK p \in batch, missing \in BOOLEAN :
          /\ IsFirst(p, batch)
          /\ batch' = batch \ {p}
          /\ yielded' = Append(yielded, [id |-> p, branch_missing |-> missing])
    BY <1>3 DEF LookUpBranch
  <2>2. /\ at = "group" /\ at' = "group"
        /\ UNCHANGED <<group, lastId, refused, page, groupBefore>>
    BY <1>3 DEF LookUpBranch
  <2> DEFINE n == Len(yielded)
  <2>3. /\ n \in Nat
        /\ DOMAIN yielded = 1..n
        /\ DOMAIN yielded' = 1..(n + 1)
        /\ \A i \in 1..n : yielded'[i] = yielded[i]
        /\ yielded'[n + 1].id = p
    BY <2>1, <1>t, YieldedGrows
  <2> HIDE DEF n
  <2>4. ASSUME NEW i \in DOMAIN yielded'
        PROVE  \/ i \in 1..n /\ yielded'[i].id = yielded[i].id
               \/ i = n + 1 /\ yielded'[i].id = p
    BY <2>3
  <2>5. \A q \in batch' : p < q /\ q \in batch
    <3> SUFFICES ASSUME NEW q \in batch' PROVE p < q /\ q \in batch
      OBVIOUS
    <3>1. q \in batch /\ q # p /\ p <= q /\ p \in Nat /\ q \in Nat
      BY <2>1, <1>t, EnumerationTypes DEF IsFirst
    <3> QED BY <3>1
  <2>6. InOrder'
    <3>1. ASSUME NEW i \in DOMAIN yielded', NEW j \in DOMAIN yielded', i < j
          PROVE  yielded'[i].id < yielded'[j].id
      <4>1. i \in 1..n /\ yielded'[i].id = yielded[i].id
        BY <2>3, <2>4, <3>1
      <4>2. yielded[i].id < p
        BY <4>1, <2>1, <2>3 DEF EnumerationInv, InOrder
      <4>3. j \in 1..n => yielded[i].id < yielded[j].id
        BY <4>1, <2>3, <3>1 DEF EnumerationInv, InOrder
      <4> QED BY <4>1, <4>2, <4>3, <2>4
    <3>2. ASSUME NEW i \in DOMAIN yielded'
          PROVE  yielded'[i].id <= lastId'
      <4>1. p <= lastId
        BY <2>1, <1>t DEF ConnectorTypes
      <4>2. i \in 1..n => yielded[i].id <= lastId
        BY <2>3 DEF EnumerationInv, InOrder
      <4> QED BY <4>1, <4>2, <2>2, <2>4
    <3>3. ASSUME NEW i \in DOMAIN yielded', NEW q \in batch'
          PROVE  yielded'[i].id < q
      <4>1. i \in 1..n => yielded[i].id < q
        BY <2>3, <2>5 DEF EnumerationInv, InOrder
      <4> QED BY <4>1, <2>4, <2>5
    <3> QED BY <3>1, <3>2, <3>3 DEF InOrder
  <2>7. PagesBehind'
    <3> SUFFICES ASSUME page # 0 PROVE PagesBehind'
      BY <2>2 DEF PagesBehind
    <3>1. \A q \in batch : UpTo(group, q) <= (page - 1) * PerPage
      BY DEF EnumerationInv, PagesBehind
    <3>2. \A i \in 1..n : UpTo(group, yielded[i].id) <= (page - 1) * PerPage
      BY <2>3 DEF EnumerationInv, PagesBehind
    <3>3. \A i \in DOMAIN yielded' :
            UpTo(group, yielded'[i].id) <= (page - 1) * PerPage
      BY <2>1, <2>4, <3>1, <3>2
    <3> QED BY <2>2, <2>5, <3>1, <3>3 DEF PagesBehind
  <2>8. NoneSkipped'
    <3>1. \A q : Yields(q) => Yields(q)'
      BY <2>3 DEF Yields
    <3>2. Yields(p)'
      BY <2>3 DEF Yields
    <3>3. \A q \in batch : q = p \/ q \in batch'
      BY <2>1
    <3> SUFFICES ASSUME groupBefore \subseteq group, NEW q \in groupBefore
                 PROVE  \/ Yields(q)'
                        \/ q \in batch'
                        \/ (page # 0 /\ (page - 1) * PerPage <= Below(groupBefore, q))
      BY <2>2 DEF NoneSkipped
    <3> QED BY <3>1, <3>2, <3>3 DEF EnumerationInv, NoneSkipped
  <2>9. NoListingYet' /\ NewestLast'
    BY <2>2 DEF EnumerationInv, NoListingYet, NewestLast
  <2> QED BY <1>t, <2>2, <2>6, <2>7, <2>8, <2>9 DEF EnumerationInv
<1>4. ASSUME BranchFails PROVE EnumerationInv'
  <2>1. at' \in Errors /\ at = "group"
    BY <1>4, FailuresAreRaised DEF BranchFails, Errors
  <2> QED BY <1>0, <1>4, <2>1 DEF BranchFails, Errors
<1>5. ASSUME Enumerated PROVE EnumerationInv'
  BY <1>5, <1>t DEF Enumerated, EnumerationInv, NoListingYet, InOrder,
     PagesBehind, NewestLast, NoneSkipped, Yields
<1>6. ASSUME CreateProject PROVE EnumerationInv'
  <2>1. /\ at = "group" /\ at' = "group" /\ lastId' = lastId + 1
        /\ group' = group \cup {lastId'}
        /\ UNCHANGED <<refused, page, batch, yielded, groupBefore>>
    BY <1>6 DEF CreateProject
  <2>2. lastId \in Nat /\ \A p \in group \cup groupBefore \cup batch : p < lastId'
    BY <1>t, <2>1 DEF ConnectorTypes
  <2>3. \A p \in Nat : p <= lastId => UpTo(group', p) = UpTo(group, p)
    <3> SUFFICES ASSUME NEW p \in Nat, p <= lastId
                 PROVE  UpTo(group', p) = UpTo(group, p)
      OBVIOUS
    <3>1. ~(lastId' <= p)
      BY <2>1, <2>2
    <3>2. {q \in group' : q <= p} = {q \in group : q <= p}
      BY <2>1, <3>1
    <3> QED BY <3>2 DEF UpTo
  <2>4. \A i \in DOMAIN yielded :
          /\ yielded[i].id \in Nat
          /\ yielded[i].id <= lastId
          /\ yielded[i].id <= lastId'
    <3> SUFFICES ASSUME NEW i \in DOMAIN yielded
                 PROVE  /\ yielded[i].id \in Nat
                        /\ yielded[i].id <= lastId
                        /\ yielded[i].id <= lastId'
      OBVIOUS
    <3>1. yielded[i].id \in Nat /\ yielded[i].id <= lastId
      BY <1>t, EnumerationTypes DEF EnumerationInv, InOrder
    <3> QED BY <3>1, <2>1, <2>2
  <2>5. InOrder'
    BY <2>1, <2>4 DEF EnumerationInv, InOrder
  <2>6. PagesBehind'
    <3>1. \A p \in batch : p \in Nat /\ p <= lastId
      BY <1>t DEF ConnectorTypes
    <3> QED BY <2>1, <2>3, <2>4, <3>1 DEF EnumerationInv, PagesBehind
  <2>7. NewestLast'
    BY <2>1, <2>2 DEF EnumerationInv, NewestLast
  <2>8. NoneSkipped'
    <3>1. groupBefore \subseteq group' => groupBefore \subseteq group
      <4>1. lastId' \notin groupBefore
        BY <2>2, <2>1
      <4> QED BY <4>1, <2>1
    <3> QED BY <2>1, <3>1 DEF EnumerationInv, NoneSkipped, Yields
  <2> QED BY <1>t, <2>1, <2>5, <2>6, <2>7, <2>8 DEF EnumerationInv, NoListingYet
<1>7. ASSUME DeleteProject PROVE EnumerationInv'
  <2>1. /\ at = "group" /\ at' = "group" /\ group' \subseteq group
        /\ UNCHANGED <<lastId, refused, page, batch, yielded, groupBefore>>
    BY <1>7 DEF DeleteProject
  <2>2. ASSUME NEW p \in Nat
        PROVE  /\ UpTo(group', p) \in Nat /\ UpTo(group, p) \in Nat
               /\ UpTo(group', p) <= UpTo(group, p)
    <3> DEFINE U == {q \in group : q <= p}
               V == {q \in group' : q <= p}
    <3>1. V \in SUBSET U /\ U \in SUBSET group
      BY <2>1
    <3>2. IsFiniteSet(U)
      BY <3>1, <1>t, EnumerationTypes, Counts, FS_Subset
    <3>3. Cardinality(V) <= Cardinality(U) /\ IsFiniteSet(V)
      <4> HIDE DEF U, V
      <4> QED BY <3>1, <3>2, FS_Subset
    <3>4. Cardinality(V) \in Nat /\ Cardinality(U) \in Nat
      BY <3>2, <3>3, FS_CardinalityType
    <3> QED BY <3>3, <3>4 DEF UpTo
  <2>3. PagesBehind'
    <3> SUFFICES ASSUME page # 0 PROVE PagesBehind'
      BY <2>1 DEF PagesBehind
    <3> DEFINE k == (page - 1) * PerPage
    <3>1. k \in Nat
      <4>1. page - 1 \in Nat
        BY <1>t DEF ConnectorTypes
      <4> QED BY <4>1, <1>t, EnumerationTypes
    <3>2. ASSUME NEW p \in Nat, UpTo(group, p) <= k PROVE UpTo(group', p) <= k
      BY <3>1, <3>2, <2>2
    <3>3. \A p \in batch : p \in Nat /\ UpTo(group, p) <= k
      BY <1>t, EnumerationTypes DEF EnumerationInv, PagesBehind
    <3>4. \A i \in DOMAIN yielded :
            yielded[i].id \in Nat /\ UpTo(group, yielded[i].id) <= k
      BY <1>t, EnumerationTypes DEF EnumerationInv, PagesBehind
    <3> HIDE DEF k
    <3>5. /\ \A p \in batch : UpTo(group', p) <= k
          /\ \A i \in DOMAIN yielded : UpTo(group', yielded[i].id) <= k
      BY <3>2, <3>3, <3>4
    <3> QED BY <2>1, <3>5 DEF PagesBehind, k
  <2>4. InOrder' /\ NewestLast' /\ NoListingYet'
    BY <2>1 DEF EnumerationInv, InOrder, NewestLast, NoListingYet
  <2>5. NoneSkipped'
    BY <2>1 DEF EnumerationInv, NoneSkipped, Yields
  <2> QED BY <1>t, <2>1, <2>3, <2>4, <2>5 DEF EnumerationInv
<1>8. ASSUME ListTree PROVE EnumerationInv'
  BY <1>0, <1>8 DEF ListTree
<1>9. ASSUME TreeFails PROVE EnumerationInv'
  BY <1>0, <1>9 DEF TreeFails
<1>10. ASSUME SubmitFetches PROVE EnumerationInv'
  BY <1>0, <1>10 DEF SubmitFetches
<1>11. ASSUME StartFetch PROVE EnumerationInv'
  BY <1>0, <1>11 DEF StartFetch
<1>12. ASSUME NEW p \in Paths, FetchBlobText(p) PROVE EnumerationInv'
  BY <1>0, <1>12 DEF FetchBlobText
<1>13. ASSUME HandOver PROVE EnumerationInv'
  BY <1>0, <1>13 DEF HandOver
<1>14. ASSUME HandOverException PROVE EnumerationInv'
  BY <1>0, <1>14 DEF HandOverException
<1>15. ASSUME Joined PROVE EnumerationInv'
  BY <1>0, <1>15 DEF Joined
<1>16. ASSUME Fetched PROVE EnumerationInv'
  BY <1>0, <1>16 DEF Fetched
<1>17. ASSUME UNCHANGED connectorVars PROVE EnumerationInv'
  BY <1>0, <1>17 DEF connectorVars
<1> QED
  BY <1>1, <1>2, <1>3, <1>4, <1>5, <1>6, <1>7, <1>8, <1>9, <1>10, <1>11,
     <1>12, <1>13, <1>14, <1>15, <1>16, <1>17 DEF ConnectorNext

LEMMA EnumerationInit ==
  ASSUME ConnectorInit
  PROVE  EnumerationInv
<1>1. ConnectorTypes
  BY TypesInit
<1>2. /\ at \in {"group", "tree"} /\ refused = {} /\ batch = {}
      /\ yielded = << >> /\ groupBefore = group /\ page = 1
      /\ at = "tree" => lastId = 0 /\ group \subseteq 1..lastId
  BY DEF ConnectorInit
<1>3. InOrder /\ PagesBehind /\ NewestLast
  BY <1>2 DEF InOrder, PagesBehind, NewestLast
<1>4. NoListingYet
  <2>1. 1..0 = {}
    OBVIOUS
  <2> QED BY <1>2, <2>1 DEF NoListingYet
<1>5. NoneSkipped
  <2> SUFFICES ASSUME NEW p \in groupBefore
               PROVE  (page - 1) * PerPage <= Below(groupBefore, p)
    BY <1>2 DEF NoneSkipped
  <2>1. p \in Nat /\ Below(groupBefore, p) \in Nat
    BY <1>1, EnumerationTypes, Counts
  <2>2. (page - 1) * PerPage = 0
    BY <1>1, <1>2, EnumerationTypes
  <2> QED BY <2>1, <2>2
<1> QED BY <1>1, <1>2, <1>3, <1>4, <1>5 DEF EnumerationInv

(* enumerate_projects (EnumerationIsComplete): no project is yielded twice,  *)
(* the ids ascend, every project that was in the group when the listing      *)
(* began is yielded unless one of them left meanwhile, and no refusal passes *)
(* for the end of the group.  A page goes by the projects counted from the   *)
(* first one; that nobody is skipped rests on new projects being the last    *)
(* (NewestLast) and on every page but the last one being full (EveryRank).   *)
THEOREM NobodyIsSkipped == ConnectorSpec => []EnumerationIsComplete
<1>1. ConnectorInit => EnumerationInv
  BY EnumerationInit
<1>2. EnumerationInv /\ [ConnectorNext]_connectorVars => EnumerationInv'
  BY EnumerationStep
<1>3. EnumerationInv => EnumerationIsComplete
  BY DEF EnumerationInv, EnumerationIsComplete, InOrder, NoneSkipped
<1> QED BY <1>1, <1>2, <1>3, PTL DEF ConnectorSpec

-----------------------------------------------------------------------------
(* The pool of threads.                                                     *)

LEMMA FetchInit ==
  ASSUME ConnectorInit
  PROVE  FetchInv
  BY TypesInit DEF ConnectorInit, FetchInv, FilesAre, Ascending, Requesting,
     Errors


LEMMA FetchedPaths ==
  ASSUME FetchInv
  PROVE  /\ ConnectorTypes
         /\ \A p \in DOMAIN fetch : p \in Paths /\ p \in Nat
         /\ \A p \in handed : p \in DOMAIN fetch
  BY PathsAreNumbers DEF FetchInv, ConnectorTypes

(* What is waiting or running was not handed over.                           *)
LEMMA HandedAreDone ==
  ASSUME FetchInv, at \in Pooled, NEW p \in handed
  PROVE  fetch[p] \notin {"pending", "running", "cancelled"}
  BY DEF FetchInv, Pooled, FailedFetches, InState

(* Neither an answer of GitLab nor a cancellation changes a result that was  *)
(* handed over.                                                              *)
LEMMA ResultsStay ==
  ASSUME FetchInv, ConnectorTypes', at \in Pooled,
         DOMAIN fetch' = DOMAIN fetch,
         \A p \in DOMAIN fetch :
           fetch[p] \notin {"pending", "running"} => fetch'[p] = fetch[p],
         UNCHANGED <<at, handed, files>>
  PROVE  FetchInv'
<1>1. \A p \in handed : p \in DOMAIN fetch /\ fetch'[p] = fetch[p]
  BY HandedAreDone, FetchedPaths
<1>2. {p \in handed' : fetch'[p] = "text"} = {p \in handed : fetch[p] = "text"}
  BY <1>1
<1>3. FilesAre({p \in handed : fetch[p] = "text"})'
  <2> DEFINE loaded == {p \in handed : fetch[p] = "text"}
  <2>1. FilesAre(loaded)
    BY DEF FetchInv
  <2>2. {files'[i] : i \in DOMAIN files'} = loaded /\ Ascending(files')
    BY <2>1 DEF FilesAre
  <2> QED BY <1>2, <2>2 DEF FilesAre
<1>4. at' = "joining" =>
        \E p \in handed' \cap FailedFetches' :
          \A q \in handed' \ {p} : q < p /\ fetch'[q] \in {"text", "none"}
  <2> SUFFICES ASSUME at = "joining"
               PROVE  \E p \in handed \cap FailedFetches' :
                        \A q \in handed \ {p} : q < p /\ fetch'[q] \in {"text", "none"}
    OBVIOUS
  <2>1. PICK p \in handed \cap FailedFetches :
          \A q \in handed \ {p} : q < p /\ fetch[q] \in {"text", "none"}
    BY DEF FetchInv
  <2>2. p \in FailedFetches'
    BY <1>1 DEF FailedFetches, InState
  <2> QED BY <1>1, <2>1, <2>2
<1> QED BY <1>1, <1>3, <1>4 DEF FetchInv, Pooled, Requesting, Errors

LEMMA FetchStep ==
  ASSUME FetchInv, [ConnectorNext]_connectorVars
  PROVE  FetchInv'
<1>t. ConnectorTypes /\ ConnectorTypes'
  BY TypesStep DEF FetchInv
<1> USE DEF gitlabVars, listingVars, contentsVars
(* The listings come before the pool; a failing one ends with nothing        *)
(* submitted.                                                                *)
<1>0. ASSUME at \in Requesting,
             at' \in Requesting \cup {"enumerated"} \cup Errors,
             UNCHANGED <<fetch, handed, files>>
      PROVE  FetchInv'
  <2>1. DOMAIN fetch = {}
    BY <1>0 DEF FetchInv
  <2>2. FilesAre({p \in handed : fetch[p] = "text"})'
    BY <1>0 DEF FetchInv, FilesAre, Ascending
  <2> QED BY <1>0, <1>t, <2>1, <2>2 DEF FetchInv, Requesting, Errors
<1>1. ASSUME ListProjects PROVE FetchInv'
  BY <1>0, <1>1 DEF ListProjects, Requesting
<1>2. ASSUME ListingFails PROVE FetchInv'
  <2>1. at' \in Errors
    BY <1>2, FailuresAreRaised DEF ListingFails, Errors
  <2> QED BY <1>0, <1>2, <2>1 DEF ListingFails, Requesting
<1>3. ASSUME LookUpBranch PROVE FetchInv'
  BY <1>0, <1>3 DEF LookUpBranch, Requesting
<1>4. ASSUME BranchFails PROVE FetchInv'
  <2>1. at' \in Errors
    BY <1>4, FailuresAreRaised DEF BranchFails, Errors
  <2> QED BY <1>0, <1>4, <2>1 DEF BranchFails, Requesting
<1>5. ASSUME Enumerated PROVE FetchInv'
  BY <1>0, <1>5 DEF Enumerated, Requesting
<1>6. ASSUME CreateProject PROVE FetchInv'
  BY <1>0, <1>6 DEF CreateProject, Requesting
<1>7. ASSUME DeleteProject PROVE FetchInv'
  BY <1>0, <1>7 DEF DeleteProject, Requesting
<1>8. ASSUME ListTree PROVE FetchInv'
  BY <1>0, <1>8 DEF ListTree, Requesting
<1>9. ASSUME TreeFails PROVE FetchInv'
  BY <1>0, <1>9 DEF TreeFails, Requesting
<1>10. ASSUME SubmitFetches PROVE FetchInv'
  <2>1. handed = {} /\ handed' = {} /\ files' = files /\ at' = "fetching"
    BY <1>10 DEF SubmitFetches, FetchInv, Requesting
  <2>2. FilesAre({})'
    <3>1. FilesAre({p \in handed : fetch[p] = "text"})
      BY DEF FetchInv
    <3>2. {p \in handed : fetch[p] = "text"} = {}
      BY <2>1
    <3>3. FilesAre({})
      BY <3>1, <3>2
    <3> QED BY <2>1, <3>3 DEF FilesAre, Ascending
  <2>3. {p \in handed' : fetch'[p] = "text"} = {}
    BY <2>1
  <2>4. FilesAre({p \in handed : fetch[p] = "text"})'
    BY <2>2, <2>3 DEF FilesAre
  <2> QED BY <1>t, <2>1, <2>4 DEF FetchInv, Requesting, Errors
<1>11. ASSUME StartFetch PROVE FetchInv'
  <2>1. PICK p \in InState("pending") : fetch' = [fetch EXCEPT ![p] = "running"]
    BY <1>11 DEF StartFetch, IsFirst
  <2>2. p \in DOMAIN fetch /\ fetch[p] = "pending"
    BY DEF InState
  <2>3. at \in Pooled /\ UNCHANGED <<at, handed, files>>
    BY <1>11 DEF StartFetch, Pooled
  <2> QED BY <1>t, <2>1, <2>2, <2>3, ResultsStay
<1>12. ASSUME NEW p \in Paths, FetchBlobText(p) PROVE FetchInv'
  <2>1. PICK state : fetch' = [fetch EXCEPT ![p] = state]
    BY <1>12 DEF FetchBlobText, FetchReturns, FetchFails
  <2>2. p \in DOMAIN fetch /\ fetch[p] = "running"
    BY <1>12 DEF FetchBlobText, InState
  <2>3. at \in Pooled /\ UNCHANGED <<at, handed, files>>
    BY <1>12 DEF FetchBlobText, Pooled
  <2> QED BY <1>t, <2>1, <2>2, <2>3, ResultsStay
<1>13. ASSUME HandOver PROVE FetchInv'
  <2>1. PICK p \in InState("text") \cup InState("none") :
          /\ NextResult(p)
          /\ handed' = handed \cup {p}
          /\ files' = IF fetch[p] = "text" THEN Append(files, p) ELSE files
    BY <1>13 DEF HandOver
  <2>2. /\ at = "fetching" /\ at' = "fetching"
        /\ UNCHANGED fetch
    BY <1>13 DEF HandOver
  <2>3. p \in DOMAIN fetch \ handed /\ fetch[p] \in {"text", "none"} /\ p \in Nat
    BY <2>1, FetchedPaths DEF NextResult, IsFirst, InState
  <2>4. \A q \in DOMAIN fetch : q < p => q \in handed
    <3> SUFFICES ASSUME NEW q \in DOMAIN fetch, q \notin handed PROVE ~(q < p)
      OBVIOUS
    <3>1. p <= q
      BY <2>1 DEF NextResult, IsFirst
    <3> QED BY <3>1, <2>3, FetchedPaths
  <2>5. \A q \in handed : q < p
    <3> SUFFICES ASSUME NEW q \in handed, ~(q < p) PROVE FALSE
      OBVIOUS
    <3>1. q \in Nat /\ q # p
      BY <2>3, FetchedPaths
    <3>2. p < q
      BY <3>1, <2>3
    <3> QED BY <3>2, <2>3, FetchedPaths DEF FetchInv
  <2>6. \A r \in handed' : \A q \in DOMAIN fetch' : q < r => q \in handed'
    BY <2>1, <2>2, <2>4 DEF FetchInv
  <2>7. FilesAre({q \in handed : fetch[q] = "text"})'
    <3> DEFINE loaded == {q \in handed : fetch[q] = "text"}
               loaded2 == {q \in handed' : fetch'[q] = "text"}
    <3>0. FilesAre(loaded)
      BY DEF FetchInv
    <3>1. CASE fetch[p] = "none"
      <4>1. loaded2 = loaded /\ files' = files
        BY <3>1, <2>1, <2>2
      <4>2. {files'[i] : i \in DOMAIN files'} = loaded2 /\ Ascending(files')
        BY <3>0, <4>1 DEF FilesAre
      <4> QED BY <4>2 DEF FilesAre
    <3>2. CASE fetch[p] = "text"
      <4>1. loaded2 = loaded \cup {p}
        BY <3>2, <2>1, <2>2
      <4> DEFINE n == Len(files)
      <4>2. /\ n \in Nat /\ DOMAIN files = 1..n /\ DOMAIN files' = 1..(n + 1)
            /\ \A i \in 1..n : files'[i] = files[i]
            /\ files'[n + 1] = p
        BY <3>2, <2>1, <1>t DEF ConnectorTypes
      <4>3. \A i \in 1..n : files[i] \in loaded /\ files[i] < p
        BY <3>0, <4>2, <2>5 DEF FilesAre
      <4> HIDE DEF n
      <4>4. {files'[i] : i \in DOMAIN files'} = loaded2
        <5>1. \A i \in 1..(n + 1) : i \in 1..n \/ i = n + 1
          BY <4>2
        <5>2. \A i \in 1..(n + 1) : files'[i] \in loaded2
          BY <5>1, <4>1, <4>2, <4>3
        <5>3. \A q \in loaded2 : \E i \in 1..(n + 1) : files'[i] = q
          <6> SUFFICES ASSUME NEW q \in loaded2
                       PROVE  \E i \in 1..(n + 1) : files'[i] = q
            OBVIOUS
          <6>1. CASE q = p
            <7>1. n + 1 \in 1..(n + 1)
              BY <4>2
            <7> QED BY <6>1, <7>1, <4>2
          <6>2. CASE q \in loaded
            <7>1. PICK i \in 1..n : files[i] = q
              BY <6>2, <3>0, <4>2 DEF FilesAre
            <7>2. i \in 1..(n + 1)
              BY <4>2
            <7> QED BY <7>1, <7>2, <4>2
          <6> QED BY <6>1, <6>2, <4>1
        <5> QED BY <5>2, <5>3, <4>2
      <4>5. Ascending(files')
        <5> SUFFICES ASSUME NEW i \in 1..(n + 1), NEW j \in 1..(n + 1), i < j
                     PROVE  files'[i] < files'[j]
          BY <4>2 DEF Ascending
        <5>1. i \in 1..n
          BY <4>2
        <5>2. CASE j = n + 1
          BY <5>1, <5>2, <4>2, <4>3
        <5>3. CASE j \in 1..n
          BY <5>1, <5>3, <4>2, <3>0 DEF FilesAre, Ascending
        <5> QED BY <5>2, <5>3, <4>2
      <4> QED BY <4>4, <4>5 DEF FilesAre
    <3> QED BY <3>1, <3>2, <2>3
  <2>8. \A q \in handed' : fetch'[q] \in {"text", "none"}
    BY <2>1, <2>2, <2>3 DEF FetchInv
  <2>9. handed' \subseteq DOMAIN fetch'
    BY <2>1, <2>2, <2>3, FetchedPaths
  <2> QED BY <1>t, <2>2, <2>6, <2>7, <2>8, <2>9 DEF FetchInv, Requesting, Errors
<1>14. ASSUME HandOverException PROVE FetchInv'
  <2>1. PICK p \in FailedFetches : NextResult(p) /\ handed' = handed \cup {p}
    BY <1>14 DEF HandOverException, FailedFetches
  <2>2. /\ at = "fetching" /\ at' = "joining" /\ files' = files
        /\ DOMAIN fetch' = DOMAIN fetch
        /\ \A q \in DOMAIN fetch : fetch[q] # "pending" => fetch'[q] = fetch[q]
    BY <1>14 DEF HandOverException
  <2>3. /\ p \in DOMAIN fetch \ handed /\ p \in Nat
        /\ fetch[p] \in {"unauthorized", "server_error"}
    BY <2>1, FetchedPaths DEF NextResult, IsFirst, FailedFetches, InState
  <2>4. \A q \in handed : fetch[q] \in {"text", "none"} /\ fetch'[q] = fetch[q]
    BY <2>2, FetchedPaths DEF FetchInv
  <2>5. \A q \in DOMAIN fetch : q < p => q \in handed
    <3> SUFFICES ASSUME NEW q \in DOMAIN fetch, q \notin handed PROVE ~(q < p)
      OBVIOUS
    <3>1. p <= q
      BY <2>1 DEF NextResult, IsFirst
    <3> QED BY <3>1, <2>3, FetchedPaths
  <2>6. \A q \in handed : q < p
    <3> SUFFICES ASSUME NEW q \in handed, ~(q < p) PROVE FALSE
      OBVIOUS
    <3>1. q \in Nat /\ q # p
      BY <2>3, FetchedPaths
    <3>2. p < q
      BY <3>1, <2>3
    <3> QED BY <3>2, <2>3, FetchedPaths DEF FetchInv
  <2>7. \A r \in handed' : \A q \in DOMAIN fetch' : q < r => q \in handed'
    BY <2>1, <2>2, <2>5 DEF FetchInv
  <2>8. fetch'[p] = fetch[p]
    BY <2>2, <2>3
  <2>9. FilesAre({q \in handed : fetch[q] = "text"})'
    <3>1. {q \in handed' : fetch'[q] = "text"} = {q \in handed : fetch[q] = "text"}
      BY <2>1, <2>3, <2>4, <2>8
    <3>2. FilesAre({q \in handed : fetch[q] = "text"})
      BY DEF FetchInv
    <3> QED BY <2>2, <3>1, <3>2 DEF FilesAre, Ascending
  <2>10. p \in handed' \cap FailedFetches'
    BY <2>1, <2>2, <2>3, <2>8 DEF FailedFetches, InState
  <2>11. \A q \in handed' \ {p} : q < p /\ fetch'[q] \in {"text", "none"}
    BY <2>1, <2>4, <2>6
  <2>12. handed' \subseteq DOMAIN fetch'
    BY <2>1, <2>2, <2>3, FetchedPaths
  <2> QED BY <1>t, <2>2, <2>7, <2>9, <2>10, <2>11, <2>12
          DEF FetchInv, Requesting, Errors
<1>15. ASSUME Joined PROVE FetchInv'
  <2>1. /\ at = "joining"
        /\ UNCHANGED <<fetch, handed, files>>
    BY <1>15 DEF Joined
  <2>2. PICK p \in handed :
          fetch[p] \in {"unauthorized", "server_error"} /\ at' = fetch[p]
    BY <1>15 DEF Joined
  <2>3. PICK r \in handed \cap FailedFetches :
          \A q \in handed \ {r} : q < r /\ fetch[q] \in {"text", "none"}
    BY <2>1 DEF FetchInv
  <2>4. p = r
    BY <2>2, <2>3
  <2>5. IsFirst(p, FailedFetches)
    <3>1. ASSUME NEW q \in FailedFetches PROVE p <= q
      <4>0. q \in DOMAIN fetch /\ q \in Nat /\ p \in Nat
        BY FetchedPaths DEF FailedFetches, InState
      <4>1. CASE q \in handed
        <5>1. q = p
          BY <4>1, <2>3, <2>4 DEF FailedFetches, InState
        <5> QED BY <5>1, <4>0
      <4>2. CASE q \notin handed
        <5>1. ~(q < p)
          BY <4>0, <4>2 DEF FetchInv
        <5> QED BY <5>1, <4>0
      <4> QED BY <4>1, <4>2
    <3> QED BY <3>1, <2>3, <2>4 DEF IsFirst
  <2>6. FailedFetches' = FailedFetches
    BY <2>1 DEF FailedFetches, InState
  <2>7. \E q \in FailedFetches' : IsFirst(q, FailedFetches') /\ at' = fetch'[q]
    BY <2>1, <2>2, <2>3, <2>4, <2>5, <2>6
  <2>8. FilesAre({q \in handed : fetch[q] = "text"})'
    BY <2>1 DEF FetchInv, FilesAre, Ascending
  <2>9. at' \in {"unauthorized", "server_error"}
    BY <2>2
  <2>10. (\E q \in FailedFetches : IsFirst(q, FailedFetches) /\ at = fetch[q])'
    BY <2>6, <2>7 DEF IsFirst
  <2> QED BY <1>t, <2>1, <2>8, <2>9, <2>10 DEF FetchInv, Requesting
<1>16. ASSUME Fetched PROVE FetchInv'
  <2>1. /\ at = "fetching" /\ at' = "fetched" /\ handed = DOMAIN fetch
        /\ UNCHANGED <<fetch, handed, files>>
    BY <1>16 DEF Fetched
  <2>2. FilesAre({q \in handed : fetch[q] = "text"})'
    BY <2>1 DEF FetchInv, FilesAre, Ascending
  <2> QED BY <1>t, <2>1, <2>2 DEF FetchInv, Requesting, Errors
<1>17. ASSUME UNCHANGED connectorVars PROVE FetchInv'
  <2>1. UNCHANGED <<at, fetch, handed, files>>
    BY <1>17 DEF connectorVars
  <2>2. FilesAre({q \in handed : fetch[q] = "text"})'
    BY <2>1 DEF FetchInv, FilesAre, Ascending
  <2>3. FailedFetches' = FailedFetches
    BY <2>1 DEF FailedFetches, InState
  <2> QED BY <1>t, <2>1, <2>2, <2>3 DEF FetchInv, IsFirst
<1> QED
  BY <1>1, <1>2, <1>3, <1>4, <1>5, <1>6, <1>7, <1>8, <1>9, <1>10, <1>11,
     <1>12, <1>13, <1>14, <1>15, <1>16, <1>17 DEF ConnectorNext

(* _fetch_blobs_concurrent (FetchIsSequential): in whatever order the        *)
(* threads of the pool finish, the files handed back are those of the paths  *)
(* whose bodies are texts, in the order of the paths, and a failure ends the *)
(* fetch with the exception of the first path that failed.                   *)
THEOREM PoolIsSequential == ConnectorSpec => []FetchIsSequential
<1>1. ConnectorInit => FetchInv
  BY FetchInit
<1>2. FetchInv /\ [ConnectorNext]_connectorVars => FetchInv'
  BY FetchStep
<1>3. FetchInv => FetchIsSequential
  <2> SUFFICES ASSUME FetchInv PROVE FetchIsSequential
    OBVIOUS
  <2>1. at = "fetched" => FailedFetches = {} /\ FilesAre(InState("text"))
    <3> SUFFICES ASSUME at = "fetched"
                 PROVE  FailedFetches = {} /\ FilesAre(InState("text"))
      OBVIOUS
    <3>1. {p \in handed : fetch[p] = "text"} = InState("text")
      BY DEF FetchInv, InState
    <3> QED BY <3>1 DEF FetchInv, FailedFetches, InState
  <2>2. at \in Errors /\ DOMAIN fetch # {} =>
          \E p \in FailedFetches : IsFirst(p, FailedFetches) /\ at = fetch[p]
    BY DEF FetchInv
  <2> QED BY <2>1, <2>2 DEF FetchIsSequential, FailedFetches
<1> QED BY <1>1, <1>2, <1>3, PTL DEF ConnectorSpec

-----------------------------------------------------------------------------
(* The contents.                                                            *)

LEMMA ContentsInit ==
  ASSUME ConnectorInit
  PROVE  ContentsInv
<1>1. FetchInv
  BY FetchInit
<1>2. /\ at \in {"group", "tree"} /\ blobs = {} /\ unlisted = tree /\ page = 1
      /\ fetch = << >> /\ DOMAIN fetch = {}
  BY DEF ConnectorInit
<1>3. blobs = BlobPaths(tree \ unlisted)
  BY <1>2 DEF BlobPaths
<1> QED BY <1>1, <1>2, <1>3 DEF ContentsInv, Pooled

(* An empty page is the last one.                                            *)
LEMMA LastPage ==
  ASSUME ConnectorTypes, ListTree, page' = 0
  PROVE  unlisted' = {}
<1>1. PICK items \in SUBSET unlisted :
        /\ FirstItems(items)
        /\ unlisted' = unlisted \ items
        /\ page' = NextPage(page, items, unlisted' # {})
  BY DEF ListTree
<1>2. page \in Nat /\ page + 1 # 0
  BY DEF ConnectorTypes
<1>3. CASE links
  BY <1>1, <1>2, <1>3 DEF NextPage
<1>4. CASE ~links
  <2>1. items = {}
    BY <1>1, <1>2, <1>4 DEF NextPage
  <2>2. Cardinality({}) = 0 /\ PerPage # 0
    BY FS_EmptySet, ConnectorAssumption DEF ConnectorAssumption
  <2> QED BY <1>1, <2>1, <2>2 DEF FirstItems
<1> QED BY <1>3, <1>4

LEMMA ContentsStep ==
  ASSUME ContentsInv, [ConnectorNext]_connectorVars
  PROVE  ContentsInv'
<1>t. ConnectorTypes /\ FetchInv /\ FetchInv'
  BY FetchStep DEF ContentsInv, FetchInv
<1> USE DEF gitlabVars, listingVars, contentsVars
(* Once the tree is left.                                                    *)
<1>0. ASSUME UNCHANGED fetch, refused' = {} => refused = {},
             at' \notin {"tree"} \cup Pooled
      PROVE  ContentsInv'
  BY <1>0, <1>t DEF ContentsInv
(* While the pool is at work.                                                *)
<1>a. ASSUME at \in Pooled, at' \in Pooled, UNCHANGED <<tree, unlisted, blobs>>,
             DOMAIN fetch' = DOMAIN fetch, refused' = {} => refused = {},
             refused' = {} =>
               \A p \in DOMAIN fetch :
                 \/ fetch'[p] = fetch[p]
                 \/ fetch'[p] \notin {"text", "none"}
                 \/ fetch'[p] = IF SortedPaths[p].text THEN "text" ELSE "none"
      PROVE  ContentsInv'
  <2>1. at # "tree" /\ at' # "tree"
    BY <1>a DEF Pooled
  <2>2. refused' = {} =>
          \A p \in DOMAIN fetch' :
            /\ fetch'[p] = "text" => SortedPaths[p].text
            /\ fetch'[p] = "none" => ~SortedPaths[p].text
    <3> SUFFICES ASSUME refused' = {}, NEW p \in DOMAIN fetch
                 PROVE  /\ fetch'[p] = "text" => SortedPaths[p].text
                        /\ fetch'[p] = "none" => ~SortedPaths[p].text
      BY <1>a
    <3>1. /\ fetch[p] = "text" => SortedPaths[p].text
          /\ fetch[p] = "none" => ~SortedPaths[p].text
      BY <1>a DEF ContentsInv
    <3> QED BY <3>1, <1>a
  <2>3. DOMAIN fetch' = Selected(blobs)
    BY <1>a DEF ContentsInv
  <2>4. refused' = {} => blobs' = BlobPaths(tree' \ unlisted') /\ unlisted' = {}
    BY <1>a, <2>1 DEF ContentsInv
  <2> QED BY <1>t, <1>a, <2>1, <2>2, <2>3, <2>4 DEF ContentsInv
<1>1. ASSUME ListProjects PROVE ContentsInv'
  BY <1>0, <1>1 DEF ListProjects, Pooled
<1>2. ASSUME ListingFails PROVE ContentsInv'
  <2>1. at' \in Errors /\ refused' # {}
    BY <1>2, FailuresAreRaised DEF ListingFails, Errors, Refused
  <2> QED BY <1>0, <1>2, <2>1 DEF ListingFails, Errors, Pooled
<1>3. ASSUME LookUpBranch PROVE ContentsInv'
  BY <1>0, <1>3 DEF LookUpBranch, Pooled
<1>4. ASSUME BranchFails PROVE ContentsInv'
  <2>1. at' \in Errors /\ refused' # {}
    BY <1>4, FailuresAreRaised DEF BranchFails, Errors, Refused
  <2> QED BY <1>0, <1>4, <2>1 DEF BranchFails, Errors, Pooled
<1>5. ASSUME Enumerated PROVE ContentsInv'
  BY <1>0, <1>5 DEF Enumerated, Pooled
<1>6. ASSUME CreateProject PROVE ContentsInv'
  BY <1>0, <1>6 DEF CreateProject, Pooled
<1>7. ASSUME DeleteProject PROVE ContentsInv'
  BY <1>0, <1>7 DEF DeleteProject, Pooled
<1>8. ASSUME ListTree PROVE ContentsInv'
  <2>1. PICK items \in SUBSET unlisted :
          /\ blobs' = blobs \cup BlobPaths(items)
          /\ unlisted' = unlisted \ items
    BY <1>8 DEF ListTree
  <2>2. at = "tree" /\ at' = "tree" /\ UNCHANGED <<tree, fetch, refused>>
    BY <1>8 DEF ListTree
  <2>3. BlobPaths(tree \ unlisted) \cup BlobPaths(items)
          = BlobPaths(tree \ unlisted')
    BY <2>1, <1>t DEF ConnectorTypes, BlobPaths
  <2>4. page' # 0 \/ unlisted' = {}
    BY <1>8, <1>t, LastPage
  <2> QED BY <1>t, <2>1, <2>2, <2>3, <2>4 DEF ContentsInv, Pooled
<1>9. ASSUME TreeFails PROVE ContentsInv'
  <2>1. refused' # {} /\ at' = "tree"
    BY <1>9 DEF TreeFails, Refused
  <2> QED BY <1>t, <2>1 DEF ContentsInv, Pooled
<1>10. ASSUME SubmitFetches PROVE ContentsInv'
  <2>1. /\ at = "tree" /\ page = 0 /\ at' = "fetching"
        /\ DOMAIN fetch' = Selected(blobs)
        /\ \A p \in DOMAIN fetch' : fetch'[p] = "pending"
        /\ UNCHANGED <<tree, unlisted, blobs, refused>>
    BY <1>10 DEF SubmitFetches
  <2>2. refused' = {} => blobs' = BlobPaths(tree' \ unlisted') /\ unlisted' = {}
    BY <2>1 DEF ContentsInv
  <2>3. DOMAIN fetch' = Selected(blobs')
    BY <2>1
  <2> QED BY <1>t, <2>1, <2>2, <2>3 DEF ContentsInv
<1>11. ASSUME StartFetch PROVE ContentsInv'
  <2>1. \A p \in DOMAIN fetch : fetch'[p] \in {fetch[p], "running"}
    BY <1>11, <1>t DEF StartFetch, ConnectorTypes
  <2> QED BY <1>11, <1>a, <1>t, <2>1 DEF StartFetch, Pooled, ConnectorTypes
<1>12. ASSUME NEW p \in Paths, FetchBlobText(p) PROVE ContentsInv'
  <2>1. at \in Pooled /\ UNCHANGED <<at, tree, unlisted, blobs>>
    BY <1>12 DEF FetchBlobText, Pooled
  <2>2. CASE FetchReturns(p)
    <3>1. /\ DOMAIN fetch' = DOMAIN fetch /\ refused' = refused
          /\ \A q \in DOMAIN fetch :
               \/ fetch'[q] = fetch[q]
               \/ fetch'[q] = IF SortedPaths[q].text THEN "text" ELSE "none"
      BY <2>2, <1>t DEF FetchReturns, ConnectorTypes
    <3> QED BY <1>a, <2>1, <3>1
  <2>3. CASE FetchFails(p)
    <3>1. DOMAIN fetch' = DOMAIN fetch /\ refused' # {}
      BY <2>3, <1>t DEF FetchFails, Refused, ConnectorTypes
    <3> QED BY <1>a, <2>1, <3>1
  <2> QED BY <1>12, <2>2, <2>3 DEF FetchBlobText
<1>13. ASSUME HandOver PROVE ContentsInv'
  BY <1>a, <1>13 DEF HandOver, Pooled
<1>14. ASSUME HandOverException PROVE ContentsInv'
  BY <1>a, <1>14 DEF HandOverException, Pooled
<1>15. ASSUME Joined PROVE ContentsInv'
  <2>1. at' \in {"unauthorized", "server_error"}
    BY <1>15 DEF Joined
  <2> QED BY <1>0, <1>15, <2>1 DEF Joined, Pooled
<1>16. ASSUME Fetched PROVE ContentsInv'
  BY <1>a, <1>16 DEF Fetched, Pooled
<1>17. ASSUME UNCHANGED connectorVars PROVE ContentsInv'
  BY <1>17, <1>t DEF connectorVars, ContentsInv
<1> QED
  BY <1>1, <1>2, <1>3, <1>4, <1>5, <1>6, <1>7, <1>8, <1>9, <1>10, <1>11,
     <1>12, <1>13, <1>14, <1>15, <1>16, <1>17 DEF ConnectorNext

(* fetch_repository_contents (ContentsAreExact): without a failing answer    *)
(* the files are the first MAX_ANALYZABLE_FILES admitted paths of the commit *)
(* whose bodies are small texts, in sort order, however GitLab orders and    *)
(* pages the tree and whatever the pool does.                                *)
THEOREM ContentsAreThoseOfTheCommit == ConnectorSpec => []ContentsAreExact
<1>1. ConnectorInit => ContentsInv
  BY ContentsInit
<1>2. ContentsInv /\ [ConnectorNext]_connectorVars => ContentsInv'
  BY ContentsStep
<1>3. ContentsInv => ContentsAreExact
  <2> SUFFICES ASSUME ContentsInv, at = "fetched", refused = {}
               PROVE  ContentsAreExact
    BY DEF ContentsAreExact
  <2> DEFINE entries == BlobPaths(tree)
             admitted == {p \in entries : Admit(entries, p)}
             count == Cardinality(admitted)
             kept == {p \in admitted : Below(admitted, p) < MaxFiles}
  <2>1. unlisted = {} /\ blobs = entries /\ DOMAIN fetch = Selected(entries)
    <3>1. tree \ {} = tree
      OBVIOUS
    <3> QED BY <3>1 DEF ContentsInv, Pooled
  <2>2. kept = DOMAIN fetch
    BY <2>1 DEF Selected, FirstFiles
  <2>3. /\ \A p \in kept : fetch[p] \in {"text", "none"}
        /\ handed = kept
        /\ FilesAre({p \in handed : fetch[p] = "text"})
    BY <2>2 DEF ContentsInv, FetchInv
  <2>4. FilesAre({p \in kept : SortedPaths[p].text})
    <3>1. \A p \in kept : fetch[p] = "text" <=> SortedPaths[p].text
      BY <2>2, <2>3 DEF ContentsInv
    <3>2. {p \in handed : fetch[p] = "text"} = {p \in kept : SortedPaths[p].text}
      BY <2>3, <3>1
    <3> QED BY <2>3, <3>2
  <2>5. admitted \in SUBSET (0..Len(SortedPaths)) /\ Len(SortedPaths) \in Nat
    BY PathsAreNumbers DEF ContentsInv, FetchInv, ConnectorTypes, BlobPaths
  <2>6. MaxFiles \in Nat
    BY ConnectorAssumption DEF ConnectorAssumption
  <2> HIDE DEF admitted
  <2>7. /\ Cardinality(kept) = IF count > MaxFiles THEN MaxFiles ELSE count
        /\ \A p \in kept : \A q \in admitted \ kept : p < q
    BY <2>5, <2>6, FirstOnes
  <2>8. kept \in SUBSET admitted
    OBVIOUS
  <2> HIDE DEF kept
  <2>9. \E k \in SUBSET admitted :
          /\ Cardinality(k) = IF count > MaxFiles THEN MaxFiles ELSE count
          /\ \A p \in k, q \in admitted \ k : p < q
          /\ FilesAre({p \in k : SortedPaths[p].text})
    <3> WITNESS kept \in SUBSET admitted
    <3> QED BY <2>4, <2>7
  <2> QED BY <2>9 DEF ContentsAreExact, admitted
<1> QED BY <1>1, <1>2, <1>3, PTL DEF ConnectorSpec

-----------------------------------------------------------------------------
(* The ProjectAnalyzer.                                                     *)

Sections == {"purpose", "abstract_io", "external_services", "database_tables"}

Stages == Sections \cup {"parse", "raised", "assembly", "done"}

Entries == [section : Sections, path : Nat]

(* The sections that analyze is through with.                                *)
Handled(stage) ==
  CASE stage = "abstract_io" -> {"purpose"}
    [] stage = "external_services" -> {"purpose", "abstract_io"}
    [] stage = "database_tables" ->
         {"purpose", "abstract_io", "external_services"}
    [] stage \in {"assembly", "done"} -> Sections
    [] OTHER -> {}

BodiesFit ==
  \A p \in DOMAIN RepoPaths :
    /\ contents[p] = "unparsable" => RepoPaths[p] \in GoKinds
    /\ contents[p] = "deep" => RepoPaths[p] = "main"
    /\ contents[p] = "plain" => RepoPaths[p] \in {"readme", "gomod"}

AnalyzerTypes ==
  /\ contents \in [DOMAIN RepoPaths -> Bodies]
  /\ BodiesFit
  /\ description \in BOOLEAN
  /\ doing \in Stages
  /\ unparsed \subseteq DOMAIN RepoPaths
  /\ recognized \subseteq DOMAIN RepoPaths
  /\ results = [s \in Sections \ {"purpose"} |-> results[s]]
  /\ degraded \in Seq(Entries)
  /\ broken \subseteq Handled(doing)

(* What parse_repo leaves is what the sections read.                         *)
ParsedOnce == doing \notin {"parse", "raised"} =>
  /\ unparsed = {p \in RepoFiles : contents[p] = "unparsable"}
  /\ recognized = {p \in RepoFiles : IsKind(p, GoKinds \cup {"gomod"})
                                       /\ contents[p] = "rich"}
  /\ \A p \in RepoFiles : contents[p] # "deep"

(* A section behind has either raised, and has nothing, or has its results.  *)
SectionsBehind ==
  /\ "purpose" \in broken => purpose = "unknown"
  /\ "purpose" \in Handled(doing) \ broken => purpose = SummarySource
  /\ \A s \in Sections \ {"purpose"} :
       results[s] = IF s \in Handled(doing) \ broken THEN SectionFinds(s)
                    ELSE {}

(* Of a sequence of entries: whether s is named in it, and the paths that it *)
(* says s skipped.                                                           *)
NamedIn(d, s) == \E i \in DOMAIN d : d[i] = Failed(s)

SkipsOf(d, s) == {i \in DOMAIN d : d[i].section = s /\ d[i].path # 0}

PathsOf(d, s) == {d[i].path : i \in SkipsOf(d, s)}

Distinct(d) == \A i, j \in DOMAIN d : i < j => d[i] # d[j]

Rising(d) ==
  \A i, j \in DOMAIN d :
    (i < j /\ d[i].section = d[j].section /\ d[i].path # 0 /\ d[j].path # 0)
      => d[i].path < d[j].path

ReadBy(s) == {p \in unparsed : s = "purpose" => IsKind(p, {"main"})}

EntriesBehind ==
  /\ \A i \in DOMAIN degraded : degraded[i].section \in Handled(doing)
  /\ Distinct(degraded)
  /\ Rising(degraded)
  /\ \A s \in Handled(doing) :
       /\ s \in broken <=> NamedIn(degraded, s)
       /\ s \notin broken => PathsOf(degraded, s) = ReadBy(s)

AnalyzerInv ==
  /\ AnalyzerTypes
  /\ ParsedOnce
  /\ SectionsBehind
  /\ EntriesBehind

-----------------------------------------------------------------------------
LEMMA SectionsAreNamed ==
  /\ Range(SectionNames) = Sections
  /\ DOMAIN SectionNames = 1..4
  /\ \A i, j \in 1..4 : i # j => SectionNames[i] # SectionNames[j]
  /\ \A s \in Sections : \E i \in 1..4 : SectionNames[i] = s
<1>1. DOMAIN SectionNames = 1..4
  BY DEF SectionNames
<1>2. /\ SectionNames[1] = "purpose"
      /\ SectionNames[2] = "abstract_io"
      /\ SectionNames[3] = "external_services"
      /\ SectionNames[4] = "database_tables"
  BY DEF SectionNames
<1>3. \A i \in 1..4 : i = 1 \/ i = 2 \/ i = 3 \/ i = 4
  OBVIOUS
<1>4. \A s \in Sections : \E i \in 1..4 : SectionNames[i] = s
  BY <1>2 DEF Sections
<1>5. \A i \in 1..4 : SectionNames[i] \in Sections
  BY <1>2, <1>3 DEF Sections
<1>6. \A i, j \in 1..4 : i # j => SectionNames[i] # SectionNames[j]
  BY <1>2, <1>3
<1> QED BY <1>1, <1>4, <1>5, <1>6 DEF Range

LEMMA NextIsBehind ==
  \A s \in Sections :
    /\ NextSection(s) \in Stages \ {"parse", "raised", "done"}
    /\ s \notin Handled(s)
    /\ Handled(NextSection(s)) = Handled(s) \cup {s}
<1> SUFFICES ASSUME NEW s \in Sections
    PROVE  /\ NextSection(s) \in Stages \ {"parse", "raised", "done"}
           /\ s \notin Handled(s)
           /\ Handled(NextSection(s)) = Handled(s) \cup {s}
  OBVIOUS
<1>1. CASE s = "purpose"
  BY <1>1 DEF NextSection, Handled, Stages, Sections
<1>2. CASE s = "abstract_io"
  BY <1>2 DEF NextSection, Handled, Stages, Sections
<1>3. CASE s = "external_services"
  BY <1>3 DEF NextSection, Handled, Stages, Sections
<1>4. CASE s = "database_tables"
  BY <1>4 DEF NextSection, Handled, Stages, Sections
<1> QED BY <1>1, <1>2, <1>3, <1>4 DEF Sections

LEMMA HandledAreNames == \A stage : Handled(stage) \subseteq Sections
BY DEF Handled, Sections

-----------------------------------------------------------------------------
(* Entries.                                                                 *)

(* A lemma on appending entries that repeat none and that name no skipped    *)
(* path of a section that has skipped paths.                                 *)
LEMMA EntriesAppended ==
  ASSUME NEW d \in Seq(Entries), NEW e \in Seq(Entries),
         Distinct(d), Rising(d), Distinct(e), Rising(e),
         \A i \in DOMAIN d, j \in DOMAIN e :
           /\ d[i] # e[j]
           /\ d[i].section = e[j].section => e[j].path = 0
  PROVE  /\ d \o e \in Seq(Entries)
         /\ Distinct(d \o e) /\ Rising(d \o e)
         /\ \A i \in DOMAIN (d \o e) :
              \/ \E j \in DOMAIN d : (d \o e)[i] = d[j]
              \/ \E j \in DOMAIN e : (d \o e)[i] = e[j]
         /\ \A s : NamedIn(d \o e, s) <=> NamedIn(d, s) \/ NamedIn(e, s)
         /\ \A s : PathsOf(d \o e, s) = PathsOf(d, s) \cup PathsOf(e, s)
<1> DEFINE c == d \o e
<1>1. /\ d \o e \in Seq(Entries)
      /\ Len(d) \in Nat /\ Len(e) \in Nat
      /\ DOMAIN d = 1..Len(d) /\ DOMAIN e = 1..Len(e)
      /\ DOMAIN c = 1..(Len(d) + Len(e))
      /\ \A i \in 1..(Len(d) + Len(e)) :
           c[i] = IF i <= Len(d) THEN d[i] ELSE e[i - Len(d)]
  <2> HIDE DEF Entries
  <2> QED OBVIOUS
<1> HIDE DEF c
<1>2. \A i \in DOMAIN c :
        \/ i \in DOMAIN d /\ c[i] = d[i]
        \/ i - Len(d) \in DOMAIN e /\ c[i] = e[i - Len(d)] /\ i > Len(d)
  BY <1>1
<1>3. \A j \in DOMAIN d : j \in DOMAIN c /\ c[j] = d[j]
  BY <1>1
<1>4. \A j \in DOMAIN e : j + Len(d) \in DOMAIN c /\ c[j + Len(d)] = e[j]
  <2> TAKE j \in DOMAIN e
  <2>1. j + Len(d) \in 1..(Len(d) + Len(e)) /\ ~(j + Len(d) <= Len(d))
    BY <1>1
  <2>2. j + Len(d) - Len(d) = j
    BY <1>1
  <2> QED BY <1>1, <2>1, <2>2
<1>5. ASSUME NEW i \in DOMAIN c, NEW j \in DOMAIN c, i < j
      PROVE  /\ c[i] # c[j]
             /\ (c[i].section = c[j].section /\ c[i].path # 0 /\ c[j].path # 0)
                  => c[i].path < c[j].path
  <2>0. i \in Nat /\ j \in Nat
    BY <1>1
  <2>1. CASE i \in DOMAIN d /\ c[i] = d[i] /\ j \in DOMAIN d /\ c[j] = d[j]
    BY <1>5, <2>1 DEF Distinct, Rising
  <2>2. CASE /\ i \in DOMAIN d /\ c[i] = d[i]
             /\ j - Len(d) \in DOMAIN e /\ c[j] = e[j - Len(d)]
    BY <2>2
  <2>3. CASE /\ i - Len(d) \in DOMAIN e /\ c[i] = e[i - Len(d)]
             /\ j - Len(d) \in DOMAIN e /\ c[j] = e[j - Len(d)]
    <3>1. i - Len(d) < j - Len(d)
      BY <1>1, <1>5, <2>0
    <3> QED BY <2>3, <3>1 DEF Distinct, Rising
  <2>4. ~(i > Len(d) /\ j \in DOMAIN d)
    BY <1>1, <1>5, <2>0
  <2> QED BY <1>2, <2>1, <2>2, <2>3, <2>4
<1>6. ASSUME NEW s
      PROVE  NamedIn(c, s) <=> NamedIn(d, s) \/ NamedIn(e, s)
  BY <1>2, <1>3, <1>4 DEF NamedIn
<1>7. ASSUME NEW s
      PROVE  PathsOf(c, s) = PathsOf(d, s) \cup PathsOf(e, s)
  <2>1. PathsOf(c, s) \subseteq PathsOf(d, s) \cup PathsOf(e, s)
    BY <1>2 DEF PathsOf, SkipsOf
  <2>2. PathsOf(d, s) \subseteq PathsOf(c, s)
    BY <1>3 DEF PathsOf, SkipsOf
  <2>3. PathsOf(e, s) \subseteq PathsOf(c, s)
    <3> SUFFICES ASSUME NEW j \in SkipsOf(e, s)
        PROVE  e[j].path \in PathsOf(c, s)
      BY DEF PathsOf
    <3>1. j + Len(d) \in SkipsOf(c, s) /\ c[j + Len(d)] = e[j]
      BY <1>4 DEF SkipsOf
    <3> QED BY <3>1 DEF PathsOf
  <2> QED BY <2>1, <2>2, <2>3
<1>8. Distinct(c) /\ Rising(c)
  BY <1>5 DEF Distinct, Rising
<1>9. \A i \in DOMAIN c : \/ \E j \in DOMAIN d : c[i] = d[j]
                          \/ \E j \in DOMAIN e : c[i] = e[j]
  BY <1>2
<1> QED BY <1>1, <1>6, <1>7, <1>8, <1>9 DEF c

LEMMA RepoPathsAreNumbers ==
  Len(RepoPaths) \in Nat /\ DOMAIN RepoPaths = 1..Len(RepoPaths)
<1>1. RepoPaths \in Seq(FileKinds)
  BY RepoAssumption DEF RepoAssumption
<1> HIDE DEF FileKinds
<1> QED BY <1>1

LEMMA SkipsAreEntries ==
  ASSUME unparsed \subseteq DOMAIN RepoPaths,
         NEW s \in Sections, NEW paths,
         NEW e, e = SkipEntries(s, paths)
  PROVE  /\ e \in Seq(Entries)
         /\ \A i \in DOMAIN e : e[i].section = s /\ e[i].path # 0
         /\ Distinct(e) /\ Rising(e)
         /\ PathsOf(e, s) = paths \cap unparsed
         /\ \A t : ~NamedIn(e, t)
<1> DEFINE S == paths \cap unparsed
<1>1. S \in SUBSET (0..Len(RepoPaths)) /\ Len(RepoPaths) \in Nat /\ 0 \notin S
  BY RepoPathsAreNumbers
<1>2. \A p \in S : p \in Nat /\ p # 0
  BY <1>1
<1>3. /\ Cardinality(S) \in Nat
      /\ \A i \in 1..Cardinality(S) : Nth(S, i) \in S
      /\ \A i, j \in 1..Cardinality(S) : i < j => Nth(S, i) < Nth(S, j)
      /\ \A p \in S : \E i \in 1..Cardinality(S) : Nth(S, i) = p
  <2> HIDE DEF S
  <2> QED BY <1>1, Ranks
<1>4. e = [i \in 1..Cardinality(S) |-> [section |-> s, path |-> Nth(S, i)]]
  BY DEF SkipEntries
<1> HIDE DEF S
<1>5. /\ DOMAIN e = 1..Cardinality(S)
      /\ \A i \in DOMAIN e : e[i] = [section |-> s, path |-> Nth(S, i)]
  BY <1>4
<1>6. \A i \in DOMAIN e : e[i] \in Entries
  BY <1>2, <1>3, <1>5 DEF Entries
<1>7. e \in Seq(Entries)
  <2> HIDE DEF Entries
  <2> QED BY <1>3, <1>4, <1>5, <1>6
<1>8. \A i \in DOMAIN e :
        e[i].section = s /\ e[i].path = Nth(S, i) /\ e[i].path # 0
  BY <1>2, <1>3, <1>5
<1>9. \A i, j \in DOMAIN e : i < j => e[i].path < e[j].path
  BY <1>3, <1>5, <1>8
<1>10. Distinct(e)
  <2> SUFFICES ASSUME NEW i \in DOMAIN e, NEW j \in DOMAIN e, i < j,
                      e[i] = e[j]
      PROVE  FALSE
    BY DEF Distinct
  <2>1. e[i].path < e[j].path /\ e[i].path \in Nat
    BY <1>2, <1>3, <1>5, <1>8, <1>9
  <2> QED BY <2>1
<1>11. Rising(e)
  BY <1>9 DEF Rising
<1>12. PathsOf(e, s) = S
  <2>1. SkipsOf(e, s) = DOMAIN e
    BY <1>8 DEF SkipsOf
  <2>2. PathsOf(e, s) \subseteq S
    BY <2>1, <1>3, <1>5, <1>8 DEF PathsOf
  <2>3. ASSUME NEW p \in S PROVE p \in PathsOf(e, s)
    <3>1. PICK i \in DOMAIN e : Nth(S, i) = p
      BY <1>3, <1>5
    <3> QED BY <3>1, <2>1, <1>8 DEF PathsOf
  <2> QED BY <2>2, <2>3
<1>13. ASSUME NEW t PROVE ~NamedIn(e, t)
  <2> SUFFICES ASSUME NEW i \in DOMAIN e, e[i] = Failed(t) PROVE FALSE
    BY DEF NamedIn
  <2>1. e[i].path = 0
    BY DEF Failed
  <2> QED BY <2>1, <1>8
<1> QED BY <1>7, <1>8, <1>10, <1>11, <1>12, <1>13 DEF S

LEMMA AllAreNamed ==
  ASSUME NEW e, e = AllSections
  PROVE  /\ e \in Seq(Entries)
         /\ \A i \in DOMAIN e : e[i].section \in Sections /\ e[i].path = 0
         /\ Distinct(e) /\ Rising(e)
         /\ \A i \in DOMAIN degraded : \A j \in DOMAIN e : degraded[i] # e[j]
         /\ \A s \in Sections : NamedIn(degraded, s) \/ NamedIn(e, s)
<1> DEFINE New == {n \in DOMAIN SectionNames : ~Reported(SectionNames[n])}
<1>1. New \in SUBSET (0..4) /\ 4 \in Nat
  BY SectionsAreNamed
<1>2. /\ Cardinality(New) \in Nat
      /\ \A i \in 1..Cardinality(New) : Nth(New, i) \in New
      /\ \A i, j \in 1..Cardinality(New) : i < j => Nth(New, i) < Nth(New, j)
      /\ \A p \in New : \E i \in 1..Cardinality(New) : Nth(New, i) = p
  <2> HIDE DEF New
  <2> QED BY <1>1, Ranks
<1>3. e = [i \in 1..Cardinality(New) |-> Failed(SectionNames[Nth(New, i)])]
  BY DEF AllSections
<1>4. \A n \in New : /\ n \in 1..4
                     /\ ~Reported(SectionNames[n])
                     /\ SectionNames[n] \in Sections
  BY SectionsAreNamed DEF Range
<1>5. \A n \in 1..4 : ~Reported(SectionNames[n]) => n \in New
  BY SectionsAreNamed
<1> HIDE DEF New
<1>6. /\ DOMAIN e = 1..Cardinality(New)
      /\ \A i \in DOMAIN e : e[i] = Failed(SectionNames[Nth(New, i)])
  BY <1>3
<1>7. \A i \in DOMAIN e : /\ e[i] \in Entries
                          /\ e[i].section = SectionNames[Nth(New, i)]
                          /\ e[i].section \in Sections
                          /\ e[i].path = 0
  BY <1>2, <1>4, <1>6 DEF Entries, Failed
<1>8. e \in Seq(Entries)
  <2> HIDE DEF Entries
  <2> QED BY <1>2, <1>3, <1>6, <1>7
<1>9. Distinct(e)
  <2> SUFFICES ASSUME NEW i \in DOMAIN e, NEW j \in DOMAIN e, i < j,
                      e[i] = e[j]
      PROVE  FALSE
    BY DEF Distinct
  <2>1. Nth(New, i) \in 1..4 /\ Nth(New, j) \in 1..4
    BY <1>2, <1>4, <1>6
  <2>2. Nth(New, i) < Nth(New, j)
    BY <1>2, <1>6
  <2>3. Nth(New, i) # Nth(New, j)
    BY <2>1, <2>2
  <2>4. SectionNames[Nth(New, i)] # SectionNames[Nth(New, j)]
    BY <2>1, <2>3, SectionsAreNamed
  <2> QED BY <2>4, <1>7
<1>10. Rising(e)
  BY <1>7 DEF Rising
<1>11. ASSUME NEW i \in DOMAIN degraded, NEW j \in DOMAIN e
       PROVE  degraded[i] # e[j]
  BY <1>2, <1>4, <1>6 DEF Reported
<1>12. ASSUME NEW s \in Sections, ~NamedIn(degraded, s)
       PROVE  NamedIn(e, s)
  <2>1. PICK n \in 1..4 : SectionNames[n] = s
    BY SectionsAreNamed
  <2>2. n \in New
    BY <2>1, <1>5, <1>12 DEF Reported, NamedIn
  <2>3. PICK i \in DOMAIN e : Nth(New, i) = n
    BY <2>2, <1>2, <1>6
  <2> QED BY <2>1, <2>3, <1>6 DEF NamedIn
<1> QED BY <1>7, <1>8, <1>9, <1>10, <1>11, <1>12

-----------------------------------------------------------------------------
(* The steps of analyze.                                                    *)

(* What the sections read does not change once it is parsed.                 *)
LEMMA SameInputs ==
  ASSUME UNCHANGED <<contents, description, recognized, unparsed>>
  PROVE  /\ RepoFiles' = RepoFiles
         /\ GoRepository' <=> GoRepository
         /\ BodiesFit' <=> BodiesFit
         /\ SummarySource' = SummarySource
         /\ \A s : SectionFinds(s)' = SectionFinds(s)
         /\ \A s : ReadBy(s)' = ReadBy(s)
<1>1. RepoFiles' = RepoFiles
  BY DEF RepoFiles
<1>2. \A p, kinds : IsKind(p, kinds)' <=> IsKind(p, kinds)
  BY <1>1 DEF IsKind
<1>3. GoRepository' <=> GoRepository
  BY <1>1, <1>2 DEF GoRepository
<1>4. BodiesFit' <=> BodiesFit
  BY DEF BodiesFit
<1>5. View' = View
  BY <1>1, <1>2 DEF View
<1>6. \A p : FindsIn(p)' <=> FindsIn(p)
  BY DEF FindsIn
<1>7. SummarySource' = SummarySource
  <2>1. description' <=> description
    OBVIOUS
  <2>2. \A source : Offers(source)' <=> Offers(source)
    BY <1>2, <1>5, <2>1 DEF Offers, Candidate, Parsed
  <2> QED BY <2>2 DEF SummarySource
<1>8. ASSUME NEW s PROVE SectionFinds(s)' = SectionFinds(s)
  <2>1. GenericPaths(s)' = GenericPaths(s)
    BY <1>5, <1>6 DEF GenericPaths
  <2>2. GoPaths(s)' = GoPaths(s)
    BY <1>1, <1>2, <1>6 DEF GoPaths
  <2> QED BY <1>3, <2>1, <2>2 DEF SectionFinds, FoundBy
<1>9. ASSUME NEW s PROVE ReadBy(s)' = ReadBy(s)
  BY <1>2 DEF ReadBy
<1> QED BY <1>1, <1>3, <1>4, <1>7, <1>8, <1>9

(* A section ends, and appends its entries.                                  *)
LEMMA SectionPasses ==
  ASSUME AnalyzerTypes, EntriesBehind, doing \in Sections,
         UNCHANGED <<contents, description, recognized, unparsed>>,
         doing' = NextSection(doing),
         NEW e \in Seq(Entries), degraded' = degraded \o e,
         \A i \in DOMAIN e : e[i].section = doing,
         Distinct(e), Rising(e),
         \/ broken' = broken \cup {doing} /\ NamedIn(e, doing)
         \/ /\ broken' = broken
            /\ ~NamedIn(e, doing)
            /\ PathsOf(e, doing) = ReadBy(doing)
  PROVE  EntriesBehind' /\ degraded' \in Seq(Entries)
<1>1. /\ degraded \in Seq(Entries) /\ broken \subseteq Handled(doing)
      /\ Distinct(degraded) /\ Rising(degraded)
      /\ \A i \in DOMAIN degraded : degraded[i].section \in Handled(doing)
  BY DEF AnalyzerTypes, EntriesBehind
<1>2. doing \notin Handled(doing) /\ Handled(doing') = Handled(doing) \cup {doing}
  BY NextIsBehind
<1>3. \A i \in DOMAIN degraded, j \in DOMAIN e :
        degraded[i].section # e[j].section
  BY <1>1, <1>2
<1>4. /\ degraded' \in Seq(Entries)
      /\ Distinct(degraded') /\ Rising(degraded')
      /\ \A i \in DOMAIN degraded' :
           \/ \E j \in DOMAIN degraded : degraded'[i] = degraded[j]
           \/ \E j \in DOMAIN e : degraded'[i] = e[j]
      /\ \A s : NamedIn(degraded', s) <=> NamedIn(degraded, s) \/ NamedIn(e, s)
      /\ \A s : PathsOf(degraded', s) = PathsOf(degraded, s) \cup PathsOf(e, s)
  <2>1. \A i \in DOMAIN degraded, j \in DOMAIN e :
          /\ degraded[i] # e[j]
          /\ degraded[i].section = e[j].section => e[j].path = 0
    BY <1>3
  <2> QED BY <2>1, <1>1, EntriesAppended
<1>5. \A i \in DOMAIN degraded' : degraded'[i].section \in Handled(doing')
  BY <1>1, <1>2, <1>4
<1>6. ASSUME NEW s \in Handled(doing)
      PROVE  /\ s \in broken' <=> NamedIn(degraded', s)
             /\ s \notin broken' => PathsOf(degraded', s) = ReadBy(s)'
  <2>1. s # doing
    BY <1>2
  <2>2. ~NamedIn(e, s) /\ PathsOf(e, s) = {}
    BY <2>1 DEF NamedIn, Failed, PathsOf, SkipsOf
  <2>3. s \in broken' <=> s \in broken
    BY <2>1
  <2>4. /\ s \in broken <=> NamedIn(degraded, s)
        /\ s \notin broken => PathsOf(degraded, s) = ReadBy(s)
    BY DEF EntriesBehind
  <2> QED BY <1>4, <2>2, <2>3, <2>4, SameInputs
<1>7. /\ doing \in broken' <=> NamedIn(degraded', doing)
      /\ doing \notin broken' => PathsOf(degraded', doing) = ReadBy(doing)
  <2>1. ~NamedIn(degraded, doing) /\ PathsOf(degraded, doing) = {}
    BY <1>1, <1>2 DEF NamedIn, Failed, PathsOf, SkipsOf
  <2>2. doing \notin broken
    BY <1>1, <1>2
  <2> QED BY <1>4, <2>1, <2>2
<1>8. \A s \in Handled(doing') :
        /\ s \in broken' <=> NamedIn(degraded', s)
        /\ s \notin broken' => PathsOf(degraded', s) = ReadBy(s)'
  BY <1>2, <1>6, <1>7, SameInputs
<1> QED BY <1>4, <1>5, <1>8 DEF EntriesBehind, NamedIn, PathsOf, SkipsOf

LEMMA AnalyzerBegins == AnalyzerInit => AnalyzerInv
<1> SUFFICES ASSUME AnalyzerInit PROVE AnalyzerInv
  OBVIOUS
<1>1. AnalyzerTypes
  <2>1. << >> \in Seq(Entries)
    <3> HIDE DEF Entries
    <3> QED OBVIOUS
  <2>2. results = [s \in Sections \ {"purpose"} |-> results[s]]
    BY SectionsAreNamed DEF AnalyzerInit, NoResults
  <2>3. BodiesFit /\ contents \in [DOMAIN RepoPaths -> Bodies]
    BY DEF AnalyzerInit, BodiesFit
  <2> QED BY <2>1, <2>2, <2>3 DEF AnalyzerInit, AnalyzerTypes, Stages
<1>2. Handled(doing) = {}
  BY DEF AnalyzerInit, Handled
<1>3. ParsedOnce
  BY DEF AnalyzerInit, ParsedOnce
<1>4. SectionsBehind
  BY <1>2, SectionsAreNamed DEF AnalyzerInit, SectionsBehind, NoResults
<1>5. EntriesBehind
  BY <1>2 DEF AnalyzerInit, EntriesBehind, Distinct, Rising
<1> QED BY <1>1, <1>3, <1>4, <1>5 DEF AnalyzerInv

LEMMA AnalyzerStep == AnalyzerInv /\ [AnalyzerNext]_analyzerVars => AnalyzerInv'
<1> SUFFICES ASSUME AnalyzerInv, [AnalyzerNext]_analyzerVars PROVE AnalyzerInv'
  OBVIOUS
<1> USE DEF AnalyzerInv
<1>0. /\ AnalyzerTypes /\ ParsedOnce /\ SectionsBehind /\ EntriesBehind
  OBVIOUS
<1>1. CASE ParseRepo
  <2>1. /\ Handled(doing) = {} /\ Handled(doing') = {}
        /\ doing' \in Stages
    BY <1>1 DEF ParseRepo, Handled, Stages, Sections
  <2>2. AnalyzerTypes'
    BY <1>0, <1>1, <2>1 DEF AnalyzerTypes, ParseRepo, RepoFiles, BodiesFit
  <2>3. ParsedOnce'
    BY <1>1 DEF ParsedOnce, ParseRepo, RepoFiles, IsKind
  <2>4. SectionsBehind'
    BY <1>0, <1>1, <2>1 DEF SectionsBehind, ParseRepo, AnalyzerTypes
  <2>5. EntriesBehind'
    BY <1>0, <1>1, <2>1 DEF EntriesBehind, ParseRepo, Distinct, Rising
  <2> QED BY <2>2, <2>3, <2>4, <2>5
<1>2. CASE ParseRaises
  <2>1. /\ Handled(doing) = {} /\ Handled(doing') = {}
        /\ doing' \in Stages
    BY <1>2 DEF ParseRaises, Handled, Stages, Sections
  <2>2. AnalyzerTypes'
    BY <1>0, <1>2, <2>1 DEF AnalyzerTypes, ParseRaises, BodiesFit
  <2>3. ParsedOnce'
    BY <1>2 DEF ParsedOnce, ParseRaises
  <2>4. SectionsBehind'
    BY <1>0, <1>2, <2>1 DEF SectionsBehind, ParseRaises, AnalyzerTypes
  <2>5. EntriesBehind'
    BY <1>0, <1>2, <2>1 DEF EntriesBehind, ParseRaises, Distinct, Rising
  <2> QED BY <2>2, <2>3, <2>4, <2>5
<1>3. CASE SummarizePurpose
  <2> DEFINE paths == {p \in unparsed : IsKind(p, {"main"})}
             e == SkipEntries("purpose", paths)
  <2>1. /\ doing = "purpose" /\ doing \in Sections
        /\ doing' = NextSection(doing) /\ degraded' = degraded \o e
        /\ purpose' = SummarySource /\ results' = results /\ broken' = broken
        /\ UNCHANGED <<contents, description, recognized, unparsed>>
    BY <1>3 DEF SummarizePurpose, Sections
  <2>2. unparsed \subseteq DOMAIN RepoPaths
    BY <1>0 DEF AnalyzerTypes
  <2> HIDE DEF e
  <2>3. /\ e \in Seq(Entries)
        /\ \A i \in DOMAIN e : e[i].section = "purpose" /\ e[i].path # 0
        /\ Distinct(e) /\ Rising(e)
        /\ PathsOf(e, "purpose") = paths \cap unparsed
        /\ \A t : ~NamedIn(e, t)
    <3> HIDE DEF paths
    <3> QED BY <2>1, <2>2, SkipsAreEntries DEF e
  <2>4. paths \cap unparsed = ReadBy("purpose")
    BY DEF ReadBy
  <2> HIDE DEF paths
  <2>5. EntriesBehind' /\ degraded' \in Seq(Entries)
    BY <1>0, <2>1, <2>3, <2>4, SectionPasses
  <2>6. /\ doing' \in Stages \ {"parse", "raised", "done"}
        /\ doing \notin Handled(doing)
        /\ Handled(doing') = Handled(doing) \cup {doing}
    BY <2>1, NextIsBehind
  <2>7. AnalyzerTypes'
    BY <1>0, <2>1, <2>5, <2>6, SameInputs DEF AnalyzerTypes
  <2>8. ParsedOnce'
    BY <1>0, <2>1, <2>6, SameInputs DEF ParsedOnce, IsKind
  <2>9. SectionsBehind'
    <3>1. "purpose" \notin broken'
      BY <1>0, <2>1, <2>6 DEF AnalyzerTypes
    <3> QED BY <1>0, <2>1, <2>6, <3>1, SameInputs DEF SectionsBehind
  <2> QED BY <2>5, <2>7, <2>8, <2>9
<1>4. CASE RunSection
  <2> DEFINE e == IF GoRepository THEN SkipEntries(doing, RepoFiles) ELSE << >>
  <2>1. /\ doing \in Sections \ {"purpose"}
        /\ doing' = NextSection(doing) /\ degraded' = degraded \o e
        /\ results' = [results EXCEPT ![doing] = SectionFinds(doing)]
        /\ purpose' = purpose /\ broken' = broken
        /\ UNCHANGED <<contents, description, recognized, unparsed>>
    BY <1>4, SectionsAreNamed DEF RunSection, NoResults
  <2>2. /\ unparsed = {p \in RepoFiles : contents[p] = "unparsable"}
        /\ unparsed \subseteq DOMAIN RepoPaths
    BY <1>0, <2>1 DEF AnalyzerTypes, ParsedOnce, Sections
  <2>3. ReadBy(doing) = unparsed
    BY <2>1 DEF ReadBy
  <2> HIDE DEF e
  <2>4. /\ e \in Seq(Entries)
        /\ \A i \in DOMAIN e : e[i].section = doing
        /\ Distinct(e) /\ Rising(e)
        /\ PathsOf(e, doing) = ReadBy(doing)
        /\ ~NamedIn(e, doing)
    <3>1. CASE GoRepository
      <4>1. e = SkipEntries(doing, RepoFiles)
        BY <3>1 DEF e
      <4>2. RepoFiles \cap unparsed = unparsed
        BY <2>2
      <4> QED BY <2>1, <2>2, <2>3, <4>1, <4>2, SkipsAreEntries
    <3>2. CASE ~GoRepository
      <4>1. e = << >>
        BY <3>2 DEF e
      <4>2. unparsed = {}
        <5> SUFFICES ASSUME NEW p \in unparsed PROVE FALSE
          OBVIOUS
        <5>1. p \in RepoFiles /\ RepoPaths[p] \in GoKinds
          BY <1>0, <2>2 DEF AnalyzerTypes, BodiesFit
        <5> QED BY <3>2, <5>1 DEF GoRepository, IsKind
      <4>3. /\ e \in Seq(Entries) /\ DOMAIN e = {}
        <5> HIDE DEF Entries
        <5> QED BY <4>1
      <4> QED BY <2>3, <4>2, <4>3
               DEF Distinct, Rising, PathsOf, SkipsOf, NamedIn
    <3> QED BY <3>1, <3>2
  <2>5. EntriesBehind' /\ degraded' \in Seq(Entries)
    BY <1>0, <2>1, <2>4, SectionPasses
  <2>6. /\ doing' \in Stages \ {"parse", "raised", "done"}
        /\ doing \notin Handled(doing)
        /\ Handled(doing') = Handled(doing) \cup {doing}
    BY <2>1, NextIsBehind
  <2>7. AnalyzerTypes'
    BY <1>0, <2>1, <2>5, <2>6, SameInputs DEF AnalyzerTypes
  <2>8. ParsedOnce'
    BY <1>0, <2>1, <2>6, SameInputs DEF ParsedOnce, IsKind, Sections
  <2>9. SectionsBehind'
    <3>1. doing \notin broken'
      BY <1>0, <2>1, <2>6 DEF AnalyzerTypes
    <3>2. \A s \in Sections \ {"purpose"} :
            results'[s] = IF s = doing THEN SectionFinds(s) ELSE results[s]
      BY <1>0, <2>1 DEF AnalyzerTypes
    <3> QED BY <1>0, <2>1, <2>6, <3>1, <3>2, SameInputs DEF SectionsBehind
  <2> QED BY <2>5, <2>7, <2>8, <2>9
<1>5. CASE SectionRaises
  <2> DEFINE e == <<Failed(doing)>>
  <2>1. /\ doing \in Sections
        /\ doing' = NextSection(doing)
        /\ degraded' = Append(degraded, Failed(doing))
        /\ purpose' = (IF doing = "purpose" THEN "unknown" ELSE purpose)
        /\ results' = results /\ broken' = broken \cup {doing}
        /\ UNCHANGED <<contents, description, recognized, unparsed>>
    BY <1>5, SectionsAreNamed DEF SectionRaises
  <2>2. Failed(doing) \in Entries /\ degraded \in Seq(Entries)
    BY <1>0, <2>1 DEF Entries, Failed, AnalyzerTypes
  <2>3. e \in Seq(Entries) /\ degraded' = degraded \o e
    <3> HIDE DEF Entries
    <3> QED BY <2>1, <2>2
  <2>4. /\ DOMAIN e = 1..1
        /\ e[1] = Failed(doing)
        /\ \A i \in DOMAIN e : i = 1
    OBVIOUS
  <2> HIDE DEF e
  <2>5. /\ \A i \in DOMAIN e : e[i].section = doing
        /\ Distinct(e) /\ Rising(e)
        /\ NamedIn(e, doing)
    <3>1. Failed(doing).section = doing
      BY DEF Failed
    <3>2. ~(1 < 1)
      OBVIOUS
    <3> QED BY <2>4, <3>1, <3>2 DEF Distinct, Rising, NamedIn
  <2>6. EntriesBehind' /\ degraded' \in Seq(Entries)
    BY <1>0, <2>1, <2>3, <2>5, SectionPasses
  <2>7. /\ doing' \in Stages \ {"parse", "raised", "done"}
        /\ doing \notin Handled(doing)
        /\ Handled(doing') = Handled(doing) \cup {doing}
    BY <2>1, NextIsBehind
  <2>8. AnalyzerTypes'
    BY <1>0, <2>1, <2>6, <2>7, SameInputs DEF AnalyzerTypes
  <2>9. ParsedOnce'
    BY <1>0, <2>1, <2>7, SameInputs DEF ParsedOnce, IsKind, Sections
  <2>10. SectionsBehind'
    BY <1>0, <2>1, <2>7, SameInputs DEF SectionsBehind
  <2> QED BY <2>6, <2>8, <2>9, <2>10
<1>6. CASE BuildProfile
  <2>1. /\ Handled(doing) = Sections /\ Handled(doing') = Sections
        /\ doing \notin {"parse", "raised"}
        /\ doing' \in Stages
        /\ UNCHANGED <<contents, description, recognized, unparsed, purpose,
                       results, degraded, broken>>
    BY <1>6 DEF BuildProfile, Handled, Stages, Sections
  <2>2. AnalyzerTypes'
    BY <1>0, <2>1, SameInputs DEF AnalyzerTypes
  <2>3. ParsedOnce'
    BY <1>0, <2>1, SameInputs DEF ParsedOnce, IsKind
  <2>4. SectionsBehind'
    BY <1>0, <2>1, SameInputs DEF SectionsBehind
  <2>5. EntriesBehind'
    BY <1>0, <2>1, SameInputs
       DEF EntriesBehind, Distinct, Rising, NamedIn, PathsOf, SkipsOf
  <2> QED BY <2>2, <2>3, <2>4, <2>5
<1>7. CASE AssemblyFails
  <2> DEFINE e == AllSections
  <2>1. /\ Handled(doing) = Sections /\ Handled(doing') = Sections
        /\ doing \notin {"parse", "raised"}
        /\ doing' \in Stages
        /\ degraded' = degraded \o e
        /\ broken' = Sections
        /\ purpose' = "unknown" /\ results' = NoResults
        /\ UNCHANGED <<contents, description, recognized, unparsed>>
    <3>1. broken \subseteq Sections
      BY <1>0, HandledAreNames DEF AnalyzerTypes
    <3> QED BY <1>7, <3>1, SectionsAreNamed
              DEF AssemblyFails, Handled, Stages, Sections
  <2> HIDE DEF e
  <2>2. /\ e \in Seq(Entries)
        /\ \A i \in DOMAIN e : e[i].section \in Sections /\ e[i].path = 0
        /\ Distinct(e) /\ Rising(e)
        /\ \A i \in DOMAIN degraded : \A j \in DOMAIN e : degraded[i] # e[j]
        /\ \A s \in Sections : NamedIn(degraded, s) \/ NamedIn(e, s)
    BY AllAreNamed DEF e
  <2>3. /\ degraded' \in Seq(Entries)
        /\ Distinct(degraded') /\ Rising(degraded')
        /\ \A i \in DOMAIN degraded' :
             \/ \E j \in DOMAIN degraded : degraded'[i] = degraded[j]
             \/ \E j \in DOMAIN e : degraded'[i] = e[j]
        /\ \A s : NamedIn(degraded', s) <=> NamedIn(degraded, s) \/ NamedIn(e, s)
    <3>1. /\ degraded \in Seq(Entries)
          /\ Distinct(degraded) /\ Rising(degraded)
      BY <1>0 DEF AnalyzerTypes, EntriesBehind
    <3>2. \A i \in DOMAIN degraded, j \in DOMAIN e :
            /\ degraded[i] # e[j]
            /\ degraded[i].section = e[j].section => e[j].path = 0
      BY <2>2
    <3> QED BY <2>1, <2>2, <3>1, <3>2, EntriesAppended
  <2>4. EntriesBehind'
    <3>1. \A i \in DOMAIN degraded' : degraded'[i].section \in Handled(doing')
      BY <1>0, <2>1, <2>2, <2>3 DEF EntriesBehind
    <3>2. \A s \in Sections : s \in broken' /\ NamedIn(degraded', s)
      BY <2>1, <2>2, <2>3
    <3> QED BY <2>1, <2>3, <3>1, <3>2 DEF EntriesBehind, NamedIn, Distinct, Rising
  <2>5. AnalyzerTypes'
    <3>1. results' = [s \in Sections \ {"purpose"} |-> results'[s]]
      BY <2>1, SectionsAreNamed DEF NoResults
    <3> QED BY <1>0, <2>1, <2>3, <3>1, SameInputs DEF AnalyzerTypes
  <2>6. ParsedOnce'
    BY <1>0, <2>1, SameInputs DEF ParsedOnce, IsKind
  <2>7. SectionsBehind'
    BY <2>1, SectionsAreNamed DEF SectionsBehind, NoResults, Sections
  <2> QED BY <2>4, <2>5, <2>6, <2>7
<1>8. CASE UNCHANGED analyzerVars
  <2>1. UNCHANGED <<contents, description, doing, unparsed, recognized, purpose,
                    results, degraded, broken>>
    BY <1>8 DEF analyzerVars
  <2>2. AnalyzerTypes'
    BY <1>0, <2>1, SameInputs DEF AnalyzerTypes
  <2>3. ParsedOnce'
    BY <1>0, <2>1, SameInputs DEF ParsedOnce, IsKind
  <2>4. SectionsBehind'
    BY <1>0, <2>1, SameInputs DEF SectionsBehind
  <2>5. EntriesBehind'
    BY <1>0, <2>1, SameInputs
       DEF EntriesBehind, Distinct, Rising, NamedIn, PathsOf, SkipsOf
  <2> QED BY <2>2, <2>3, <2>4, <2>5
<1> QED
  BY <1>1, <1>2, <1>3, <1>4, <1>5, <1>6, <1>7, <1>8 DEF AnalyzerNext

LEMMA AnalyzerInvariant == AnalyzerSpec => []AnalyzerInv
<1>1. AnalyzerInit => AnalyzerInv
  BY AnalyzerBegins
<1>2. AnalyzerInv /\ [AnalyzerNext]_analyzerVars => AnalyzerInv'
  BY AnalyzerStep
<1> QED BY <1>1, <1>2, PTL DEF AnalyzerSpec

-----------------------------------------------------------------------------
(* What the sections find.                                                  *)

RichOnes(kinds) == {p \in RepoFiles : IsKind(p, kinds) /\ contents[p] = "rich"}

TextOnes(kinds) == {p \in RepoFiles : IsKind(p, kinds) /\ FindsIn(p)}

(* A summary is from the first source that offers one.                       *)
LEMMA FirstSource ==
  /\ SummarySource = "unknown" =>
       \A source \in {"readme", "gitlab_description", "gomod", "manifest",
                     "docstring", "package_doc"} : ~Offers(source)
  /\ SummarySource # "unknown" => Offers(SummarySource)
  /\ SummarySource = "manifest" =>
       ~Offers("readme") /\ ~Offers("gitlab_description") /\ ~Offers("gomod")
<1> DEFINE S == {n \in DOMAIN SummarySources : Offers(SummarySources[n])}
<1>1. DOMAIN SummarySources = 1..6
  BY DEF SummarySources
<1>2. /\ SummarySources[1] = "readme"
      /\ SummarySources[2] = "gitlab_description"
      /\ SummarySources[3] = "gomod"
      /\ SummarySources[4] = "manifest"
      /\ SummarySources[5] = "docstring"
      /\ SummarySources[6] = "package_doc"
  BY DEF SummarySources
<1>3. /\ S \in SUBSET (0..6) /\ 6 \in Nat
      /\ \A n \in S : n \in 1..6 /\ n \in Nat
  BY <1>1
<1>4. \A n \in 1..6 : n \in S <=> Offers(SummarySources[n])
  BY <1>1
<1>5. SummarySource =
        IF S = {} THEN "unknown" ELSE SummarySources[Nth(S, 1)]
  BY DEF SummarySource
<1>6. ASSUME S # {}
      PROVE  Nth(S, 1) \in S /\ \A n \in S : ~(n < Nth(S, 1))
  <2> HIDE DEF S
  <2>1. /\ Cardinality(S) \in Nat
        /\ \A i \in 1..Cardinality(S) : Nth(S, i) \in S
        /\ \A i, j \in 1..Cardinality(S) : i < j => Nth(S, i) < Nth(S, j)
        /\ \A p \in S : \E i \in 1..Cardinality(S) : Nth(S, i) = p
    BY <1>3, Ranks
  <2>2. PICK p \in S : TRUE
    BY <1>6
  <2>3. PICK i \in 1..Cardinality(S) : Nth(S, i) = p
    BY <2>1
  <2>4. 1 \in 1..Cardinality(S)
    BY <2>1
  <2>5. ASSUME NEW n \in S, n < Nth(S, 1) PROVE FALSE
    <3>1. PICK j \in 1..Cardinality(S) : Nth(S, j) = n
      BY <2>1
    <3>2. j = 1 \/ 1 < j
      BY <2>1
    <3>3. n \in Nat /\ Nth(S, 1) \in Nat
      BY <1>3, <2>1, <2>4
    <3> QED BY <2>1, <2>4, <2>5, <3>1, <3>2, <3>3
  <2> QED BY <2>1, <2>4, <2>5
<1> HIDE DEF S
<1>7. \A n \in 1..6 : n = 1 \/ n = 2 \/ n = 3 \/ n = 4 \/ n = 5 \/ n = 6
  OBVIOUS
<1>8. \A n \in 1..6 : SummarySources[n] # "unknown"
  BY <1>2, <1>7
<1>9. CASE S = {}
  <2>1. \A n \in 1..6 : ~Offers(SummarySources[n])
    BY <1>4, <1>9
  <2> QED BY <2>1, <1>2, <1>5, <1>9
<1>10. CASE S # {}
  <2> DEFINE m == Nth(S, 1)
  <2>1. m \in S /\ m \in 1..6 /\ \A n \in S : ~(n < m)
    BY <1>3, <1>6, <1>10
  <2>2. SummarySource = SummarySources[m]
    BY <1>5, <1>10
  <2> HIDE DEF m
  <2>3. SummarySource # "unknown" /\ Offers(SummarySource)
    BY <1>4, <1>8, <2>1, <2>2
  <2>4. SummarySource = "manifest" => m = 4
    BY <1>2, <1>7, <2>1, <2>2
  <2>5. m = 4 => 1 \notin S /\ 2 \notin S /\ 3 \notin S
    BY <2>1
  <2> QED BY <1>2, <1>4, <2>3, <2>4, <2>5
<1> QED BY <1>9, <1>10

(* The tests of the sources, by the files.                                   *)
LEMMA OffersAreFiles ==
  ASSUME AnalyzerInv, doing = "done"
  PROVE  /\ Candidate("readme") <=> RichOnes({"readme"}) # {}
         /\ Candidate("manifest") <=> RichOnes({"manifest"}) # {}
         /\ Candidate("script") <=> RichOnes({"script"}) # {}
         /\ Parsed("gomod") <=> RichOnes({"gomod"}) # {}
         /\ Parsed("main") <=> RichOnes({"main"}) # {}
<1>1. recognized = {p \in RepoFiles : IsKind(p, GoKinds \cup {"gomod"})
                                         /\ contents[p] = "rich"}
  BY DEF AnalyzerInv, ParsedOnce
<1>2. ASSUME NEW kind, kind # "vendored"
      PROVE  Candidate(kind) <=> RichOnes({kind}) # {}
  <2>1. \A p \in RepoFiles : IsKind(p, {kind}) => p \in View
    BY <1>2 DEF View, IsKind
  <2> QED BY <2>1 DEF Candidate, RichOnes, View
<1>3. ASSUME NEW kind \in {"gomod", "main"}
      PROVE  Parsed(kind) <=> RichOnes({kind}) # {}
  <2>1. \A p \in RepoFiles : IsKind(p, {kind}) => IsKind(p, GoKinds \cup {"gomod"})
    BY DEF IsKind, GoKinds
  <2>2. \A p : p \in recognized /\ IsKind(p, {kind}) <=> p \in RichOnes({kind})
    BY <1>1, <2>1 DEF RichOnes
  <2> QED BY <2>2 DEF Parsed
<1> QED BY <1>2, <1>3

LEMMA SectionsFindTheirs ==
  ASSUME AnalyzerInv, doing = "done"
  PROVE  /\ SectionFinds("abstract_io") =
              FoundBy("generic", RichOnes({"manifest", "script"}))
                \cup FoundBy("go", RichOnes(GoKinds))
         /\ SectionFinds("external_services") =
              IF GoRepository THEN FoundBy("go", TextOnes({"adapter"}))
              ELSE FoundBy("generic", RichOnes({"manifest", "script"}))
         /\ SectionFinds("database_tables") =
              IF GoRepository THEN FoundBy("go", TextOnes({"repository"}))
              ELSE FoundBy("generic", RichOnes({"manifest", "script"}))
<1>1. recognized = {p \in RepoFiles : IsKind(p, GoKinds \cup {"gomod"})
                                         /\ contents[p] = "rich"}
  BY DEF AnalyzerInv, ParsedOnce
<1>2. \A p \in RepoFiles : /\ p \in DOMAIN RepoPaths /\ RepoPaths[p] \in FileKinds
                           /\ contents[p] = "unparsable" => RepoPaths[p] \in GoKinds
  <2>1. RepoPaths \in Seq(FileKinds)
    BY RepoAssumption DEF RepoAssumption
  <2>2. \A p \in DOMAIN RepoPaths : RepoPaths[p] \in FileKinds
    <3> HIDE DEF FileKinds
    <3> QED BY <2>1
  <2> QED BY <2>2 DEF AnalyzerInv, AnalyzerTypes, BodiesFit, RepoFiles
<1>3. GenericPaths("abstract_io") = RichOnes({"manifest", "script"})
  <2>1. \A p : p \in GenericPaths("abstract_io")
               <=> p \in RichOnes({"manifest", "script"})
    BY <1>2 DEF GenericPaths, RichOnes, View, IsKind, FindsIn, GoKinds
  <2> QED BY <2>1
<1>4. ASSUME ~GoRepository, NEW s \in {"external_services", "database_tables"}
      PROVE  GenericPaths(s) = RichOnes({"manifest", "script"})
  <2>1. \A p \in RepoFiles : RepoPaths[p] \notin GoKinds \cup {"gomod"}
    BY <1>4 DEF GoRepository, IsKind
  <2>2. GenericPaths(s) =
          {p \in View : FindsIn(p) /\ RepoPaths[p] \in FileKinds \ {"readme"}}
    BY DEF GenericPaths
  <2>3. \A p : p \in GenericPaths(s) <=> p \in RichOnes({"manifest", "script"})
    BY <1>2, <2>1, <2>2
       DEF RichOnes, View, IsKind, FindsIn, GoKinds, FileKinds
  <2> QED BY <2>3
<1>5. GoPaths("abstract_io") = RichOnes(GoKinds)
  <2>1. GoPaths("abstract_io") = {p \in recognized : IsKind(p, GoKinds)}
    BY DEF GoPaths
  <2>2. \A p \in RepoFiles : IsKind(p, GoKinds) => IsKind(p, GoKinds \cup {"gomod"})
    BY DEF IsKind
  <2>3. \A p : p \in GoPaths("abstract_io") <=> p \in RichOnes(GoKinds)
    BY <1>1, <2>1, <2>2 DEF RichOnes
  <2> QED BY <2>3
<1>6. ~GoRepository => FoundBy("go", RichOnes(GoKinds)) = {}
  <2>1. ~GoRepository => RichOnes(GoKinds) = {}
    BY DEF GoRepository, RichOnes, IsKind
  <2> QED BY <2>1 DEF FoundBy
<1>7. /\ GoPaths("external_services") = TextOnes({"adapter"})
      /\ GoPaths("database_tables") = TextOnes({"repository"})
  BY DEF GoPaths, TextOnes
<1>8. SectionFinds("abstract_io") =
        FoundBy("generic", GenericPaths("abstract_io"))
          \cup (IF GoRepository THEN FoundBy("go", GoPaths("abstract_io")) ELSE {})
  BY DEF SectionFinds
<1>9. \A s \in {"external_services", "database_tables"} :
        SectionFinds(s) = IF GoRepository THEN FoundBy("go", GoPaths(s))
                          ELSE FoundBy("generic", GenericPaths(s))
  BY DEF SectionFinds
<1>10. SectionFinds("abstract_io") =
         FoundBy("generic", RichOnes({"manifest", "script"}))
           \cup FoundBy("go", RichOnes(GoKinds))
  BY <1>3, <1>5, <1>6, <1>8
<1> QED BY <1>4, <1>7, <1>9, <1>10

LEMMA IsolatedByInv == AnalyzerInv => SectionsAreIsolated
<1> SUFFICES ASSUME AnalyzerInv, doing = "done" PROVE SectionsAreIsolated
  BY DEF SectionsAreIsolated
<1>1. Handled(doing) = Sections
  BY DEF Handled
<1>2. \A s \in Sections \ {"purpose"} : s \notin broken => results[s] = SectionFinds(s)
  BY <1>1 DEF AnalyzerInv, SectionsBehind
<1>3. /\ "purpose" \in broken => purpose = "unknown"
      /\ "purpose" \notin broken => purpose = SummarySource
  BY <1>1 DEF AnalyzerInv, SectionsBehind, Sections
<1>4. /\ Offers("readme") <=> RichOnes({"readme"}) # {}
      /\ Offers("manifest") <=> RichOnes({"manifest"}) # {}
      /\ Offers("docstring") <=> RichOnes({"script"}) # {}
      /\ Offers("gomod") <=> RichOnes({"gomod"}) # {}
      /\ Offers("package_doc") <=> RichOnes({"main"}) # {}
      /\ Offers("gitlab_description") <=> description
  <2>1. /\ Candidate("readme") <=> RichOnes({"readme"}) # {}
        /\ Candidate("manifest") <=> RichOnes({"manifest"}) # {}
        /\ Candidate("script") <=> RichOnes({"script"}) # {}
        /\ Parsed("gomod") <=> RichOnes({"gomod"}) # {}
        /\ Parsed("main") <=> RichOnes({"main"}) # {}
    BY OffersAreFiles
  <2> QED BY <2>1 DEF Offers
<1>5. /\ RichOnes({"readme", "gomod"}) = {} <=>
           RichOnes({"readme"}) = {} /\ RichOnes({"gomod"}) = {}
      /\ RichOnes({"readme", "gomod", "manifest", "script", "main"}) = {} <=>
           /\ RichOnes({"readme"}) = {} /\ RichOnes({"gomod"}) = {}
           /\ RichOnes({"manifest"}) = {} /\ RichOnes({"script"}) = {}
           /\ RichOnes({"main"}) = {}
  BY DEF RichOnes, IsKind
<1>6. purpose = "manifest" => RichOnes({"readme", "gomod"}) = {} /\ ~description
  <2>1. purpose = "manifest" =>
          ~Offers("readme") /\ ~Offers("gitlab_description") /\ ~Offers("gomod")
    BY <1>3, FirstSource
  <2> QED BY <2>1, <1>4, <1>5
<1>7. "purpose" \notin broken =>
        (purpose = "unknown" <=>
           RichOnes({"readme", "gomod", "manifest", "script", "main"}) = {}
             /\ ~description)
  <2>1. SummarySource = "unknown" =>
          \A source \in {"readme", "gitlab_description", "gomod", "manifest",
                        "docstring", "package_doc"} : ~Offers(source)
    BY FirstSource
  <2>2. SummarySource = "unknown" =>
          /\ RichOnes({"readme", "gomod", "manifest", "script", "main"}) = {}
          /\ ~description
    BY <2>1, <1>4, <1>5
  <2>3. SummarySource # "unknown" => Offers(SummarySource)
    BY FirstSource
  <2>4. ASSUME NEW source, Offers(source)
        PROVE  source \in {"readme", "gitlab_description", "gomod", "manifest",
                           "docstring", "package_doc"}
    BY <2>4 DEF Offers
  <2>5. SummarySource # "unknown" =>
          \/ RichOnes({"readme", "gomod", "manifest", "script", "main"}) # {}
          \/ description
    BY <2>3, <2>4, <1>4, <1>5
  <2> QED BY <1>3, <2>2, <2>5
<1>8. /\ results["abstract_io"] = SectionFinds("abstract_io")
             \/ "abstract_io" \in broken
      /\ results["external_services"] = SectionFinds("external_services")
             \/ "external_services" \in broken
      /\ results["database_tables"] = SectionFinds("database_tables")
             \/ "database_tables" \in broken
  BY <1>2 DEF Sections
<1> QED BY <1>6, <1>7, <1>8, SectionsFindTheirs
         DEF SectionsAreIsolated, RichOnes, TextOnes

(* A failure of a section, of the recognizer, or of the profile's validation *)
(* costs nothing but that section's results, for every repository.           *)
THEOREM SectionsStayIsolated == AnalyzerSpec => []SectionsAreIsolated
<1>1. AnalyzerInv => SectionsAreIsolated
  BY IsolatedByInv
<1> QED BY <1>1, AnalyzerInvariant, PTL

LEMMA ReportedByInv == AnalyzerInv => DegradationIsReported
<1> SUFFICES ASSUME AnalyzerInv, doing = "done" PROVE DegradationIsReported
  BY DEF DegradationIsReported
<1>1. Handled(doing) = Sections
  BY DEF Handled
<1>2. /\ \A i, j \in DOMAIN degraded : i < j => degraded[i] # degraded[j]
      /\ \A s \in Sections :
           \A i, j \in SkipsOf(degraded, s) :
             i < j => degraded[i].path < degraded[j].path
  BY DEF AnalyzerInv, EntriesBehind, Distinct, Rising, SkipsOf
<1>3. \A s \in Sections :
        s \in broken <=> \E i \in DOMAIN degraded :
                           degraded[i] = [section |-> s, path |-> 0]
  BY <1>1 DEF AnalyzerInv, EntriesBehind, NamedIn, Failed
<1>4. unparsed = {p \in RepoFiles : contents[p] = "unparsable"}
  BY DEF AnalyzerInv, ParsedOnce
<1>5. ASSUME NEW s \in Sections
      PROVE  ReadBy(s) = {p \in RepoFiles : contents[p] = "unparsable"
                            /\ (s = "purpose" => IsKind(p, {"main"}))}
  BY <1>4 DEF ReadBy
<1>6. \A s \in Sections : s \notin broken =>
        {degraded[i].path : i \in SkipsOf(degraded, s)} =
          {p \in RepoFiles : contents[p] = "unparsable"
             /\ (s = "purpose" => IsKind(p, {"main"}))}
  BY <1>1, <1>5 DEF AnalyzerInv, EntriesBehind, PathsOf
<1>7. \A s \in Sections : s \in broken =>
        IF s = "purpose" THEN purpose = "unknown" ELSE results[s] = {}
  BY DEF AnalyzerInv, SectionsBehind
<1> QED BY <1>2, <1>3, <1>6, <1>7, SectionsAreNamed
         DEF DegradationIsReported, SkipsOf

(* Every loss is in the profile, once: for every repository and whatever     *)
(* raises.                                                                   *)
THEOREM LossesAreReported == AnalyzerSpec => []DegradationIsReported
<1>1. AnalyzerInv => DegradationIsReported
  BY ReportedByInv
<1> QED BY <1>1, AnalyzerInvariant, PTL

-----------------------------------------------------------------------------
(* The conflict detector.                                                   *)

Positions == DOMAIN profiles

DetectorTypeOK ==
  /\ profiles \in Seq(Profiles)
  /\ outer \in Nat /\ inner \in Nat
  /\ pairs \subseteq [first : Positions, second : Positions]

(* The loops are at a pair of positions, or a round has just begun.          *)
LoopInv == outer >= 1 /\ outer < inner /\ (inner <= Len(profiles) \/ inner = outer + 1)

(* The pairs of positions the loops have passed.                             *)
Passed(i, j) == i < outer \/ (i = outer /\ j < inner)

Between(i, j) == IF i < j THEN Passed(i, j) ELSE Passed(j, i)

PairsSound ==
  \A x \in pairs :
    /\ profiles[x.first].id < profiles[x.second].id
    /\ Conflicting(profiles[x.first], profiles[x.second])

KeysUnique == \A x, y \in pairs : Key(x) = Key(y) => x = y

(* Two profiles that conflict have their key in the result as soon as the    *)
(* loops have passed them, in whichever order they stand.                    *)
PassedFound ==
  \A i, j \in Positions :
    /\ profiles[i].id < profiles[j].id
    /\ Conflicting(profiles[i], profiles[j])
    /\ Between(i, j)
    => \E x \in pairs : Key(x) = <<profiles[i].id, profiles[j].id>>

DetectorInv == DetectorTypeOK /\ LoopInv /\ PairsSound /\ KeysUnique /\ PassedFound

-----------------------------------------------------------------------------
(* Neither basis of a conflict, nor an unclear purpose, depends on which of  *)
(* the two summaries comes first.                                            *)
LEMMA ClassifySymmetric ==
  ASSUME NEW a, NEW b
  PROVE  Classify(a, b) = Classify(b, a)
<1>1. Unclear(a, b) <=> Unclear(b, a)
  BY DEF Unclear
<1>2. SameResponsibility(a, b) <=> SameResponsibility(b, a)
  <2>1. ASSUME NEW s, NEW t
        PROVE  SubstantialOverlap(s, t) <=> SubstantialOverlap(t, s)
    <3>1. s \cup t = t \cup s /\ s \cap t = t \cap s
      OBVIOUS
    <3> QED BY <3>1 DEF SubstantialOverlap
  <2>2. {OwnershipStance(a), OwnershipStance(b)} = {OwnershipStance(b), OwnershipStance(a)}
    OBVIOUS
  <2> QED BY <2>1, <2>2 DEF SameResponsibility
<1> QED BY <1>1, <1>2 DEF Classify

(* A profile has an id in the natural numbers.                               *)
LEMMA IdsAreNat ==
  ASSUME DetectorTypeOK, NEW i \in Positions
  PROVE  profiles[i] \in Profiles /\ profiles[i].id \in Nat
<1>1. profiles[i] \in Profiles
  BY DEF DetectorTypeOK, Positions
<1> QED BY <1>1, IdsAssumption DEF Profiles

LEMMA PositionsAreNumbers ==
  ASSUME DetectorTypeOK
  PROVE  Len(profiles) \in Nat /\ Positions = 1..Len(profiles)
BY DEF DetectorTypeOK, Positions

LEMMA DetectorInitInv == DetectorInit => DetectorInv
<1> SUFFICES ASSUME DetectorInit PROVE DetectorInv
  OBVIOUS
<1>1. PICK n \in 0..MaxProfiles : profiles \in [1..n -> Profiles]
  BY DEF DetectorInit
<1>2. profiles \in Seq(Profiles)
  BY <1>1, IdsAssumption
<1>3. DetectorTypeOK
  BY <1>2 DEF DetectorInit, DetectorTypeOK
<1>4. LoopInv /\ PairsSound /\ KeysUnique
  BY DEF DetectorInit, LoopInv, PairsSound, KeysUnique
<1>5. PassedFound
  <2>1. ASSUME NEW i \in Positions, NEW j \in Positions,
               profiles[i].id < profiles[j].id, Between(i, j)
        PROVE  FALSE
    <3>1. i \in Nat /\ j \in Nat /\ i >= 1 /\ j >= 1
      BY <1>3, PositionsAreNumbers
    <3>2. profiles[i].id \in Nat
      BY <1>3, IdsAreNat
    <3> QED BY <2>1, <3>1, <3>2 DEF DetectorInit, Between, Passed
  <2> QED BY <2>1 DEF PassedFound
<1> QED BY <1>3, <1>4, <1>5 DEF DetectorInv

-----------------------------------------------------------------------------
(* One comparison.                                                          *)

LEMMA NextPairKeepsLoop ==
  ASSUME DetectorTypeOK, LoopInv, inner <= Len(profiles), NextPair
  PROVE  /\ outer' \in Nat /\ inner' \in Nat
         /\ outer' >= 1 /\ outer' < inner'
         /\ inner' <= Len(profiles) \/ inner' = outer' + 1
         /\ \A i, j \in Positions :
              i < j => ( (i < outer' \/ (i = outer' /\ j < inner'))
                           => Passed(i, j) \/ (i = outer /\ j = inner) )
<1>1. Len(profiles) \in Nat /\ Positions = 1..Len(profiles)
  BY PositionsAreNumbers
<1>2. CASE inner < Len(profiles)
  BY <1>1, <1>2 DEF NextPair, DetectorTypeOK, LoopInv, Passed
<1>3. CASE ~(inner < Len(profiles))
  BY <1>1, <1>3 DEF NextPair, DetectorTypeOK, LoopInv, Passed
<1> QED BY <1>2, <1>3

(* The two positions compared, by the order of their ids.                    *)
LEMMA LowerAndHigher ==
  ASSUME DetectorTypeOK, LoopInv, inner <= Len(profiles),
         profiles[outer].id # profiles[inner].id
  PROVE  /\ Lower \in Positions /\ Higher \in Positions
         /\ {Lower, Higher} = {outer, inner}
         /\ profiles[Lower].id < profiles[Higher].id
<1>1. outer \in Positions /\ inner \in Positions
  BY PositionsAreNumbers DEF DetectorTypeOK, LoopInv
<1>2. profiles[outer].id \in Nat /\ profiles[inner].id \in Nat
  BY <1>1, IdsAreNat
<1> QED BY <1>1, <1>2 DEF Lower, Higher

LEMMA ComparePairInv ==
  ASSUME DetectorInv, ComparePair
  PROVE  DetectorInv'
<1> USE DEF DetectorInv
<1>1. /\ inner <= Len(profiles) /\ NextPair
      /\ profiles' = profiles /\ Positions' = Positions
  BY DEF ComparePair, Positions
<1> DEFINE new == [first |-> Lower, second |-> Higher]
           differ == profiles[outer].id # profiles[inner].id
<1>2. \/ pairs' = pairs
      \/ /\ pairs' = pairs \cup {new}
         /\ differ /\ ~AlreadyFound
         /\ Conflicting(profiles[Lower], profiles[Higher])
  BY DEF ComparePair
<1>3. differ => /\ Lower \in Positions /\ Higher \in Positions
                /\ {Lower, Higher} = {outer, inner}
                /\ profiles[Lower].id < profiles[Higher].id
  BY <1>1, LowerAndHigher
<1>4. LoopInv'
  BY <1>1, NextPairKeepsLoop DEF LoopInv
<1>5. DetectorTypeOK'
  <2>1. pairs' \subseteq [first : Positions, second : Positions]
    BY <1>2, <1>3 DEF DetectorTypeOK
  <2> QED BY <1>1, <2>1, NextPairKeepsLoop DEF DetectorTypeOK
<1>6. \A x : Key(x)' = Key(x)
  BY <1>1 DEF Key
<1>7. PairsSound'
  <2>1. \A x \in pairs' : x \in pairs \/ (x = new /\ differ /\ Conflicting(profiles[Lower], profiles[Higher]))
    BY <1>2
  <2> QED BY <1>1, <1>3, <2>1 DEF PairsSound, Conflicting
<1>8. KeysUnique'
  <2>1. ASSUME pairs' = pairs \cup {new}, ~AlreadyFound
        PROVE  \A x \in pairs : Key(x) # Key(new)
    BY <2>1 DEF AlreadyFound, Key
  <2> QED BY <1>2, <1>6, <2>1 DEF KeysUnique
<1>9. differ /\ Conflicting(profiles[Lower], profiles[Higher])
      => \E x \in pairs' : Key(x) = <<profiles[Lower].id, profiles[Higher].id>>
  <2>1. CASE AlreadyFound
    BY <1>2, <2>1 DEF AlreadyFound
  <2>2. CASE ~AlreadyFound /\ differ /\ Conflicting(profiles[Lower], profiles[Higher])
    <3>1. new \in pairs'
      BY <1>1, <2>2 DEF ComparePair
    <3> QED BY <3>1 DEF Key
  <2> QED BY <2>1, <2>2
<1>10. PassedFound'
  <2>1. SUFFICES ASSUME NEW i \in Positions, NEW j \in Positions,
                        profiles[i].id < profiles[j].id,
                        Conflicting(profiles[i], profiles[j]), Between(i, j)'
                 PROVE  \E x \in pairs' : Key(x) = <<profiles[i].id, profiles[j].id>>
    BY <1>1, <1>6 DEF PassedFound, Conflicting
  <2>2. i \in Nat /\ j \in Nat /\ profiles[i].id \in Nat /\ profiles[j].id \in Nat
    BY PositionsAreNumbers, IdsAreNat
  <2>3. i # j
    BY <2>1, <2>2
  <2>4. Between(i, j) \/ {i, j} = {outer, inner}
    BY <1>1, <2>1, <2>2, <2>3, NextPairKeepsLoop DEF Between, Passed
  <2>5. CASE Between(i, j)
    <3>1. PICK x \in pairs : Key(x) = <<profiles[i].id, profiles[j].id>>
      BY <2>1, <2>5 DEF PassedFound
    <3> QED BY <1>2, <3>1
  <2>6. CASE {i, j} = {outer, inner}
    <3>1. differ
      BY <2>1, <2>2, <2>6
    <3>2. i = Lower /\ j = Higher
      <4>1. {i, j} = {Lower, Higher}
        BY <1>3, <2>6, <3>1
      <4>2. i = Higher /\ j = Lower => FALSE
        BY <1>3, <2>1, <2>2, <3>1
      <4> QED BY <2>3, <4>1, <4>2
    <3> QED BY <1>9, <2>1, <3>1, <3>2
  <2> QED BY <2>4, <2>5, <2>6
<1> QED BY <1>4, <1>5, <1>7, <1>8, <1>10

-----------------------------------------------------------------------------
LEMMA DetectorInvHolds == DetectorSpec => []DetectorInv
<1>1. DetectorInv /\ [DetectorNext]_detectorVars => DetectorInv'
  <2> SUFFICES ASSUME DetectorInv, [DetectorNext]_detectorVars PROVE DetectorInv'
    OBVIOUS
  <2>1. CASE ComparePair
    BY <2>1, ComparePairInv
  <2>2. CASE UNCHANGED detectorVars
    BY <2>2 DEF detectorVars, DetectorInv, DetectorTypeOK, Positions, LoopInv,
      PairsSound, KeysUnique, PassedFound, Between, Passed, Key, Conflicting
  <2> QED BY <2>1, <2>2 DEF DetectorNext
<1> QED BY DetectorInitInv, <1>1, PTL DEF DetectorSpec

LEMMA InvIsExact == DetectorInv => ConflictsAreExact
<1> SUFFICES ASSUME DetectorInv PROVE ConflictsAreExact
  OBVIOUS
<1> USE DEF DetectorInv
<1>1. ClassificationIsSymmetric
  BY ClassifySymmetric DEF ClassificationIsSymmetric
<1>2. ASSUME Compared, NEW i \in Positions, NEW j \in Positions
      PROVE  profiles[i].id < profiles[j].id => Between(i, j)
  <2>1. Len(profiles) \in Nat /\ Positions = 1..Len(profiles)
    BY PositionsAreNumbers
  <2>2. outer >= Len(profiles)
    BY <1>2, <2>1 DEF Compared, LoopInv, DetectorTypeOK
  <2>3. profiles[i].id \in Nat
    BY IdsAreNat
  <2> QED BY <2>1, <2>2, <2>3 DEF Between, Passed, DetectorTypeOK
<1>3. Compared => \A i, j \in DOMAIN profiles :
        /\ profiles[i].id < profiles[j].id
        /\ Conflicting(profiles[i], profiles[j])
        => \E x \in pairs : Key(x) = <<profiles[i].id, profiles[j].id>>
  BY <1>2 DEF PassedFound, Positions
<1> QED BY <1>1, <1>3 DEF ConflictsAreExact, PairsSound, KeysUnique

(* find_all_conflicts: whatever the vocabulary, and however many profiles    *)
(* it is given in whatever order and with whatever repeated ids, the result  *)
(* has exactly one pair for each two ids of which some profiles conflict.    *)
THEOREM DetectorExact == DetectorSpec => []ConflictsAreExact
BY DetectorInvHolds, InvIsExact, PTL

-----------------------------------------------------------------------------
(* The services.                                                            *)

LEMMA PartsAre ==
  ASSUME NEW S, NEW seq \in Seq(S), NEW K
  PROVE  LET parts == [i \in DOMAIN seq |-> IF i \in K THEN <<seq[i]>> ELSE << >>]
         IN parts \in Seq(Seq(S)) /\ DOMAIN parts = DOMAIN seq
<1>1. /\ Len(seq) \in Nat /\ DOMAIN seq = 1..Len(seq)
      /\ \A i \in DOMAIN seq : seq[i] \in S
  OBVIOUS
<1> DEFINE part(i) == IF i \in K THEN <<seq[i]>> ELSE << >>
<1>2. \A i \in DOMAIN seq : part(i) \in Seq(S)
  <2>1. << >> \in Seq(S) /\ \A x \in S : <<x>> \in Seq(S)
    OBVIOUS
  <2> QED BY <1>1, <2>1
<1> HIDE DEF part
<1>3. [i \in 1..Len(seq) |-> part(i)] \in Seq(Seq(S))
  BY <1>1, <1>2
<1> QED BY <1>1, <1>3 DEF part

LEMMA PickedIs ==
  ASSUME NEW S, NEW seq \in Seq(S), NEW K \in SUBSET DOMAIN seq
  PROVE  /\ Picked(seq, K) \in Seq(S)
         /\ Range(Picked(seq, K)) = {seq[i] : i \in K}
<1> DEFINE parts == [i \in DOMAIN seq |-> IF i \in K THEN <<seq[i]>> ELSE << >>]
<1>1. parts \in Seq(Seq(S)) /\ DOMAIN parts = DOMAIN seq
  BY PartsAre
<1>2. \A i \in DOMAIN seq : Range(parts[i]) = IF i \in K THEN {seq[i]} ELSE {}
  BY DEF Range
<1>3. Picked(seq, K) = FlattenSeq(parts)
  BY DEF Picked
<1> HIDE DEF parts
<1>4. /\ FlattenSeq(parts) \in Seq(S)
      /\ Range(FlattenSeq(parts)) = UNION {Range(parts[i]) : i \in DOMAIN parts}
  BY <1>1, FlattenIs
<1>5. UNION {Range(parts[i]) : i \in DOMAIN parts} = {seq[i] : i \in K}
  BY <1>1, <1>2
<1> QED BY <1>3, <1>4, <1>5

(* As many as there are positions.                                           *)
LEMMA PickedCounts ==
  ASSUME NEW S, NEW seq \in Seq(S), NEW K \in SUBSET DOMAIN seq
  PROVE  Len(Picked(seq, K)) = Cardinality(K)
<1> DEFINE parts == [i \in DOMAIN seq |-> IF i \in K THEN <<seq[i]>> ELSE << >>]
           n == Len(parts)
<1>1. parts \in Seq(Seq(S)) /\ DOMAIN parts = DOMAIN seq /\ n \in Nat /\ DOMAIN seq = 1..n
  <2>1. parts \in Seq(Seq(S)) /\ DOMAIN parts = DOMAIN seq
    BY PartsAre
  <2> HIDE DEF parts
  <2> QED BY <2>1
<1>2. \A i \in 1..n : Len(parts[i]) = IF i \in K THEN 1 ELSE 0
  BY <1>1
<1>3. Picked(seq, K) = FlattenSeq(parts)
  BY DEF Picked
<1> HIDE DEF parts, n
<1>4. CASE n = 0
  <2>1. K = {}
    BY <1>1, <1>4
  <2>2. FlattenSeq(parts) = << >>
    BY <1>1, <1>4 DEF FlattenSeq, n
  <2> QED BY <1>3, <2>1, <2>2, FS_EmptySet
<1>5. CASE n # 0
  <2> DEFINE Upto(i) == K \cap (1..i)
             At(i) == parts[i]
  <2>1. PICK f \in [1..n -> Seq(S)] : f = Flat(f, parts) /\ FlattenSeq(parts) = f[n]
    BY <1>1, <1>5, FlatteningIs DEF n
  <2>2. \A i \in 1..n : f[i] = IF i = 1 THEN parts[i] ELSE f[i - 1] \o parts[i]
    BY <2>1 DEF Flat, n
  <2> DEFINE T == {i \in 1..n : IsFiniteSet(Upto(i)) /\ Len(f[i]) = Cardinality(Upto(i))}
  <2>3. 1 \in T
    <3>1. 1 \in 1..n /\ 1..1 = {1}
      BY <1>1, <1>5
    <3>2. Upto(1) = IF 1 \in K THEN {1} ELSE {}
      BY <3>1
    <3>3. f[1] = parts[1]
      BY <2>2, <3>1
    <3>4. IsFiniteSet(Upto(1)) /\ Cardinality(Upto(1)) = IF 1 \in K THEN 1 ELSE 0
      <4>1. IsFiniteSet({1}) /\ Cardinality({1}) = 1
        BY FS_Singleton
      <4> HIDE DEF Upto
      <4> QED BY <3>2, <4>1, FS_EmptySet
    <3>5. Len(f[1]) = IF 1 \in K THEN 1 ELSE 0
      BY <1>2, <3>1, <3>3
    <3> HIDE DEF Upto
    <3> QED BY <3>1, <3>4, <3>5
  <2>4. ASSUME NEW i \in 1..n, i < n, i \in T PROVE i + 1 \in T
    <3> DEFINE k == i + 1
    <3>1. k \in 1..n /\ k # 1 /\ k - 1 = i /\ k \notin 1..i
      BY <1>1, <2>4
    <3>2. f[k] = f[i] \o parts[k] /\ f[i] \in Seq(S) /\ parts[k] \in Seq(S)
      <4>1. f[i] \in Seq(S) /\ parts[k] \in Seq(S)
        <5>1. \A j \in 1..n : parts[j] \in Seq(S)
          BY <1>1
        <5> QED BY <2>1, <2>4, <3>1, <5>1
      <4> HIDE DEF k
      <4> QED BY <2>2, <3>1, <4>1
    <3>3. Len(f[k]) = Len(f[i]) + Len(parts[k])
      <4> HIDE DEF k
      <4> QED BY <3>2
    <3>4. Upto(k) = IF k \in K THEN Upto(i) \cup {k} ELSE Upto(i)
      <4>1. \A j : j \in 1..k <=> j \in 1..i \/ j = k
        BY <1>1
      <4> QED BY <4>1
    <3>5. /\ IsFiniteSet(Upto(k))
          /\ Cardinality(Upto(k)) = Cardinality(Upto(i)) + (IF k \in K THEN 1 ELSE 0)
      <4>1. k \notin Upto(i) /\ IsFiniteSet(Upto(i)) /\ Cardinality(Upto(i)) \in Nat
        BY <2>4, <3>1, FS_CardinalityType
      <4> HIDE DEF Upto, k
      <4>2. CASE k \in K
        <5> DEFINE U == Upto(i)
        <5>1. /\ IsFiniteSet(U \cup {k})
              /\ Cardinality(U \cup {k}) = Cardinality(U) + 1
          <6> HIDE DEF U
          <6>1. IsFiniteSet(U) /\ k \notin U
            BY <4>1 DEF U
          <6> QED BY <6>1, FS_AddElement
        <5> QED BY <3>4, <4>2, <5>1
      <4>3. CASE k \notin K
        BY <3>4, <4>1, <4>3
      <4> QED BY <4>2, <4>3
    <3>6. Len(parts[k]) = IF k \in K THEN 1 ELSE 0
      BY <1>2, <3>1
    <3> QED BY <2>4, <3>1, <3>3, <3>5, <3>6
  <2>5. \A i \in 1..n : i \in T
    <3> HIDE DEF T
    <3> QED BY <1>1, <1>5, <2>3, <2>4, Upwards
  <2>6. n \in 1..n /\ Upto(n) = K
    BY <1>1, <1>5
  <2> QED BY <1>3, <2>1, <2>5, <2>6
<1> QED BY <1>4, <1>5

Firsts(seq) == {i \in DOMAIN seq : \A j \in 1..(i - 1) : seq[j] # seq[i]}

(* A sequence without its repetitions has each of its elements once.         *)
LEMMA FirstsDiffer ==
  ASSUME NEW S, NEW seq \in Seq(S)
  PROVE  /\ Picked(seq, Firsts(seq)) \in Seq(S)
         /\ Range(Picked(seq, Firsts(seq))) = Range(seq)
         /\ Len(Picked(seq, Firsts(seq))) = Cardinality(Range(seq))
<1> DEFINE K == Firsts(seq)
           f == [i \in K |-> seq[i]]
<1>1. /\ K \in SUBSET DOMAIN seq /\ Len(seq) \in Nat /\ DOMAIN seq = 1..Len(seq)
      /\ \A i \in K : \A j \in DOMAIN seq : j < i => seq[j] # seq[i]
  BY DEF Firsts
<1>2. ASSUME NEW i \in DOMAIN seq PROVE \E k \in K : seq[k] = seq[i]
  <2> DEFINE Same == {j \in DOMAIN seq : seq[j] = seq[i]}
  <2>1. Same \in SUBSET Nat /\ Same # {}
    BY <1>1
  <2>2. PICK k \in Same : \A j \in Same : k <= j
    BY <2>1, LeastElement DEF IsFirst
  <2>3. \A j \in 1..(k - 1) : j \in DOMAIN seq /\ ~(k <= j)
    BY <1>1
  <2>4. k \in K
    BY <2>2, <2>3 DEF Firsts
  <2> QED BY <2>4
<1>3. {seq[i] : i \in K} = Range(seq)
  BY <1>1, <1>2 DEF Range
<1>4. Cardinality(K) = Cardinality(Range(seq))
  <2>1. \A i, j \in K : i # j => seq[i] # seq[j]
    BY <1>1
  <2>2. f \in Bijection(K, Range(seq))
    <3> HIDE DEF K
    <3>1. f \in [K -> Range(seq)] /\ \A i \in K : f[i] = seq[i]
      BY <1>3
    <3>2. \A x \in Range(seq) : \E i \in K : f[i] = x
      BY <1>3
    <3> HIDE DEF f, K
    <3>3. DOMAIN f = K /\ \A i, j \in K : f[i] = f[j] => i = j
      BY <2>1, <3>1
    <3>4. IsInjective(f)
      BY <3>3 DEF IsInjective
    <3> QED BY <3>1, <3>2, <3>4 DEF Bijection, Injection, Surjection
  <2>3. IsFiniteSet(K)
    <3>1. IsFiniteSet(1..Len(seq))
      BY <1>1, FS_Interval
    <3> HIDE DEF K
    <3> QED BY <1>1, <3>1, FS_Subset
  <2> HIDE DEF K, f
  <2> QED BY <2>2, <2>3, FS_Bijection DEF ExistsBijection
<1> HIDE DEF K
<1> QED BY <1>1, <1>3, <1>4, PickedIs, PickedCounts DEF K

-----------------------------------------------------------------------------
(* Sorting.                                                                 *)

Ascends(s, n) == \A i, j \in 1..n : i < j => Earlier(s[i], s[j])

LEMMA EarliestExists ==
  ASSUME NEW S \in SUBSET (Nat \X Nat), S # {}
  PROVE  \E m \in S : \A q \in S \ {m} : Earlier(m, q)
<1> DEFINE A == {p[1] : p \in S}
<1>1. A \in SUBSET Nat /\ A # {}
  OBVIOUS
<1>2. PICK a \in A : \A x \in A : a <= x
  BY <1>1, LeastElement DEF IsFirst
<1> DEFINE B == {p[2] : p \in {q \in S : q[1] = a}}
<1>3. B \in SUBSET Nat /\ B # {}
  BY <1>2
<1>4. PICK b \in B : \A x \in B : b <= x
  BY <1>3, LeastElement DEF IsFirst
<1>5. PICK m \in S : m[1] = a /\ m[2] = b
  BY <1>4
<1>6. ASSUME NEW q \in S, q # m PROVE Earlier(m, q)
  <2>1. /\ a \in Nat /\ b \in Nat /\ q[1] \in Nat /\ q[2] \in Nat
        /\ q = <<q[1], q[2]>> /\ m = <<m[1], m[2]>> /\ a <= q[1]
    BY <1>1, <1>2, <1>3, <1>4
  <2>2. q[1] = a => b <= q[2]
    BY <1>4
  <2>3. q[1] = a => b # q[2]
    BY <1>5, <1>6, <2>1
  <2> HIDE DEF A, B
  <2> QED BY <1>5, <2>1, <2>2, <2>3 DEF Earlier
<1> QED BY <1>6

LEMMA SortingExists ==
  ASSUME NEW S \in SUBSET (Nat \X Nat), IsFiniteSet(S)
  PROVE  \E s \in [1..Cardinality(S) -> S] : Ascends(s, Cardinality(S))
<1> DEFINE n == Cardinality(S)
           Sortable(U) == \E s \in [1..Cardinality(U) -> U] : Ascends(s, Cardinality(U))
           T == {k \in 0..n : \A U \in SUBSET S : Cardinality(U) = k => Sortable(U)}
<1>1. n \in Nat /\ \A U \in SUBSET S : IsFiniteSet(U) /\ Cardinality(U) \in Nat
  BY FS_CardinalityType, FS_Subset
<1>2. 0 \in T
  <2> SUFFICES ASSUME NEW U \in SUBSET S, Cardinality(U) = 0 PROVE Sortable(U)
    BY <1>1
  <2>1. << >> \in [1..0 -> U] /\ Ascends(<< >>, 0)
    BY DEF Ascends
  <2> QED BY <2>1
<1>3. ASSUME NEW k \in 0..n, k < n, k \in T PROVE k + 1 \in T
  <2> DEFINE l == k + 1
  <2>1. l \in 1..n /\ l # 0 /\ l - 1 = k
    BY <1>1, <1>3
  <2> HIDE DEF l
  <2>2. ASSUME NEW U \in SUBSET S, Cardinality(U) = l PROVE Sortable(U)
    <3>1. U # {}
      BY <2>1, <2>2, FS_EmptySet
    <3>2. PICK m \in U : \A q \in U \ {m} : Earlier(m, q)
      BY <3>1, EarliestExists
    <3> DEFINE W == U \ {m}
    <3>3. Cardinality(W) = k /\ W \in SUBSET S
      BY <1>1, <2>1, <2>2, FS_RemoveElement
    <3>4. PICK s \in [1..k -> W] : Ascends(s, k)
      BY <1>3, <3>3
    <3> DEFINE t == [i \in 1..l |-> IF i = 1 THEN m ELSE s[i - 1]]
    <3>5. \A i \in 1..l : i # 1 => i - 1 \in 1..k /\ s[i - 1] \in W
      <4>1. \A i \in 1..l : i # 1 => i - 1 \in 1..k
        BY <1>3, <2>1
      <4> QED BY <4>1, <3>4
    <3>6. t \in [1..l -> U]
      BY <3>5
    <3>7. ASSUME NEW i \in 1..l, NEW j \in 1..l, i < j PROVE Earlier(t[i], t[j])
      <4>1. j # 1 /\ t[j] = s[j - 1] /\ s[j - 1] \in W
        BY <2>1, <3>5, <3>7
      <4>2. CASE i = 1
        BY <3>2, <4>1, <4>2
      <4>3. CASE i # 1
        <5>1. t[i] = s[i - 1] /\ i - 1 \in 1..k /\ j - 1 \in 1..k /\ i - 1 < j - 1
          BY <2>1, <3>5, <3>7, <4>1, <4>3
        <5> HIDE DEF t
        <5> QED BY <3>4, <4>1, <5>1 DEF Ascends
      <4> QED BY <4>2, <4>3
    <3>8. Ascends(t, l)
      <4> HIDE DEF t
      <4> QED BY <3>7 DEF Ascends
    <3> HIDE DEF t
    <3> QED BY <2>2, <3>6, <3>8
  <2>3. l \in T
    <3> HIDE DEF Sortable
    <3> QED BY <2>1, <2>2
  <2> QED BY <2>3 DEF l
<1>4. \A k \in 0..n : k \in T
  <2> HIDE DEF T, n
  <2> QED BY <1>1, <1>2, <1>3, Upwards
<1>5. n \in 0..n
  BY <1>1
<1> HIDE DEF Sortable
<1>6. Sortable(S)
  BY <1>4, <1>5
<1> QED BY <1>6 DEF Sortable

(* All of it, each element once.                                             *)
LEMMA SortedIs ==
  ASSUME NEW S \in SUBSET (Nat \X Nat), IsFiniteSet(S)
  PROVE  /\ Sorted(S) \in Seq(Nat \X Nat)
         /\ Range(Sorted(S)) = S
         /\ Len(Sorted(S)) = Cardinality(S)
<1> DEFINE n == Cardinality(S)
           s == Sorted(S)
<1>1. n \in Nat
  BY FS_CardinalityType
<1>2. s \in [1..n -> S] /\ Ascends(s, n)
  BY SortingExists DEF Sorted, Ascends
<1> HIDE DEF s, n
<1>3. ASSUME NEW i \in 1..n, NEW j \in 1..n, i < j PROVE s[i] # s[j]
  <2>1. Earlier(s[i], s[j]) /\ s[i] \in Nat \X Nat
    BY <1>2, <1>3 DEF Ascends
  <2>2. ~Earlier(s[i], s[i])
    BY <2>1 DEF Earlier
  <2> QED BY <2>1, <2>2
<1>4. \A i, j \in 1..n : s[i] = s[j] => i = j
  <2>1. \A i, j \in 1..n : i = j \/ i < j \/ j < i
    BY <1>1
  <2> QED BY <1>3, <2>1
<1>5. s \in Injection(1..n, S)
  BY <1>2, <1>4 DEF Injection, IsInjective
<1>6. IsFiniteSet(1..n) /\ Cardinality(1..n) = n
  BY <1>1, FS_Interval
<1>7. s \in Surjection(1..n, S)
  BY <1>5, <1>6, FS_Injection DEF n
<1>8. s \in Seq(Nat \X Nat) /\ Len(s) = n /\ DOMAIN s = 1..n
  <2> DEFINE P == Nat \X Nat
  <2>1. s \in [1..n -> P]
    BY <1>2
  <2> HIDE DEF P
  <2>2. s \in Seq(P) /\ Len(s) = n /\ DOMAIN s = 1..n
    BY <1>1, <2>1
  <2> QED BY <2>2 DEF P
<1>9. Range(s) = S
  <2>1. \A x \in S : \E i \in 1..n : s[i] = x
    BY <1>7 DEF Surjection
  <2> QED BY <1>2, <1>8, <2>1 DEF Range
<1> QED BY <1>8, <1>9 DEF s, n

-----------------------------------------------------------------------------
(* What the scans see.                                                      *)

(* The prover does not place a literal in STRING.                            *)
Word == STRING \cup {"activemq"}

SightingType ==
  [name : Seq(Word), kind : ServiceKinds, locations : Seq(Nat \X Nat) \ {<< >>}]

Triples(s) == {<<s.name, s.kind, p>> : p \in Range(s.locations)}
TriplesOf(ss) == UNION {Triples(s) : s \in Range(ss)}

LEMMA TriplesOfBoth ==
  ASSUME NEW s \in Seq(SightingType), NEW t \in Seq(SightingType)
  PROVE  s \o t \in Seq(SightingType) /\ TriplesOf(s \o t) = TriplesOf(s) \cup TriplesOf(t)
<1> DEFINE T == SightingType
<1>1. s \in Seq(T) /\ t \in Seq(T)
  OBVIOUS
<1> HIDE DEF T
<1>2. s \o t \in Seq(T) /\ Range(s \o t) = Range(s) \cup Range(t)
  BY <1>1, RangeOfBoth
<1>3. TriplesOf(s \o t) = TriplesOf(s) \cup TriplesOf(t)
  BY <1>2 DEF TriplesOf
<1> QED BY <1>2, <1>3 DEF T

LEMMA NoTriples ==
  << >> \in Seq(SightingType) /\ TriplesOf(<< >>) = {}
<1> DEFINE T == SightingType
<1>1. << >> \in Seq(T) /\ Range(<< >>) = {}
  <2> HIDE DEF T
  <2> QED BY DEF Range
<1> QED BY <1>1 DEF TriplesOf

LEMMA OneSighting ==
  ASSUME NEW name \in Seq(Word), NEW kind \in ServiceKinds, NEW place \in Nat \X Nat
  PROVE  /\ Sighting(name, kind, <<place>>) \in SightingType
         /\ Triples(Sighting(name, kind, <<place>>)) = {<<name, kind, place>>}
<1>1. <<place>> \in Seq(Nat \X Nat) \ {<< >>} /\ Range(<<place>>) = {place}
  <2> DEFINE P == Nat \X Nat
  <2>1. place \in P
    OBVIOUS
  <2> HIDE DEF P
  <2>2. <<place>> \in Seq(P) \ {<< >>} /\ Range(<<place>>) = {place}
    BY <2>1 DEF Range
  <2> QED BY <2>2 DEF P
<1>2. Sighting(name, kind, <<place>>) \in SightingType
  BY <1>1 DEF Sighting, SightingType
<1>3. Triples(Sighting(name, kind, <<place>>)) = {<<name, kind, place>>}
  BY <1>1 DEF Sighting, Triples
<1> QED BY <1>2, <1>3

(* Sightings made of the elements of a sequence, one by one.                 *)
Mapped(e, seq) == [i \in DOMAIN seq |-> e[seq[i]]]

LEMMA OneByOne ==
  ASSUME NEW S, NEW seq \in Seq(S), NEW e \in [S -> SightingType]
  PROVE  /\ Mapped(e, seq) \in Seq(SightingType)
         /\ TriplesOf(Mapped(e, seq)) = UNION {Triples(e[x]) : x \in Range(seq)}
<1> DEFINE T == SightingType
           m == [i \in DOMAIN seq |-> e[seq[i]]]
<1>1. DOMAIN seq = 1..Len(seq) /\ Len(seq) \in Nat /\ \A i \in DOMAIN seq : seq[i] \in S
  OBVIOUS
<1>2. e \in [S -> T]
  OBVIOUS
<1> HIDE DEF T
<1>3. m \in [1..Len(seq) -> T]
  BY <1>1, <1>2
<1>4. m \in Seq(T)
  <2> HIDE DEF m
  <2> QED BY <1>1, <1>3
<1>5. Range(m) = {e[x] : x \in Range(seq)}
  BY <1>1 DEF Range
<1>6. TriplesOf(m) = UNION {Triples(e[x]) : x \in Range(seq)}
  <2> HIDE DEF m
  <2> QED BY <1>5 DEF TriplesOf
<1> QED BY <1>4, <1>6 DEF T, Mapped

(* A file.                                                                   *)
LEMMA ScanIs ==
  ASSUME NEW file \in AnyFile, NEW f \in Nat,
         \A u \in Range(file.urls) : u.scheme = "http" => u.host \in DOMAIN HostKind
  PROVE  /\ Scan(file, f) \in Seq(SightingType)
         /\ TriplesOf(Scan(file, f)) =
              {<<<<u.host>>, KindOfUrl(u), <<f, u.line>> >> :
                 u \in {v \in Range(file.urls) : External(v)}}
              \cup {<<<<s.name>>, s.kind, <<f, s.line>> >> : s \in Range(file.sdks)}
<1> DEFINE U == {u \in UrlSeen : u.scheme = "http" => u.host \in DOMAIN HostKind}
           D == {i \in DOMAIN file.urls : External(file.urls[i])}
           urls == Picked(file.urls, D)
           e == [u \in U |-> Sighting(<<u.host>>, KindOfUrl(u), << <<f, u.line>> >>)]
           d == [s \in SdkSeen |-> Sighting(<<s.name>>, s.kind, << <<f, s.line>> >>)]
           first == [i \in DOMAIN urls |-> e[urls[i]]]
           second == [i \in DOMAIN file.sdks |-> d[file.sdks[i]]]
<1>1. file.urls \in Seq(U) /\ file.sdks \in Seq(SdkSeen)
  <2>1. file.urls \in Seq(UrlSeen) /\ file.sdks \in Seq(SdkSeen)
    BY DEF AnyFile
  <2>2. \A i \in DOMAIN file.urls : file.urls[i] \in U
    BY <2>1 DEF Range
  <2> HIDE DEF U
  <2>3. file.urls \in Seq(U)
    BY <2>1, <2>2
  <2> QED BY <2>1, <2>3
<1>2. \A u \in U : u.host \in Word /\ u.line \in Nat /\ KindOfUrl(u) \in ServiceKinds
  BY HostsAssumption DEF UrlSeen, KindOfUrl, ServiceKinds, Range, Word
<1>3. \A u \in U : /\ e[u] \in SightingType
                   /\ Triples(e[u]) = {<<<<u.host>>, KindOfUrl(u), <<f, u.line>> >>}
  <2> SUFFICES ASSUME NEW u \in U
               PROVE  /\ e[u] \in SightingType
                      /\ Triples(e[u]) = {<<<<u.host>>, KindOfUrl(u), <<f, u.line>> >>}
    OBVIOUS
  <2>1. <<u.host>> \in Seq(Word) /\ <<f, u.line>> \in Nat \X Nat
    BY <1>2
  <2> QED BY <1>2, <2>1, OneSighting
<1>4. \A s \in SdkSeen : /\ d[s] \in SightingType
                         /\ Triples(d[s]) = {<<<<s.name>>, s.kind, <<f, s.line>> >>}
  <2> SUFFICES ASSUME NEW s \in SdkSeen
               PROVE  /\ d[s] \in SightingType
                      /\ Triples(d[s]) = {<<<<s.name>>, s.kind, <<f, s.line>> >>}
    OBVIOUS
  <2>1. s.name \in Word /\ s.kind \in ServiceKinds /\ s.line \in Nat
    BY DEF SdkSeen, Word
  <2>2. <<s.name>> \in Seq(Word) /\ <<f, s.line>> \in Nat \X Nat
    BY <2>1
  <2> QED BY <2>1, <2>2, OneSighting
<1>5. e \in [U -> SightingType] /\ d \in [SdkSeen -> SightingType]
  <2>1. e = [u \in U |-> e[u]] /\ d = [s \in SdkSeen |-> d[s]]
    OBVIOUS
  <2> HIDE DEF e, d, U
  <2> QED BY <1>3, <1>4, <2>1
<1>6. urls \in Seq(U) /\ Range(urls) = {v \in Range(file.urls) : External(v)}
  <2>1. urls \in Seq(U) /\ Range(urls) = {file.urls[i] : i \in D}
    <3> HIDE DEF U
    <3>1. D \in SUBSET DOMAIN file.urls
      OBVIOUS
    <3> HIDE DEF D
    <3> QED BY <1>1, <3>1, PickedIs
  <2>2. {file.urls[i] : i \in D} = {v \in Range(file.urls) : External(v)}
    BY DEF Range
  <2> QED BY <2>1, <2>2
<1>7. Scan(file, f) = first \o second
  <2>1. \A i \in DOMAIN urls : urls[i] \in U
    <3> HIDE DEF urls, U
    <3> QED BY <1>6
  <2>2. \A i \in DOMAIN file.sdks : file.sdks[i] \in SdkSeen
    BY <1>1
  <2>3. first = [i \in DOMAIN urls |->
           Sighting(<<urls[i].host>>, KindOfUrl(urls[i]), << <<f, urls[i].line>> >>)]
    <3> HIDE DEF urls, U
    <3> QED BY <2>1
  <2>4. second = [i \in DOMAIN file.sdks |->
           Sighting(<<file.sdks[i].name>>, file.sdks[i].kind, << <<f, file.sdks[i].line>> >>)]
    BY <2>2
  <2> HIDE DEF first, second
  <2> QED BY <2>3, <2>4 DEF Scan, Those
<1>8. /\ first \in Seq(SightingType)
      /\ TriplesOf(first) = UNION {Triples(e[u]) : u \in Range(urls)}
  <2>1. first = Mapped(e, urls)
    BY DEF Mapped
  <2> HIDE DEF e, U, urls, first
  <2> QED BY <1>5, <1>6, <2>1, OneByOne
<1>9. /\ second \in Seq(SightingType)
      /\ TriplesOf(second) = UNION {Triples(d[s]) : s \in Range(file.sdks)}
  <2> DEFINE sdks == file.sdks
  <2>1. sdks \in Seq(SdkSeen)
    BY <1>1
  <2>2. second = Mapped(d, sdks)
    BY DEF Mapped
  <2> HIDE DEF d, second, sdks
  <2>3. /\ second \in Seq(SightingType)
        /\ TriplesOf(second) = UNION {Triples(d[s]) : s \in Range(sdks)}
    BY <1>5, <2>1, <2>2, OneByOne
  <2> QED BY <2>3 DEF sdks
<1>10. UNION {Triples(e[u]) : u \in Range(urls)} =
         {<<<<u.host>>, KindOfUrl(u), <<f, u.line>> >> : u \in Range(urls)}
  <2>1. \A u \in Range(urls) : u \in U
    <3> HIDE DEF urls, U
    <3> QED BY <1>6 DEF Range
  <2> HIDE DEF e, U, urls
  <2> QED BY <1>3, <2>1
<1>11. UNION {Triples(d[s]) : s \in Range(file.sdks)} =
         {<<<<s.name>>, s.kind, <<f, s.line>> >> : s \in Range(file.sdks)}
  <2>1. \A s \in Range(file.sdks) : s \in SdkSeen
    BY <1>1 DEF Range
  <2> HIDE DEF d
  <2> QED BY <1>4, <2>1
<1> HIDE DEF first, second, urls, e, d, U
<1> QED BY <1>6, <1>7, <1>8, <1>9, <1>10, <1>11, TriplesOfBoth

(* The configuration.                                                        *)
LEMMA ConfigIs ==
  ASSUME NEW config, config.urls \in Seq(UrlSeen), config.constants \in Seq(ConstantSeen)
  PROVE  /\ ConfigSightings(config) \in Seq(SightingType)
         /\ GoService.config \in Nat =>
            TriplesOf(ConfigSightings(config)) =
              {<<<<u.host>>, KindOfScheme(u.scheme), <<GoService.config, u.line>> >> :
                 u \in {v \in Range(config.urls) : Hosted(v)}}
              \cup {<<<<c.root>>, KindOfConstant(c.suffix), <<GoService.config, c.line>> >> :
                      c \in {b \in Range(config.constants) : WithoutUrl(b)}}
<1> DEFINE g == GoService.config
           allUrls == config.urls
           allConstants == config.constants
           D == {i \in DOMAIN allUrls : Hosted(allUrls[i])}
           C == {i \in DOMAIN allConstants : WithoutUrl(allConstants[i])}
           urls == Picked(allUrls, D)
           constants == Picked(allConstants, C)
           e == [u \in UrlSeen |-> Sighting(<<u.host>>, KindOfScheme(u.scheme), << <<g, u.line>> >>)]
           d == [c \in ConstantSeen |->
                   Sighting(<<c.root>>, KindOfConstant(c.suffix), << <<g, c.line>> >>)]
           first == [i \in DOMAIN urls |-> e[urls[i]]]
           second == [i \in DOMAIN constants |-> d[constants[i]]]
<1>1. g \in Nat /\ allUrls \in Seq(UrlSeen) /\ allConstants \in Seq(ConstantSeen)
  BY RepositoriesAssumption
<1>2. \A u \in UrlSeen : u.host \in Word /\ u.line \in Nat /\ KindOfScheme(u.scheme) \in ServiceKinds
  BY DEF UrlSeen, KindOfScheme, ServiceKinds, Word
<1>3. \A c \in ConstantSeen : /\ c.root \in Word /\ c.line \in Nat
                               /\ KindOfConstant(c.suffix) \in ServiceKinds
  BY DEF ConstantSeen, KindOfConstant, ServiceKinds, Word
<1> HIDE DEF g
<1>4. \A u \in UrlSeen : /\ e[u] \in SightingType
                          /\ Triples(e[u]) = {<<<<u.host>>, KindOfScheme(u.scheme), <<g, u.line>> >>}
  <2> SUFFICES ASSUME NEW u \in UrlSeen
               PROVE  /\ e[u] \in SightingType
                      /\ Triples(e[u]) = {<<<<u.host>>, KindOfScheme(u.scheme), <<g, u.line>> >>}
    OBVIOUS
  <2>1. <<u.host>> \in Seq(Word) /\ <<g, u.line>> \in Nat \X Nat
    BY <1>1, <1>2
  <2> QED BY <1>2, <2>1, OneSighting
<1>5. \A c \in ConstantSeen :
         /\ d[c] \in SightingType
         /\ Triples(d[c]) = {<<<<c.root>>, KindOfConstant(c.suffix), <<g, c.line>> >>}
  <2> SUFFICES ASSUME NEW c \in ConstantSeen
               PROVE  /\ d[c] \in SightingType
                      /\ Triples(d[c]) = {<<<<c.root>>, KindOfConstant(c.suffix), <<g, c.line>> >>}
    OBVIOUS
  <2>1. <<c.root>> \in Seq(Word) /\ <<g, c.line>> \in Nat \X Nat
    BY <1>1, <1>3
  <2> QED BY <1>3, <2>1, OneSighting
<1>6. e \in [UrlSeen -> SightingType] /\ d \in [ConstantSeen -> SightingType]
  <2>1. e = [u \in UrlSeen |-> e[u]] /\ d = [c \in ConstantSeen |-> d[c]]
    OBVIOUS
  <2> HIDE DEF e, d
  <2> QED BY <1>4, <1>5, <2>1
<1> HIDE DEF allUrls, allConstants
<1>7. urls \in Seq(UrlSeen) /\ Range(urls) = {v \in Range(allUrls) : Hosted(v)}
  <2>1. urls \in Seq(UrlSeen) /\ Range(urls) = {allUrls[i] : i \in D}
    <3>1. D \in SUBSET DOMAIN allUrls
      OBVIOUS
    <3> HIDE DEF D
    <3> QED BY <1>1, <3>1, PickedIs
  <2>2. {allUrls[i] : i \in D} = {v \in Range(allUrls) : Hosted(v)}
    BY DEF Range
  <2> QED BY <2>1, <2>2
<1>8. constants \in Seq(ConstantSeen) /\ Range(constants) = {v \in Range(allConstants) : WithoutUrl(v)}
  <2>1. constants \in Seq(ConstantSeen) /\ Range(constants) = {allConstants[i] : i \in C}
    <3>1. C \in SUBSET DOMAIN allConstants
      OBVIOUS
    <3> HIDE DEF C
    <3> QED BY <1>1, <3>1, PickedIs
  <2>2. {allConstants[i] : i \in C} = {v \in Range(allConstants) : WithoutUrl(v)}
    BY DEF Range
  <2> QED BY <2>1, <2>2
<1>9. /\ \A i \in DOMAIN urls : urls[i] \in UrlSeen
      /\ \A i \in DOMAIN constants : constants[i] \in ConstantSeen
  <2> HIDE DEF urls, constants
  <2> QED BY <1>7, <1>8
<1>10. ConfigSightings(config) = first \o second
  <2>1. first = [i \in DOMAIN urls |->
           Sighting(<<urls[i].host>>, KindOfScheme(urls[i].scheme), << <<g, urls[i].line>> >>)]
    <3> HIDE DEF urls
    <3> QED BY <1>9
  <2>2. second = [i \in DOMAIN constants |->
           Sighting(<<constants[i].root>>, KindOfConstant(constants[i].suffix),
                    << <<g, constants[i].line>> >>)]
    <3> HIDE DEF constants
    <3> QED BY <1>9
  <2> HIDE DEF first, second
  <2> QED BY <2>1, <2>2 DEF ConfigSightings, Those, g, allUrls, allConstants
<1>11. /\ first \in Seq(SightingType)
       /\ TriplesOf(first) = UNION {Triples(e[u]) : u \in Range(urls)}
  <2>1. first = Mapped(e, urls)
    BY DEF Mapped
  <2>2. urls \in Seq(UrlSeen) /\ e \in [UrlSeen -> SightingType]
    BY <1>6, <1>7
  <2> HIDE DEF e, urls, first
  <2> QED BY <2>1, <2>2, OneByOne
<1>12. /\ second \in Seq(SightingType)
       /\ TriplesOf(second) = UNION {Triples(d[c]) : c \in Range(constants)}
  <2>1. second = Mapped(d, constants)
    BY DEF Mapped
  <2>2. constants \in Seq(ConstantSeen) /\ d \in [ConstantSeen -> SightingType]
    BY <1>6, <1>8
  <2> HIDE DEF d, constants, second
  <2> QED BY <2>1, <2>2, OneByOne
<1>13. UNION {Triples(e[u]) : u \in Range(urls)} =
         {<<<<u.host>>, KindOfScheme(u.scheme), <<g, u.line>> >> : u \in Range(urls)}
  <2>1. \A u \in Range(urls) : u \in UrlSeen
    BY <1>9 DEF Range
  <2> HIDE DEF e, urls
  <2> QED BY <1>4, <2>1
<1>14. UNION {Triples(d[c]) : c \in Range(constants)} =
         {<<<<c.root>>, KindOfConstant(c.suffix), <<g, c.line>> >> : c \in Range(constants)}
  <2>1. \A c \in Range(constants) : c \in ConstantSeen
    BY <1>9 DEF Range
  <2> HIDE DEF d, constants
  <2> QED BY <1>5, <2>1
<1> HIDE DEF first, second, urls, constants, e, d
<1> QED BY <1>7, <1>8, <1>10, <1>11, <1>12, <1>13, <1>14, TriplesOfBoth DEF g, allUrls, allConstants

(* An adapter.                                                               *)
LEMMA AdapterIs ==
  ASSUME NEW adapter \in AdapterFile
  PROVE  /\ AdapterSightings(adapter) \in Seq(SightingType)
         /\ TriplesOf(AdapterSightings(adapter)) =
              {<<s.name, s.kind, s.locations[1]>> : s \in Range(AdapterSightings(adapter))}
<1> DEFINE found == AdapterSightings(adapter)
           hosted == Those(adapter.urls, Hosted)
           urls == FirstOfHost(hosted)
           base == adapter.base
           One(s) == found = <<s>> /\ s \in SightingType /\ Triples(s) = {<<s.name, s.kind, s.locations[1]>>}
<1>1. adapter.urls \in Seq(UrlSeen) /\ base \in Word /\ adapter.path \in Nat
  BY DEF AdapterFile, Word
<1>2. hosted \in Seq(UrlSeen)
  <2> DEFINE D == {i \in DOMAIN adapter.urls : Hosted(adapter.urls[i])}
  <2>1. D \in SUBSET DOMAIN adapter.urls /\ hosted = Picked(adapter.urls, D)
    BY DEF Those
  <2> HIDE DEF D, hosted
  <2> QED BY <1>1, <2>1, PickedIs
<1> HIDE DEF hosted
<1>3. urls \in Seq(UrlSeen)
  <2> DEFINE K == {i \in DOMAIN hosted : \A j \in 1..(i - 1) : hosted[j].host # hosted[i].host}
  <2>1. K \in SUBSET DOMAIN hosted /\ urls = Picked(hosted, K)
    BY DEF FirstOfHost
  <2> HIDE DEF K, urls
  <2> QED BY <1>2, <2>1, PickedIs
<1>4. found = IF base = "" THEN << >>
        ELSE IF urls = << >>
          THEN <<Sighting(<<base>>, "other", << <<adapter.path, 0>> >>)>>
        ELSE <<Sighting(<<base>> \o [i \in DOMAIN urls |-> urls[i].host],
                        KindOfScheme(urls[1].scheme), << <<adapter.path, urls[1].line>> >>)>>
  BY DEF AdapterSightings, hosted
<1> HIDE DEF urls
<1>5. \A u \in UrlSeen : u.host \in Word /\ u.line \in Nat /\ KindOfScheme(u.scheme) \in ServiceKinds
  BY DEF UrlSeen, KindOfScheme, ServiceKinds, Word
<1>6. ASSUME NEW name \in Seq(Word), NEW kind \in ServiceKinds, NEW place \in Nat \X Nat
      PROVE  LET s == Sighting(name, kind, <<place>>)
             IN s \in SightingType /\ Triples(s) = {<<s.name, s.kind, s.locations[1]>>}
  BY <1>6, OneSighting DEF Sighting
<1>7. CASE base = ""
  <2>1. found = << >>
    BY <1>4, <1>7
  <2> HIDE DEF found
  <2>2. Range(found) = {}
    BY <2>1 DEF Range
  <2>3. found \in Seq(SightingType) /\ TriplesOf(found) = {}
    BY <2>1, NoTriples
  <2> QED BY <2>2, <2>3 DEF found
<1>8. ASSUME NEW s, One(s)
      PROVE  /\ found \in Seq(SightingType)
             /\ TriplesOf(found) = {<<t.name, t.kind, t.locations[1]>> : t \in Range(found)}
  <2> DEFINE T == SightingType
  <2> HIDE DEF found, T
  <2>1. found = <<s>> /\ s \in T /\ Range(<<s>>) = {s}
    BY <1>8 DEF Range, T
  <2>2. found \in Seq(T)
    BY <2>1
  <2>3. TriplesOf(found) = Triples(s)
    BY <2>1 DEF TriplesOf
  <2> QED BY <1>8, <2>1, <2>2, <2>3 DEF T
<1>9. CASE base # "" /\ urls = << >>
  <2>1. <<base>> \in Seq(Word) /\ <<adapter.path, 0>> \in Nat \X Nat /\ "other" \in ServiceKinds
    BY <1>1 DEF ServiceKinds
  <2>2. One(Sighting(<<base>>, "other", << <<adapter.path, 0>> >>))
    BY <1>4, <1>6, <1>9, <2>1
  <2> QED BY <1>8, <2>2
<1>10. CASE base # "" /\ urls # << >>
  <2> DEFINE hosts == [i \in DOMAIN urls |-> urls[i].host]
             kind == KindOfScheme(urls[1].scheme)
             place == <<adapter.path, urls[1].line>>
  <2>1. Len(urls) \in Nat /\ DOMAIN urls = 1..Len(urls) /\ \A i \in DOMAIN urls : urls[i] \in UrlSeen
    BY <1>3
  <2>2. 1 \in DOMAIN urls
    BY <1>3, <1>10, StartsSomewhere
  <2>3. kind \in ServiceKinds /\ place \in Nat \X Nat
    BY <1>1, <1>5, <2>1, <2>2
  <2>4. hosts \in Seq(Word)
    <3>1. hosts \in [1..Len(urls) -> Word]
      BY <1>5, <2>1
    <3> HIDE DEF hosts
    <3> QED BY <2>1, <3>1
  <2>5. <<base>> \o hosts \in Seq(Word)
    <3>1. <<base>> \in Seq(Word)
      BY <1>1
    <3> HIDE DEF hosts, base
    <3> QED BY <2>4, <3>1
  <2>6. found = <<Sighting(<<base>> \o hosts, kind, <<place>>)>>
    BY <1>4, <1>10
  <2> DEFINE name == <<base>> \o hosts
  <2> HIDE DEF name, kind, place, found
  <2>7. One(Sighting(name, kind, <<place>>))
    BY <1>6, <2>3, <2>5, <2>6 DEF name
  <2> QED BY <1>8, <2>7 DEF found
<1> QED BY <1>7, <1>9, <1>10

(* A helper.                                                                 *)
LEMMA HelperIs ==
  ASSUME NEW helper \in HelperFile, NEW config, config.destinations \in Seq(Nat)
  PROVE  /\ HelperSightings(helper, config) \in Seq(SightingType)
         /\ TriplesOf(HelperSightings(helper, config)) =
              IF ~helper.jms THEN {}
              ELSE {<<<<"activemq">>, "message_broker", p>> :
                      p \in {<<helper.path, 0>>}
                             \cup {<<GoService.config, x>> : x \in Range(config.destinations)}}
<1> DEFINE found == HelperSightings(helper, config)
           lines == config.destinations
           rest == [i \in DOMAIN lines |-> <<GoService.config, lines[i]>>]
           places == << <<helper.path, 0>> >> \o rest
           s == Sighting(<<"activemq">>, "message_broker", places)
           P == Nat \X Nat
<1>1. GoService.config \in Nat /\ helper.path \in Nat
  BY RepositoriesAssumption DEF HelperFile
<1>2. Len(lines) \in Nat /\ DOMAIN lines = 1..Len(lines) /\ \A i \in DOMAIN lines : lines[i] \in Nat
  OBVIOUS
<1>3. rest \in [1..Len(lines) -> P] /\ \A i \in DOMAIN lines : rest[i] = <<GoService.config, lines[i]>>
  BY <1>1, <1>2
<1>4. Range(rest) = {<<GoService.config, x>> : x \in Range(lines)}
  BY <1>2 DEF Range
<1>5. <<helper.path, 0>> \in P
  BY <1>1
<1>6. /\ places \in Seq(P) \ {<< >>}
      /\ Range(places) = {<<helper.path, 0>>} \cup {<<GoService.config, x>> : x \in Range(lines)}
  <2> DEFINE p == <<helper.path, 0>>
             one == <<p>>
  <2> HIDE DEF rest, P, p, lines
  <2>1. rest \in Seq(P) /\ one \in Seq(P) /\ Len(one) = 1 /\ Range(one) = {p}
    BY <1>2, <1>3, <1>5 DEF p, Range
  <2>2. places = one \o rest
    BY DEF p
  <2> HIDE DEF one, places
  <2>3. places \in Seq(P) /\ Range(places) = {p} \cup Range(rest)
    BY <2>1, <2>2, RangeOfBoth
  <2>4. Len(places) # 0
    <3>1. Len(one \o rest) = 1 + Len(rest) /\ Len(rest) \in Nat
      BY <2>1, LengthOfBoth
    <3> QED BY <2>2, <3>1
  <2>5. places # << >>
    BY <2>4
  <2> QED BY <1>4, <2>3, <2>5 DEF p, lines
<1> HIDE DEF places
<1>7. s \in SightingType /\ Triples(s) = {<<<<"activemq">>, "message_broker", p>> : p \in Range(places)}
  <2>1. <<"activemq">> \in Seq(Word) /\ "message_broker" \in ServiceKinds
    <3>1. "message_broker" \in ServiceKinds
      BY DEF ServiceKinds
    <3>2. <<"activemq">> \in Seq(Word)
      <4> DEFINE name == "activemq"
      <4>1. name \in Word
        BY DEF Word
      <4> HIDE DEF name
      <4>2. <<name>> \in Seq(Word)
        BY <4>1, OneLong
      <4> QED BY <4>2 DEF name
    <3> QED BY <3>1, <3>2
  <2>2. /\ s.name = <<"activemq">> /\ s.kind = "message_broker" /\ s.locations = places
        /\ s = [name |-> s.name, kind |-> s.kind, locations |-> s.locations]
    BY DEF Sighting
  <2> HIDE DEF s
  <2>3. s \in SightingType
    BY <1>6, <2>1, <2>2 DEF SightingType
  <2>4. Triples(s) = {<<<<"activemq">>, "message_broker", p>> : p \in Range(places)}
    BY <2>2 DEF Triples
  <2> QED BY <2>3, <2>4
<1>8. CASE ~helper.jms
  <2>1. found = << >>
    BY <1>8 DEF HelperSightings
  <2> HIDE DEF found
  <2>2. found \in Seq(SightingType) /\ TriplesOf(found) = {}
    BY <2>1, NoTriples
  <2> QED BY <1>8, <2>2 DEF found
<1>9. CASE helper.jms
  <2> DEFINE T == SightingType
  <2>1. found = <<s>>
    BY <1>9 DEF HelperSightings, places
  <2> HIDE DEF found, s, T
  <2>2. found \in Seq(T) /\ Range(found) = {s}
    BY <1>7, <2>1 DEF Range, T
  <2>3. TriplesOf(found) = Triples(s)
    BY <2>2 DEF TriplesOf
  <2>4. TriplesOf(found) =
          {<<<<"activemq">>, "message_broker", p>> :
             p \in {<<helper.path, 0>>} \cup {<<GoService.config, x>> : x \in Range(lines)}}
    BY <1>6, <1>7, <2>3
  <2>5. found \in Seq(SightingType)
    BY <2>2 DEF T
  <2> QED BY <1>9, <2>4, <2>5 DEF found
<1> QED BY <1>8, <1>9

-----------------------------------------------------------------------------
(* The sightings of one name.                                               *)

SightingsTyped == sightings \in Seq(SightingType)

TriplesWith(n) == {t \in TriplesOf(sightings) : t[1] = n}

LEMMA SightingsAre ==
  ASSUME SightingsTyped
  PROVE  /\ Len(sightings) \in Nat /\ DOMAIN sightings = 1..Len(sightings)
         /\ \A i \in DOMAIN sightings :
              /\ sightings[i] \in SightingType
              /\ sightings[i].locations \in Seq(Nat \X Nat)
              /\ \E p \in Range(sightings[i].locations) : p \in Nat \X Nat
<1> DEFINE T == SightingType
<1>1. sightings \in Seq(T)
  BY DEF SightingsTyped
<1>2. /\ Len(sightings) \in Nat /\ DOMAIN sightings = 1..Len(sightings)
      /\ \A i \in DOMAIN sightings : sightings[i] \in T
  <2> HIDE DEF T
  <2> QED BY <1>1
<1>3. ASSUME NEW s \in T
      PROVE  s.locations \in Seq(Nat \X Nat) /\ \E p \in Range(s.locations) : p \in Nat \X Nat
  <2> DEFINE P == Nat \X Nat
             l == s.locations
  <2>1. l \in Seq(P) /\ l # << >>
    BY DEF SightingType
  <2> HIDE DEF P, l
  <2>2. 1 \in DOMAIN l /\ l[1] \in P
    <3>1. 1 \in DOMAIN l
      BY <2>1, StartsSomewhere
    <3> QED BY <2>1, <3>1
  <2>3. l[1] \in Range(l)
    BY <2>2 DEF Range
  <2> QED BY <2>1, <2>2, <2>3 DEF P, l
<1> QED BY <1>2, <1>3

LEMMA TriplesAre ==
  ASSUME SightingsTyped
  PROVE  /\ Names = {t[1] : t \in TriplesOf(sightings)}
         /\ \A n : /\ {t[2] : t \in TriplesWith(n)} = {sightings[i].kind : i \in Named(n)}
                  /\ {t[3] : t \in TriplesWith(n)} = UNION {Range(sightings[i].locations) : i \in Named(n)}
<1>1. \A t : t \in TriplesOf(sightings) <=>
         \E i \in DOMAIN sightings : \E p \in Range(sightings[i].locations) :
           t = <<sightings[i].name, sightings[i].kind, p>>
  BY DEF TriplesOf, Triples, Range
<1>2. \A i \in DOMAIN sightings : \E p : p \in Range(sightings[i].locations)
  BY SightingsAre
<1>3. Names = {t[1] : t \in TriplesOf(sightings)}
  <2>1. ASSUME NEW i \in DOMAIN sightings
        PROVE  \E t \in TriplesOf(sightings) : t[1] = sightings[i].name
    <3>1. PICK p : p \in Range(sightings[i].locations)
      BY <1>2
    <3> DEFINE t == <<sightings[i].name, sightings[i].kind, p>>
    <3>2. t \in TriplesOf(sightings) /\ t[1] = sightings[i].name
      BY <1>1, <3>1
    <3> QED BY <3>2
  <2>2. ASSUME NEW t \in TriplesOf(sightings)
        PROVE  \E i \in DOMAIN sightings : sightings[i].name = t[1]
    BY <1>1
  <2>3. \A x : x \in Names <=> \E i \in DOMAIN sightings : sightings[i].name = x
    BY DEF Names
  <2>4. \A x : x \in Names <=> x \in {t[1] : t \in TriplesOf(sightings)}
    BY <2>1, <2>2, <2>3
  <2> QED BY <2>4
<1>4. ASSUME NEW n
      PROVE  /\ {t[2] : t \in TriplesWith(n)} = {sightings[i].kind : i \in Named(n)}
             /\ {t[3] : t \in TriplesWith(n)} = UNION {Range(sightings[i].locations) : i \in Named(n)}
  <2>1. \A t : t \in TriplesWith(n) <=>
          \E i \in Named(n) : \E p \in Range(sightings[i].locations) :
            t = <<n, sightings[i].kind, p>>
    BY <1>1 DEF TriplesWith, Named
  <2>2. \A i \in Named(n) : \E p : p \in Range(sightings[i].locations)
    BY <1>2 DEF Named
  <2>3. {t[2] : t \in TriplesWith(n)} = {sightings[i].kind : i \in Named(n)}
    <3>1. ASSUME NEW i \in Named(n)
          PROVE  \E t \in TriplesWith(n) : t[2] = sightings[i].kind
      <4>1. PICK p : p \in Range(sightings[i].locations)
        BY <2>2
      <4> DEFINE t == <<n, sightings[i].kind, p>>
      <4>2. t \in TriplesWith(n) /\ t[2] = sightings[i].kind
        BY <2>1, <4>1
      <4> QED BY <4>2
    <3>2. ASSUME NEW t \in TriplesWith(n)
          PROVE  \E i \in Named(n) : sightings[i].kind = t[2]
      BY <2>1
    <3>3. \A x : x \in {t[2] : t \in TriplesWith(n)} <=> x \in {sightings[i].kind : i \in Named(n)}
      BY <3>1, <3>2
    <3> QED BY <3>3
  <2>4. {t[3] : t \in TriplesWith(n)} = UNION {Range(sightings[i].locations) : i \in Named(n)}
    <3>1. ASSUME NEW i \in Named(n), NEW p \in Range(sightings[i].locations)
          PROVE  \E t \in TriplesWith(n) : t[3] = p
      <4> DEFINE t == <<n, sightings[i].kind, p>>
      <4>1. t \in TriplesWith(n) /\ t[3] = p
        BY <2>1
      <4> QED BY <4>1
    <3>2. ASSUME NEW t \in TriplesWith(n)
          PROVE  \E i \in Named(n) : t[3] \in Range(sightings[i].locations)
      BY <2>1
    <3>3. \A x : x \in {t[3] : t \in TriplesWith(n)} <=>
            x \in UNION {Range(sightings[i].locations) : i \in Named(n)}
      BY <3>1, <3>2
    <3> QED BY <3>3
  <2> QED BY <2>3, <2>4
<1> QED BY <1>3, <1>4

LEMMA NamedIs ==
  ASSUME SightingsTyped, NEW n \in Names
  PROVE  Named(n) \in SUBSET Nat /\ Named(n) # {} /\ Named(n) \in SUBSET DOMAIN sightings
BY SightingsAre DEF Names, Named

(* Its places.                                                               *)
PlacesOf(n) == [i \in DOMAIN sightings |->
               IF i \in Named(n) THEN sightings[i].locations ELSE << >>]

LEMMA PlacesAre ==
  ASSUME SightingsTyped, NEW n \in Names
  PROVE  /\ FlattenSeq(PlacesOf(n)) \in Seq(Nat \X Nat)
         /\ Range(FlattenSeq(PlacesOf(n))) = {t[3] : t \in TriplesWith(n)}
<1> DEFINE P == Nat \X Nat
           m == PlacesOf(n)
           part(i) == IF i \in Named(n) THEN sightings[i].locations ELSE << >>
<1>1. /\ Len(sightings) \in Nat /\ DOMAIN sightings = 1..Len(sightings)
      /\ \A i \in DOMAIN sightings : sightings[i].locations \in Seq(P)
  BY SightingsAre
<1> HIDE DEF P
<1>2. \A i \in DOMAIN sightings : part(i) \in Seq(P)
  <2>1. << >> \in Seq(P)
    OBVIOUS
  <2> QED BY <1>1, <2>1
<1>3. m = [i \in 1..Len(sightings) |-> part(i)]
  BY <1>1 DEF PlacesOf
<1>4. m \in Seq(Seq(P)) /\ DOMAIN m = DOMAIN sightings
  <2> HIDE DEF part, m
  <2> QED BY <1>1, <1>2, <1>3
<1>5. \A i \in DOMAIN sightings :
         Range(m[i]) = IF i \in Named(n) THEN Range(sightings[i].locations) ELSE {}
  BY DEF PlacesOf, Range
<1> HIDE DEF m
<1>6. /\ FlattenSeq(m) \in Seq(P)
      /\ Range(FlattenSeq(m)) = UNION {Range(m[i]) : i \in DOMAIN m}
  BY <1>4, FlattenIs
<1>7. UNION {Range(m[i]) : i \in DOMAIN m} = UNION {Range(sightings[i].locations) : i \in Named(n)}
  BY <1>4, <1>5, NamedIs
<1> QED BY <1>6, <1>7, TriplesAre DEF P, m

LEMMA LocationsAre ==
  ASSUME SightingsTyped, NEW n \in Names
  PROVE  /\ Range(LocationsOf(n)) = {t[3] : t \in TriplesWith(n)}
         /\ Len(LocationsOf(n)) = Cardinality(Range(LocationsOf(n)))
<1> DEFINE all == FlattenSeq(PlacesOf(n))
           P == Nat \X Nat
<1>1. all \in Seq(P) /\ Range(all) = {t[3] : t \in TriplesWith(n)}
  BY PlacesAre
<1>2. LocationsOf(n) = Picked(all, Firsts(all))
  BY DEF LocationsOf, PlacesOf, Firsts
<1> HIDE DEF all, P
<1>3. /\ Range(LocationsOf(n)) = Range(all)
      /\ Len(LocationsOf(n)) = Cardinality(Range(all))
  BY <1>1, <1>2, FirstsDiffer
<1> QED BY <1>1, <1>3

LEMMA SortedPlacesAre ==
  ASSUME SightingsTyped, NEW n \in Names,
         NEW places, places = UNION {Range(sightings[i].locations) : i \in Named(n)}
  PROVE  /\ Range(Sorted(places)) = {t[3] : t \in TriplesWith(n)}
         /\ Len(Sorted(places)) = Cardinality(Range(Sorted(places)))
<1> DEFINE all == FlattenSeq(PlacesOf(n))
<1>1. all \in Seq(Nat \X Nat) /\ Range(all) = {t[3] : t \in TriplesWith(n)}
  BY PlacesAre
<1>2. places = {t[3] : t \in TriplesWith(n)}
  BY TriplesAre
<1> HIDE DEF all
<1>3. IsFiniteSet(places) /\ places \in SUBSET (Nat \X Nat)
  BY <1>1, <1>2, RangeIsFinite
<1> QED BY <1>2, <1>3, SortedIs

(* Its kind.                                                                 *)
LEMMA BestKindIs ==
  ASSUME SightingsTyped, NEW n \in Names
  PROVE  /\ BestKind(n) \in {t[2] : t \in TriplesWith(n)}
         /\ \A k \in {t[2] : t \in TriplesWith(n)} : Rank(BestKind(n)) <= Rank(k)
<1> DEFINE rank(i) == Rank(sightings[i].kind)
           R == {rank(i) : i \in Named(n)}
<1>1. \A k : Rank(k) \in Nat
  BY DEF Rank
<1>2. R \in SUBSET Nat /\ R # {}
  BY <1>1, NamedIs
<1>3. PICK r \in R : \A q \in R : r <= q
  BY <1>2, LeastElement DEF IsFirst
<1> DEFINE B == {i \in Named(n) : rank(i) = r}
<1>4. B \in SUBSET Nat /\ B # {}
  BY <1>3, NamedIs
<1>5. PICK b \in B : \A i \in B : b <= i
  BY <1>4, LeastElement DEF IsFirst
<1> DEFINE Best(i) == \A j \in Named(n) :
             \/ Rank(sightings[i].kind) < Rank(sightings[j].kind)
             \/ Rank(sightings[i].kind) = Rank(sightings[j].kind) /\ i <= j
<1>6. Best(b)
  <2> SUFFICES ASSUME NEW j \in Named(n)
               PROVE  rank(b) < rank(j) \/ (rank(b) = rank(j) /\ b <= j)
    OBVIOUS
  <2>1. rank(b) = r /\ r <= rank(j) /\ rank(j) \in Nat /\ r \in Nat
    BY <1>1, <1>2, <1>3
  <2>2. rank(j) = r => b <= j
    BY <1>5
  <2> HIDE DEF rank
  <2> QED BY <2>1, <2>2
<1> DEFINE i == CHOOSE i \in Named(n) : Best(i)
<1>7. i \in Named(n) /\ Best(i)
  <2>1. \E x \in Named(n) : Best(x)
    BY <1>6
  <2> HIDE DEF Best
  <2> QED BY <2>1
<1>8. BestKind(n) = sightings[i].kind
  BY DEF BestKind
<1> HIDE DEF i
<1>9. \A j \in Named(n) : Rank(sightings[i].kind) <= Rank(sightings[j].kind)
  BY <1>1, <1>7
<1>10. {t[2] : t \in TriplesWith(n)} = {sightings[j].kind : j \in Named(n)}
  BY TriplesAre
<1> QED BY <1>7, <1>8, <1>9, <1>10

LEMMA FirstKindIs ==
  ASSUME SightingsTyped, NEW n \in Names
  PROVE  Coalesce[n].kind \in {t[2] : t \in TriplesWith(n)}
<1> DEFINE i == CHOOSE i \in Named(n) : \A j \in Named(n) : i <= j
<1>1. \E x \in Named(n) : \A j \in Named(n) : x <= j
  BY NamedIs, LeastElement DEF IsFirst
<1>2. i \in Named(n)
  BY <1>1
<1>3. Coalesce[n].kind = sightings[i].kind
  BY DEF Coalesce
<1> QED BY <1>2, <1>3, TriplesAre

Exact(result, triples) ==
  /\ DOMAIN result = {s[1] : s \in triples}
  /\ \A n \in DOMAIN result :
       /\ Range(result[n].locations) = {s[3] : s \in {t \in triples : t[1] = n}}
       /\ Len(result[n].locations) = Cardinality(Range(result[n].locations))
       /\ result[n].kind \in {s[2] : s \in {t \in triples : t[1] = n}}

Sharp(result, triples) ==
  \A n \in DOMAIN result : \A k \in {s[2] : s \in {t \in triples : t[1] = n}} :
    Rank(result[n].kind) <= Rank(k)

LEMMA BothExact ==
  ASSUME SightingsTyped
  PROVE  /\ Exact(Aggregate, TriplesOf(sightings)) /\ Sharp(Aggregate, TriplesOf(sightings))
         /\ Exact(Coalesce, TriplesOf(sightings))
<1>1. DOMAIN Aggregate = Names /\ DOMAIN Coalesce = Names
  BY DEF Aggregate, Coalesce
<1>2. Names = {s[1] : s \in TriplesOf(sightings)}
  BY TriplesAre
<1>3. ASSUME NEW n \in Names
      PROVE  /\ Range(Aggregate[n].locations) = {t[3] : t \in TriplesWith(n)}
             /\ Len(Aggregate[n].locations) = Cardinality(Range(Aggregate[n].locations))
             /\ Aggregate[n].kind = BestKind(n)
  BY SortedPlacesAre DEF Aggregate
<1>4. ASSUME NEW n \in Names
      PROVE  /\ Range(Coalesce[n].locations) = {t[3] : t \in TriplesWith(n)}
             /\ Len(Coalesce[n].locations) = Cardinality(Range(Coalesce[n].locations))
             /\ Coalesce[n].kind \in {t[2] : t \in TriplesWith(n)}
  <2>1. Coalesce[n].locations = LocationsOf(n)
    BY DEF Coalesce
  <2> QED BY <2>1, LocationsAre, FirstKindIs
<1>5. Exact(Aggregate, TriplesOf(sightings))
  BY <1>1, <1>2, <1>3, BestKindIs DEF Exact, TriplesWith
<1>6. Sharp(Aggregate, TriplesOf(sightings))
  BY <1>1, <1>3, BestKindIs DEF Sharp, TriplesWith
<1>7. Exact(Coalesce, TriplesOf(sightings))
  BY <1>1, <1>2, <1>4 DEF Exact, TriplesWith
<1> QED BY <1>5, <1>6, <1>7

-----------------------------------------------------------------------------
(* The passes.                                                              *)

FilesPassed ==
  IF servicePass = "files" THEN 1..(serviceFile - 1) ELSE DOMAIN serviceRepo.files

AdaptersPassed ==
  CASE servicePass = "config" -> {}
    [] servicePass = "adapters" -> 1..(serviceFile - 1)
    [] OTHER -> DOMAIN serviceRepo.adapters

HelpersPassed ==
  CASE servicePass \in {"config", "adapters"} -> {}
    [] servicePass = "helpers" -> 1..(serviceFile - 1)
    [] OTHER -> DOMAIN serviceRepo.helpers

SeenSoFar ==
  IF serviceRepo.language = "go"
    THEN (IF servicePass = "config" THEN {} ELSE SeenInConfig)
         \cup (UNION {SeenInAdapter(a) : a \in AdaptersPassed})
         \cup (UNION {SeenInHelper(h) : h \in HelpersPassed})
  ELSE UNION {SeenInFile(f) : f \in FilesPassed}

PassInRange ==
  /\ serviceRepo \in ServiceRepositories
  /\ IF serviceRepo.language = "go"
       THEN servicePass \in {"config", "adapters", "helpers", "done"}
       ELSE servicePass \in {"files", "done"}
  /\ serviceFile \in Nat \ {0}
  /\ servicePass = "files" => serviceFile <= Len(serviceRepo.files) + 1
  /\ servicePass = "adapters" => serviceFile <= Len(serviceRepo.adapters) + 1
  /\ servicePass = "helpers" => serviceFile <= Len(serviceRepo.helpers) + 1
  /\ servicePass = "config" => serviceFile = 1

ServicesInv ==
  /\ PassInRange
  /\ SightingsTyped
  /\ TriplesOf(sightings) = SeenSoFar
  /\ ServicesAreExact

LEMMA RepositoryIs ==
  ASSUME serviceRepo \in ServiceRepositories
  PROVE  /\ serviceRepo.language = "go" =>
              /\ serviceRepo.config \in ConfigFile
              /\ Config.urls \in Seq(UrlSeen) /\ Config.constants \in Seq(ConstantSeen)
              /\ Config.destinations \in Seq(Nat)
              /\ serviceRepo.adapters \in Seq(AdapterFile) /\ serviceRepo.helpers \in Seq(HelperFile)
         /\ serviceRepo.language # "go" =>
              /\ serviceRepo.files \in Seq(AnyFile)
              /\ \A f \in DOMAIN serviceRepo.files : \A u \in Range(serviceRepo.files[f].urls) :
                   u.scheme = "http" => u.host \in DOMAIN HostKind
<1>1. CASE serviceRepo.language # "go"
  BY <1>1, RepositoriesAssumption
<1>2. CASE serviceRepo.language = "go"
  <2>1. /\ serviceRepo.config \in ConfigFile
        /\ serviceRepo.adapters \in Seq(AdapterFile) /\ serviceRepo.helpers \in Seq(HelperFile)
    BY <1>2, RepositoriesAssumption
  <2>2. /\ serviceRepo.config.urls \in Seq(UrlSeen)
        /\ serviceRepo.config.constants \in Seq(ConstantSeen)
        /\ serviceRepo.config.destinations \in Seq(Nat)
    BY <2>1 DEF ConfigFile
  <2>3. /\ Missing.urls \in Seq(UrlSeen) /\ Missing.constants \in Seq(ConstantSeen)
        /\ Missing.destinations \in Seq(Nat)
    BY DEF Missing
  <2>4. Config = serviceRepo.config \/ Config = Missing
    BY DEF Config
  <2> QED BY <1>2, <2>1, <2>2, <2>3, <2>4
<1> QED BY <1>1, <1>2

(* The files do not change under the scan.                                   *)
LEMMA SeenStays ==
  ASSUME serviceRepo' = serviceRepo
  PROVE  Seen' = Seen
BY DEF Seen, SeenInConfig, SeenInFile, SeenInAdapter, SeenInHelper, Config

LEMMA SoFarNext ==
  ASSUME serviceRepo' = serviceRepo
  PROVE  SeenSoFar' =
           IF serviceRepo.language = "go"
             THEN (IF servicePass' = "config" THEN {} ELSE SeenInConfig)
                  \cup (UNION {SeenInAdapter(a) : a \in AdaptersPassed'})
                  \cup (UNION {SeenInHelper(h) : h \in HelpersPassed'})
           ELSE UNION {SeenInFile(f) : f \in FilesPassed'}
BY DEF SeenSoFar, SeenInConfig, SeenInFile, SeenInAdapter, SeenInHelper, Config

(* One position further.                                                     *)
LEMMA OneFurther ==
  ASSUME NEW n \in Nat, NEW i \in 1..n
  PROVE  /\ 1..(i + 1 - 1) = (1..(i - 1)) \cup {i}
         /\ i + 1 \in Nat \ {0} /\ i + 1 <= n + 1
OBVIOUS

LEMMA TriplesStay ==
  ASSUME sightings' = sightings
  PROVE  TriplesOf(sightings)' = TriplesOf(sightings) /\ (SightingsTyped' <=> SightingsTyped)
BY DEF TriplesOf, SightingsTyped

(* What a step of a scan adds.                                               *)
LEMMA SeeAdds ==
  ASSUME SightingsTyped, NEW new \in Seq(SightingType), See(new)
  PROVE  /\ SightingsTyped'
         /\ TriplesOf(sightings)' = TriplesOf(sightings) \cup TriplesOf(new)
<1>1. sightings \in Seq(SightingType) /\ sightings' = sightings \o new
  BY DEF SightingsTyped, See
<1>2. /\ sightings \o new \in Seq(SightingType)
      /\ TriplesOf(sightings \o new) = TriplesOf(sightings) \cup TriplesOf(new)
  BY <1>1, TriplesOfBoth
<1>3. TriplesOf(sightings)' = TriplesOf(sightings')
  BY DEF TriplesOf
<1> QED BY <1>1, <1>2, <1>3 DEF SightingsTyped

LEMMA ServicesStartExact ==
  ServicesInit => ServicesInv
<1> SUFFICES ASSUME ServicesInit PROVE ServicesInv
  OBVIOUS
<1>1. serviceRepo \in ServiceRepositories /\ serviceFile = 1 /\ sightings = << >>
      /\ servicePass = IF serviceRepo.language = "go" THEN "config" ELSE "files"
  BY DEF ServicesInit
<1>2. PassInRange
  <2>1. serviceRepo.language # "go" => Len(serviceRepo.files) \in Nat
    BY <1>1, RepositoryIs
  <2> QED BY <1>1, <2>1 DEF PassInRange
<1>3. SightingsTyped /\ TriplesOf(sightings) = {}
  BY <1>1, NoTriples DEF SightingsTyped
<1>4. SeenSoFar = {}
  BY <1>1 DEF SeenSoFar, AdaptersPassed, HelpersPassed, FilesPassed
<1>5. ServicesAreExact
  BY <1>1 DEF ServicesAreExact
<1> QED BY <1>2, <1>3, <1>4, <1>5 DEF ServicesInv

LEMMA FilesStayExact ==
  ASSUME ServicesInv, ScanFile
  PROVE  ServicesInv'
<1> DEFINE f == serviceFile
           file == serviceRepo.files[f]
           new == IF file.skipped THEN << >> ELSE Scan(file, f)
<1>1. /\ servicePass = "files" /\ f <= Len(serviceRepo.files)
      /\ See(new) /\ serviceRepo' = serviceRepo /\ services' = services
      /\ servicePass' = "files" /\ serviceFile' = f + 1
  BY DEF ScanFile, See
<1>2. serviceRepo \in ServiceRepositories /\ serviceRepo.language # "go" /\ f \in Nat \ {0}
  BY <1>1 DEF ServicesInv, PassInRange
<1>3. serviceRepo.files \in Seq(AnyFile) /\ Len(serviceRepo.files) \in Nat
      /\ DOMAIN serviceRepo.files = 1..Len(serviceRepo.files)
  BY <1>2, RepositoryIs
<1>4. f \in 1..Len(serviceRepo.files) /\ file \in AnyFile
  BY <1>1, <1>2, <1>3
<1>5. new \in Seq(SightingType) /\ TriplesOf(new) = SeenInFile(f)
  <2>1. CASE file.skipped
    BY <2>1, NoTriples DEF SeenInFile
  <2>2. CASE ~file.skipped
    <3>1. \A u \in Range(file.urls) : u.scheme = "http" => u.host \in DOMAIN HostKind
      BY <1>2, <1>3, <1>4, RepositoryIs
    <3> DEFINE g == file
    <3>2. new = Scan(g, f) /\ g \in AnyFile
      BY <1>4, <2>2
    <3>3. SeenInFile(f) =
            {<<<<u.host>>, KindOfUrl(u), <<f, u.line>> >> : u \in {v \in Range(g.urls) : External(v)}}
            \cup {<<<<s.name>>, s.kind, <<f, s.line>> >> : s \in Range(g.sdks)}
      BY <2>2 DEF SeenInFile
    <3>4. \A u \in Range(g.urls) : u.scheme = "http" => u.host \in DOMAIN HostKind
      BY <3>1
    <3> HIDE DEF g, new
    <3> QED BY <1>2, <3>2, <3>3, <3>4, ScanIs
  <2> QED BY <2>1, <2>2
<1> HIDE DEF new
<1>6. SightingsTyped' /\ TriplesOf(sightings)' = SeenSoFar \cup SeenInFile(f)
  BY <1>1, <1>5, SeeAdds DEF ServicesInv
<1>7. SeenSoFar' = SeenSoFar \cup SeenInFile(f)
  <2>1. FilesPassed = 1..(f - 1) /\ FilesPassed' = (1..(f - 1)) \cup {f}
    BY <1>1, <1>3, <1>4, OneFurther DEF FilesPassed
  <2>2. SeenSoFar' = UNION {SeenInFile(g) : g \in FilesPassed'}
    BY <1>1, <1>2, SoFarNext
  <2>3. SeenSoFar = UNION {SeenInFile(g) : g \in FilesPassed}
    BY <1>2 DEF SeenSoFar
  <2> QED BY <2>1, <2>2, <2>3
<1>8. PassInRange'
  BY <1>1, <1>2, <1>3, <1>4, OneFurther DEF PassInRange
<1>9. ServicesAreExact'
  BY <1>1 DEF ServicesAreExact
<1> QED BY <1>6, <1>7, <1>8, <1>9 DEF ServicesInv

(* The end of a scan.                                                        *)
LEMMA ResultIsExact ==
  ASSUME serviceRepo' = serviceRepo, Exact(services', Seen),
         serviceRepo.language # "go" => Sharp(services', Seen)
  PROVE  ServicesAreExact'
<1>1. Seen' = Seen
  BY SeenStays
<1>2. /\ DOMAIN services' = {s[1] : s \in Seen'}
      /\ \A n \in DOMAIN services' :
           /\ Range(services'[n].locations) = {s[3] : s \in {t \in Seen' : t[1] = n}}
           /\ Len(services'[n].locations) = Cardinality(Range(services'[n].locations))
           /\ services'[n].kind \in {s[2] : s \in {t \in Seen' : t[1] = n}}
           /\ serviceRepo'.language # "go" =>
                \A k \in {s[2] : s \in {t \in Seen' : t[1] = n}} : Rank(services'[n].kind) <= Rank(k)
  BY <1>1 DEF Exact, Sharp
<1> QED BY <1>2 DEF ServicesAreExact, KindsOf

LEMMA AggregationStaysExact ==
  ASSUME ServicesInv, Aggregation
  PROVE  ServicesInv'
<1>1. /\ servicePass = "files" /\ serviceFile > Len(serviceRepo.files)
      /\ services' = Aggregate /\ servicePass' = "done"
      /\ serviceRepo' = serviceRepo /\ serviceFile' = serviceFile /\ sightings' = sightings
  BY DEF Aggregation
<1>2. /\ serviceRepo \in ServiceRepositories /\ serviceRepo.language # "go"
      /\ serviceFile \in Nat \ {0} /\ serviceFile <= Len(serviceRepo.files) + 1
  BY <1>1 DEF ServicesInv, PassInRange
<1>3. Len(serviceRepo.files) \in Nat /\ DOMAIN serviceRepo.files = 1..Len(serviceRepo.files)
  BY <1>2, RepositoryIs
<1>4. 1..(serviceFile - 1) = 1..Len(serviceRepo.files)
  <2>1. serviceFile - 1 = Len(serviceRepo.files)
    BY <1>1, <1>2, <1>3
  <2> QED BY <2>1
<1>5. FilesPassed = DOMAIN serviceRepo.files /\ FilesPassed' = DOMAIN serviceRepo.files
  BY <1>1, <1>3, <1>4 DEF FilesPassed
<1>6. TriplesOf(sightings) = Seen /\ SeenSoFar' = Seen
  BY <1>1, <1>2, <1>5, SoFarNext DEF ServicesInv, SeenSoFar, Seen
<1>7. Exact(services', Seen) /\ Sharp(services', Seen)
  BY <1>1, <1>6, BothExact DEF ServicesInv
<1>8. ServicesAreExact'
  BY <1>1, <1>7, ResultIsExact
<1>9. SightingsTyped' /\ TriplesOf(sightings)' = SeenSoFar'
  BY <1>1, <1>6, TriplesStay DEF ServicesInv
<1>10. PassInRange'
  BY <1>1, <1>2 DEF PassInRange
<1> QED BY <1>8, <1>9, <1>10 DEF ServicesInv

LEMMA ConfigStaysExact ==
  ASSUME ServicesInv, ScanConfig
  PROVE  ServicesInv'
<1> DEFINE new == ConfigSightings(Config)
<1>1. /\ servicePass = "config" /\ See(new) /\ serviceRepo' = serviceRepo
      /\ services' = services /\ servicePass' = "adapters" /\ serviceFile' = serviceFile
  BY DEF ScanConfig, See
<1>2. /\ serviceRepo \in ServiceRepositories /\ serviceRepo.language = "go"
      /\ serviceFile \in Nat \ {0}
  BY <1>1 DEF ServicesInv, PassInRange
<1>3. new \in Seq(SightingType) /\ TriplesOf(new) = SeenInConfig
  <2>1. Config.urls \in Seq(UrlSeen) /\ Config.constants \in Seq(ConstantSeen)
    BY <1>2, RepositoryIs
  <2>2. GoService.config \in Nat
    BY RepositoriesAssumption
  <2> QED BY <2>1, <2>2, ConfigIs DEF SeenInConfig
<1> HIDE DEF new
<1>4. SightingsTyped' /\ TriplesOf(sightings)' = SeenSoFar \cup SeenInConfig
  BY <1>1, <1>3, SeeAdds DEF ServicesInv
<1>5. serviceFile = 1
  BY <1>1 DEF ServicesInv, PassInRange
<1>6. SeenSoFar = {} /\ SeenSoFar' = SeenInConfig
  <2>1. AdaptersPassed = {} /\ HelpersPassed = {} /\ AdaptersPassed' = {} /\ HelpersPassed' = {}
    BY <1>1, <1>5 DEF AdaptersPassed, HelpersPassed
  <2>2. SeenSoFar' = SeenInConfig
    BY <1>1, <1>2, <2>1, SoFarNext
  <2> QED BY <1>1, <1>2, <2>1, <2>2 DEF SeenSoFar
<1>7. PassInRange'
  <2>1. Len(serviceRepo.adapters) \in Nat
    BY <1>2, RepositoryIs
  <2> QED BY <1>1, <1>2, <1>5, <2>1 DEF PassInRange
<1>8. ServicesAreExact'
  BY <1>1 DEF ServicesAreExact
<1> QED BY <1>4, <1>6, <1>7, <1>8 DEF ServicesInv

LEMMA AdaptersStayExact ==
  ASSUME ServicesInv, ScanAdapter
  PROVE  ServicesInv'
<1> DEFINE f == serviceFile
           file == serviceRepo.adapters[f]
           new == IF file.read THEN AdapterSightings(file) ELSE << >>
<1>1. /\ servicePass = "adapters" /\ f <= Len(serviceRepo.adapters)
      /\ See(new) /\ serviceRepo' = serviceRepo /\ services' = services
      /\ servicePass' = "adapters" /\ serviceFile' = f + 1
  BY DEF ScanAdapter, See
<1>2. serviceRepo \in ServiceRepositories /\ serviceRepo.language = "go" /\ f \in Nat \ {0}
  BY <1>1 DEF ServicesInv, PassInRange
<1>3. serviceRepo.adapters \in Seq(AdapterFile) /\ Len(serviceRepo.adapters) \in Nat
      /\ DOMAIN serviceRepo.adapters = 1..Len(serviceRepo.adapters)
  BY <1>2, RepositoryIs
<1>4. f \in 1..Len(serviceRepo.adapters) /\ file \in AdapterFile
  BY <1>1, <1>2, <1>3
<1>5. new \in Seq(SightingType) /\ TriplesOf(new) = SeenInAdapter(f)
  <2>1. CASE ~file.read
    BY <2>1, NoTriples DEF SeenInAdapter
  <2>2. CASE file.read
    BY <1>4, <2>2, AdapterIs DEF SeenInAdapter
  <2> QED BY <2>1, <2>2
<1> HIDE DEF new
<1>6. SightingsTyped' /\ TriplesOf(sightings)' = SeenSoFar \cup SeenInAdapter(f)
  BY <1>1, <1>5, SeeAdds DEF ServicesInv
<1>7. SeenSoFar' = SeenSoFar \cup SeenInAdapter(f)
  <2>1. AdaptersPassed = 1..(f - 1) /\ AdaptersPassed' = (1..(f - 1)) \cup {f}
    BY <1>1, <1>3, <1>4, OneFurther DEF AdaptersPassed
  <2>2. HelpersPassed = {} /\ HelpersPassed' = {}
    BY <1>1 DEF HelpersPassed
  <2>3. SeenSoFar' = SeenInConfig \cup UNION {SeenInAdapter(a) : a \in AdaptersPassed'}
    BY <1>1, <1>2, <2>2, SoFarNext
  <2>4. SeenSoFar = SeenInConfig \cup UNION {SeenInAdapter(a) : a \in AdaptersPassed}
    BY <1>1, <1>2, <2>2 DEF SeenSoFar
  <2> QED BY <2>1, <2>3, <2>4
<1>8. PassInRange'
  BY <1>1, <1>2, <1>3, <1>4, OneFurther DEF PassInRange
<1>9. ServicesAreExact'
  BY <1>1 DEF ServicesAreExact
<1> QED BY <1>6, <1>7, <1>8, <1>9 DEF ServicesInv

LEMMA HelpersStartExact ==
  ASSUME ServicesInv, AdaptersScanned
  PROVE  ServicesInv'
<1>1. /\ servicePass = "adapters" /\ serviceFile > Len(serviceRepo.adapters)
      /\ servicePass' = "helpers" /\ serviceFile' = 1
      /\ serviceRepo' = serviceRepo /\ sightings' = sightings /\ services' = services
  BY DEF AdaptersScanned
<1>2. /\ serviceRepo \in ServiceRepositories /\ serviceRepo.language = "go"
      /\ serviceFile \in Nat \ {0} /\ serviceFile <= Len(serviceRepo.adapters) + 1
  BY <1>1 DEF ServicesInv, PassInRange
<1>3. /\ Len(serviceRepo.adapters) \in Nat /\ DOMAIN serviceRepo.adapters = 1..Len(serviceRepo.adapters)
      /\ Len(serviceRepo.helpers) \in Nat
  BY <1>2, RepositoryIs
<1>4. 1..(serviceFile - 1) = 1..Len(serviceRepo.adapters)
  <2>1. serviceFile - 1 = Len(serviceRepo.adapters)
    BY <1>1, <1>2, <1>3
  <2> QED BY <2>1
<1>5. AdaptersPassed = DOMAIN serviceRepo.adapters /\ AdaptersPassed' = DOMAIN serviceRepo.adapters
  BY <1>1, <1>3, <1>4 DEF AdaptersPassed
<1>6. HelpersPassed = {} /\ HelpersPassed' = {}
  BY <1>1 DEF HelpersPassed
<1>7. SeenSoFar' = SeenSoFar
  BY <1>1, <1>2, <1>5, <1>6, SoFarNext DEF SeenSoFar
<1>8. SightingsTyped' /\ TriplesOf(sightings)' = SeenSoFar'
  BY <1>1, <1>7, TriplesStay DEF ServicesInv
<1>9. PassInRange'
  BY <1>1, <1>2, <1>3 DEF PassInRange
<1>10. ServicesAreExact'
  BY <1>1 DEF ServicesAreExact
<1> QED BY <1>8, <1>9, <1>10 DEF ServicesInv

LEMMA HelpersStayExact ==
  ASSUME ServicesInv, ScanHelper
  PROVE  ServicesInv'
<1> DEFINE f == serviceFile
           file == serviceRepo.helpers[f]
           new == IF file.read THEN HelperSightings(file, Config) ELSE << >>
<1>1. /\ servicePass = "helpers" /\ f <= Len(serviceRepo.helpers)
      /\ See(new) /\ serviceRepo' = serviceRepo /\ services' = services
      /\ servicePass' = "helpers" /\ serviceFile' = f + 1
  BY DEF ScanHelper, See
<1>2. serviceRepo \in ServiceRepositories /\ serviceRepo.language = "go" /\ f \in Nat \ {0}
  BY <1>1 DEF ServicesInv, PassInRange
<1>3. serviceRepo.helpers \in Seq(HelperFile) /\ Len(serviceRepo.helpers) \in Nat
      /\ DOMAIN serviceRepo.helpers = 1..Len(serviceRepo.helpers)
      /\ Config.destinations \in Seq(Nat)
  BY <1>2, RepositoryIs
<1>4. f \in 1..Len(serviceRepo.helpers) /\ file \in HelperFile
  BY <1>1, <1>2, <1>3
<1>5. new \in Seq(SightingType) /\ TriplesOf(new) = SeenInHelper(f)
  <2>1. CASE ~file.read
    BY <2>1, NoTriples DEF SeenInHelper
  <2>2. CASE file.read
    <3> DEFINE g == file
    <3>1. g \in HelperFile /\ new = HelperSightings(g, Config)
      BY <1>4, <2>2
    <3>2. SeenInHelper(f) =
            IF ~g.jms THEN {}
            ELSE {<<<<"activemq">>, "message_broker", p>> :
                    p \in {<<g.path, 0>>}
                           \cup {<<GoService.config, x>> : x \in Range(Config.destinations)}}
      BY <2>2 DEF SeenInHelper
    <3> HIDE DEF g, new
    <3> QED BY <1>3, <3>1, <3>2, HelperIs
  <2> QED BY <2>1, <2>2
<1> HIDE DEF new
<1>6. SightingsTyped' /\ TriplesOf(sightings)' = SeenSoFar \cup SeenInHelper(f)
  BY <1>1, <1>5, SeeAdds DEF ServicesInv
<1>7. SeenSoFar' = SeenSoFar \cup SeenInHelper(f)
  <2>1. HelpersPassed = 1..(f - 1) /\ HelpersPassed' = (1..(f - 1)) \cup {f}
    BY <1>1, <1>3, <1>4, OneFurther DEF HelpersPassed
  <2>2. AdaptersPassed = DOMAIN serviceRepo.adapters /\ AdaptersPassed' = DOMAIN serviceRepo.adapters
    BY <1>1 DEF AdaptersPassed
  <2> DEFINE before == UNION {SeenInAdapter(a) : a \in AdaptersPassed}
             after == UNION {SeenInAdapter(a) : a \in AdaptersPassed'}
             past == UNION {SeenInHelper(h) : h \in HelpersPassed}
             next == UNION {SeenInHelper(h) : h \in HelpersPassed'}
  <2>3. before = after
    BY <2>2
  <2>4. next = past \cup SeenInHelper(f)
    BY <2>1
  <2>5. SeenSoFar' = IF serviceRepo.language = "go"
                       THEN (IF servicePass' = "config" THEN {} ELSE SeenInConfig)
                            \cup after \cup next
                     ELSE UNION {SeenInFile(g) : g \in FilesPassed'}
    BY <1>1, SoFarNext
  <2>6. SeenSoFar = IF serviceRepo.language = "go"
                      THEN (IF servicePass = "config" THEN {} ELSE SeenInConfig)
                           \cup before \cup past
                    ELSE UNION {SeenInFile(g) : g \in FilesPassed}
    BY DEF SeenSoFar
  <2> HIDE DEF before, after, past, next
  <2>7. SeenSoFar' = SeenInConfig \cup after \cup next
    BY <1>1, <1>2, <2>5
  <2>8. SeenSoFar = SeenInConfig \cup before \cup past
    BY <1>1, <1>2, <2>6
  <2> QED BY <2>3, <2>4, <2>7, <2>8
<1>8. PassInRange'
  BY <1>1, <1>2, <1>3, <1>4, OneFurther DEF PassInRange
<1>9. ServicesAreExact'
  BY <1>1 DEF ServicesAreExact
<1> QED BY <1>6, <1>7, <1>8, <1>9 DEF ServicesInv

LEMMA CoalescingStaysExact ==
  ASSUME ServicesInv, Coalescing
  PROVE  ServicesInv'
<1>1. /\ servicePass = "helpers" /\ serviceFile > Len(serviceRepo.helpers)
      /\ services' = Coalesce /\ servicePass' = "done"
      /\ serviceRepo' = serviceRepo /\ serviceFile' = serviceFile /\ sightings' = sightings
  BY DEF Coalescing
<1>2. /\ serviceRepo \in ServiceRepositories /\ serviceRepo.language = "go"
      /\ serviceFile \in Nat \ {0} /\ serviceFile <= Len(serviceRepo.helpers) + 1
  BY <1>1 DEF ServicesInv, PassInRange
<1>3. Len(serviceRepo.helpers) \in Nat /\ DOMAIN serviceRepo.helpers = 1..Len(serviceRepo.helpers)
  BY <1>2, RepositoryIs
<1>4. 1..(serviceFile - 1) = 1..Len(serviceRepo.helpers)
  <2>1. serviceFile - 1 = Len(serviceRepo.helpers)
    BY <1>1, <1>2, <1>3
  <2> QED BY <2>1
<1>5. /\ HelpersPassed = DOMAIN serviceRepo.helpers /\ HelpersPassed' = DOMAIN serviceRepo.helpers
      /\ AdaptersPassed = DOMAIN serviceRepo.adapters /\ AdaptersPassed' = DOMAIN serviceRepo.adapters
  BY <1>1, <1>3, <1>4 DEF HelpersPassed, AdaptersPassed
<1>6. TriplesOf(sightings) = Seen /\ SeenSoFar' = Seen
  BY <1>1, <1>2, <1>5, SoFarNext DEF ServicesInv, SeenSoFar, Seen
<1>7. Exact(services', Seen)
  BY <1>1, <1>6, BothExact DEF ServicesInv
<1>8. ServicesAreExact'
  BY <1>1, <1>2, <1>7, ResultIsExact
<1>9. SightingsTyped' /\ TriplesOf(sightings)' = SeenSoFar'
  BY <1>1, <1>6, TriplesStay DEF ServicesInv
<1>10. PassInRange'
  BY <1>1, <1>2 DEF PassInRange
<1> QED BY <1>8, <1>9, <1>10 DEF ServicesInv

LEMMA IdleStaysExact ==
  ASSUME ServicesInv, UNCHANGED serviceVars
  PROVE  ServicesInv'
<1>1. /\ serviceRepo' = serviceRepo /\ servicePass' = servicePass /\ serviceFile' = serviceFile
      /\ sightings' = sightings /\ services' = services
  BY DEF serviceVars
<1>2. PassInRange'
  BY <1>1 DEF ServicesInv, PassInRange
<1>3. SeenSoFar' = SeenSoFar
  <2>1. /\ FilesPassed' = FilesPassed /\ AdaptersPassed' = AdaptersPassed
        /\ HelpersPassed' = HelpersPassed
    BY <1>1 DEF FilesPassed, AdaptersPassed, HelpersPassed
  <2> QED BY <1>1, <2>1, SoFarNext DEF SeenSoFar
<1>4. SightingsTyped' /\ TriplesOf(sightings)' = SeenSoFar'
  BY <1>1, <1>3, TriplesStay DEF ServicesInv
<1>5. ServicesAreExact'
  BY <1>1, SeenStays DEF ServicesInv, ServicesAreExact, KindsOf
<1> QED BY <1>2, <1>4, <1>5 DEF ServicesInv

(* For every repository, in any order of its files: the services a profile   *)
(* names are exactly those seen, at exactly the places they are seen at and  *)
(* of a kind they are seen as, the most specific one outside Go; so the two  *)
(* ways of joining sightings, _aggregate and _coalesce, lose and double      *)
(* nothing.                                                                  *)
THEOREM ServicesStayExact == ServicesSpec => []ServicesAreExact
<1>1. ServicesInit => ServicesInv
  BY ServicesStartExact
<1>2. ServicesInv /\ [ServicesNext]_serviceVars => ServicesInv'
  <2> SUFFICES ASSUME ServicesInv, [ServicesNext]_serviceVars PROVE ServicesInv'
    OBVIOUS
  <2>1. CASE ScanFile
    BY <2>1, FilesStayExact
  <2>2. CASE Aggregation
    BY <2>2, AggregationStaysExact
  <2>3. CASE ScanConfig
    BY <2>3, ConfigStaysExact
  <2>4. CASE ScanAdapter
    BY <2>4, AdaptersStayExact
  <2>5. CASE AdaptersScanned
    BY <2>5, HelpersStartExact
  <2>6. CASE ScanHelper
    BY <2>6, HelpersStayExact
  <2>7. CASE Coalescing
    BY <2>7, CoalescingStaysExact
  <2>8. CASE UNCHANGED serviceVars
    BY <2>8, IdleStaysExact
  <2> QED BY <2>1, <2>2, <2>3, <2>4, <2>5, <2>6, <2>7, <2>8 DEF ServicesNext
<1>3. ServicesInv => ServicesAreExact
  BY DEF ServicesInv
<1> QED BY <1>1, <1>2, <1>3, PTL DEF ServicesSpec

-----------------------------------------------------------------------------
(* The tables.                                                              *)

-----------------------------------------------------------------------------
(* The patterns of SQL.                                                     *)

Patterns == WritePatterns \cup ReadPatterns

Phrase(k) == Len(k) \in Nat \ {0} /\ DOMAIN k = 1..Len(k)

(* A phrase begins with a word that comes nowhere else in its pattern.       *)
Headed(pattern, h) ==
  /\ h \in SqlKeywords
  /\ \A k \in pattern.keywords :
       /\ Phrase(k)
       /\ \A i \in DOMAIN k : k[i] \in SqlKeywords /\ (k[i] = h <=> i = 1)
  /\ Len(pattern.then) \in Nat /\ DOMAIN pattern.then = 1..Len(pattern.then)
  /\ \A i \in DOMAIN pattern.then : pattern.then[i] # h

LEMMA PatternsAreHeaded ==
  ASSUME NEW pattern \in Patterns
  PROVE  \E h : Headed(pattern, h)
<1>1. \/ pattern = Statement({<<"INSERT", "INTO">>}, << >>)
      \/ pattern = Statement({<<"UPDATE">>}, <<"SET">>)
      \/ pattern = Statement({<<"DELETE", "FROM">>}, << >>)
      \/ pattern = Statement({<<"CREATE", "TABLE">>, <<"CREATE", "TEMPORARY", "TABLE">>,
             <<"CREATE", "TABLE", "IF", "NOT", "EXISTS">>,
             <<"CREATE", "TEMPORARY", "TABLE", "IF", "NOT", "EXISTS">>}, << >>)
      \/ pattern = Statement({<<"MERGE", "INTO">>}, << >>)
      \/ pattern = Statement({<<"FROM">>}, << >>)
      \/ pattern = Statement({<<"JOIN">>}, << >>)
  BY DEF Patterns, WritePatterns, ReadPatterns
<1>2. CASE pattern = Statement({<<"INSERT", "INTO">>}, << >>)
  <2>1. Headed(pattern, "INSERT")
    BY <1>2 DEF Headed, Statement, Phrase, SqlKeywords
  <2> QED BY <2>1
<1>3. CASE pattern = Statement({<<"UPDATE">>}, <<"SET">>)
  <2>1. Headed(pattern, "UPDATE")
    BY <1>3 DEF Headed, Statement, Phrase, SqlKeywords
  <2> QED BY <2>1
<1>4. CASE pattern = Statement({<<"DELETE", "FROM">>}, << >>)
  <2>1. Headed(pattern, "DELETE")
    BY <1>4 DEF Headed, Statement, Phrase, SqlKeywords
  <2> QED BY <2>1
<1>5. CASE pattern = Statement({<<"CREATE", "TABLE">>, <<"CREATE", "TEMPORARY", "TABLE">>,
             <<"CREATE", "TABLE", "IF", "NOT", "EXISTS">>,
             <<"CREATE", "TEMPORARY", "TABLE", "IF", "NOT", "EXISTS">>}, << >>)
  <2> DEFINE Whole(k) == /\ Phrase(k)
                         /\ \A i \in DOMAIN k : k[i] \in SqlKeywords /\ (k[i] = "CREATE" <=> i = 1)
  <2>1. Whole(<<"CREATE", "TABLE">>)
    BY DEF Phrase, SqlKeywords
  <2>2. Whole(<<"CREATE", "TEMPORARY", "TABLE">>)
    BY DEF Phrase, SqlKeywords
  <2>3. Whole(<<"CREATE", "TABLE", "IF", "NOT", "EXISTS">>)
    BY DEF Phrase, SqlKeywords
  <2>4. Whole(<<"CREATE", "TEMPORARY", "TABLE", "IF", "NOT", "EXISTS">>)
    BY DEF Phrase, SqlKeywords
  <2>5. "CREATE" \in SqlKeywords
    BY DEF SqlKeywords
  <2>6. \A k \in pattern.keywords : Whole(k)
    <3>1. pattern.keywords = {<<"CREATE", "TABLE">>, <<"CREATE", "TEMPORARY", "TABLE">>,
             <<"CREATE", "TABLE", "IF", "NOT", "EXISTS">>,
             <<"CREATE", "TEMPORARY", "TABLE", "IF", "NOT", "EXISTS">>}
      BY <1>5 DEF Statement
    <3> HIDE DEF Whole
    <3> QED BY <2>1, <2>2, <2>3, <2>4, <3>1
  <2>7. pattern.then = << >>
    BY <1>5 DEF Statement
  <2>8. Headed(pattern, "CREATE")
    BY <2>5, <2>6, <2>7 DEF Headed
  <2> QED BY <2>8
<1>6. CASE pattern = Statement({<<"MERGE", "INTO">>}, << >>)
  <2>1. Headed(pattern, "MERGE")
    BY <1>6 DEF Headed, Statement, Phrase, SqlKeywords
  <2> QED BY <2>1
<1>7. CASE pattern = Statement({<<"FROM">>}, << >>)
  <2>1. Headed(pattern, "FROM")
    BY <1>7 DEF Headed, Statement, Phrase, SqlKeywords
  <2> QED BY <2>1
<1>8. CASE pattern = Statement({<<"JOIN">>}, << >>)
  <2>1. Headed(pattern, "JOIN")
    BY <1>8 DEF Headed, Statement, Phrase, SqlKeywords
  <2> QED BY <2>1
<1> QED BY <1>1, <1>2, <1>3, <1>4, <1>5, <1>6, <1>7, <1>8

LEMMA PhrasesOfPatterns ==
  /\ \A pattern \in WritePatterns : \A k \in pattern.keywords :
       \/ k \in WritePhrases /\ pattern.then = << >>
       \/ k = <<"UPDATE">> /\ pattern.then = <<"SET">>
  /\ \A k \in WritePhrases : \E pattern \in WritePatterns :
       k \in pattern.keywords /\ pattern.then = << >>
  /\ \E pattern \in WritePatterns : <<"UPDATE">> \in pattern.keywords /\ pattern.then = <<"SET">>
  /\ \A pattern \in ReadPatterns : \A k \in pattern.keywords :
       k \in {<<"FROM">>, <<"JOIN">>} /\ pattern.then = << >>
  /\ \A k \in {<<"FROM">>, <<"JOIN">>} : \E pattern \in ReadPatterns :
       k \in pattern.keywords /\ pattern.then = << >>
<1>1. ASSUME NEW pattern \in WritePatterns, NEW k \in pattern.keywords
      PROVE  \/ k \in WritePhrases /\ pattern.then = << >>
             \/ k = <<"UPDATE">> /\ pattern.then = <<"SET">>
  BY DEF WritePatterns, WritePhrases, Statement
<1>2. ASSUME NEW k \in WritePhrases
      PROVE  \E pattern \in WritePatterns : k \in pattern.keywords /\ pattern.then = << >>
  BY DEF WritePatterns, WritePhrases, Statement
<1>3. \E pattern \in WritePatterns : <<"UPDATE">> \in pattern.keywords /\ pattern.then = <<"SET">>
  BY DEF WritePatterns, Statement
<1>4. ASSUME NEW pattern \in ReadPatterns, NEW k \in pattern.keywords
      PROVE  k \in {<<"FROM">>, <<"JOIN">>} /\ pattern.then = << >>
  BY DEF ReadPatterns, Statement
<1>5. ASSUME NEW k \in {<<"FROM">>, <<"JOIN">>}
      PROVE  \E pattern \in ReadPatterns : k \in pattern.keywords /\ pattern.then = << >>
  BY DEF ReadPatterns, Statement
<1> QED BY <1>1, <1>2, <1>3, <1>4, <1>5

(* Where a read begins in a write.                                           *)
LEMMA ReadsInWrites ==
  /\ \A k \in WritePhrases : \A i \in DOMAIN k :
       k[i] \in {"FROM", "JOIN"} => k = <<"DELETE", "FROM">> /\ i = 2
  /\ <<"UPDATE">>[1] \notin {"FROM", "JOIN"} /\ <<"SET">>[1] \notin {"FROM", "JOIN"}
<1>1. ASSUME NEW k \in WritePhrases, NEW i \in DOMAIN k, k[i] \in {"FROM", "JOIN"}
      PROVE  k = <<"DELETE", "FROM">> /\ i = 2
  BY <1>1 DEF WritePhrases
<1>2. <<"UPDATE">>[1] \notin {"FROM", "JOIN"} /\ <<"SET">>[1] \notin {"FROM", "JOIN"}
  OBVIOUS
<1> QED BY <1>1, <1>2

LEMMA NamesAreNoKeywords ==
  ASSUME NEW w \in DOMAIN Unqualified
  PROVE  w \notin SqlKeywords /\ w \notin Unnamed /\ Upper(w) = w
<1>1. w \notin SqlKeywords /\ w \notin Unnamed
  BY NamesAssumption
<1>2. "from" \in SqlKeywords
  BY DEF SqlKeywords
<1> QED BY <1>1, <1>2 DEF Upper

-----------------------------------------------------------------------------
(* A match.                                                                 *)

(* The pattern, with the keywords k, takes the word at q for its table.      *)
Taken(words, p, pattern, k, q) ==
  /\ k \in pattern.keywords /\ q = p + Len(k)
  /\ Reads(words, p, k)
  /\ q <= Len(words) /\ words[q].text \notin Unnamed
  /\ Reads(words, q + 1, pattern.then)

LEMMA TableAtIs ==
  ASSUME NEW S, NEW words \in Seq(S), NEW pattern \in Patterns, NEW p \in Nat \ {0}
  PROVE  LET q == TableAt(words, p, pattern)
         IN /\ q \in 0..Len(words)
            /\ q # 0 => \E k \in pattern.keywords : Taken(words, p, pattern, k, q)
            /\ \A k \in pattern.keywords : Taken(words, p, pattern, k, p + Len(k)) =>
                 q # 0 /\ p + Len(k) <= q
<1> DEFINE n == Len(words)
           ends == {p + Len(k) : k \in {k \in pattern.keywords :
                /\ Reads(words, p, k)
                /\ p + Len(k) <= Len(words) /\ words[p + Len(k)].text \notin Unnamed
                /\ Reads(words, p + Len(k) + 1, pattern.then)}}
           q == TableAt(words, p, pattern)
<1>1. n \in Nat /\ p \in Nat /\ p # 0
  OBVIOUS
<1>2. \A k \in pattern.keywords : Len(k) \in Nat \ {0}
  <2>1. PICK h : Headed(pattern, h)
    BY PatternsAreHeaded
  <2> QED BY <2>1 DEF Headed, Phrase
<1>3. \A x : x \in ends <=> \E k \in pattern.keywords : Taken(words, p, pattern, k, x)
  BY DEF Taken
<1>4. q = IF ends = {} THEN 0 ELSE CHOOSE x \in ends : \A r \in ends : r <= x
  BY DEF TableAt
<1>5. \A x \in ends : x \in 1..n
  BY <1>1, <1>2, <1>3 DEF Taken
<1> HIDE DEF ends, q
<1>6. CASE ends = {}
  <2>1. q = 0
    BY <1>4, <1>6
  <2>2. \A k \in pattern.keywords : ~Taken(words, p, pattern, k, p + Len(k))
    BY <1>3, <1>6
  <2>3. 0 \in 0..n
    BY <1>1
  <2> QED BY <2>1, <2>2, <2>3 DEF q
<1>7. CASE ends # {}
  <2>1. ends \in SUBSET (0..n)
    BY <1>1, <1>5
  <2>2. \E x \in ends : \A r \in ends : r <= x
    BY <1>1, <1>7, <2>1, GreatestElement
  <2>3. q \in ends /\ \A r \in ends : r <= q
    BY <1>4, <1>7, <2>2
  <2>4. q \in 1..n
    BY <1>5, <2>3
  <2>5. \E k \in pattern.keywords : Taken(words, p, pattern, k, q)
    BY <1>3, <2>3
  <2>6. \A k \in pattern.keywords : Taken(words, p, pattern, k, p + Len(k)) => p + Len(k) <= q
    BY <1>3, <2>3
  <2>7. q \in 0..n /\ q # 0
    BY <1>1, <2>4
  <2> QED BY <2>5, <2>6, <2>7 DEF q
<1> QED BY <1>6, <1>7

(* A name after the keywords is the table.                                   *)
LEMMA NameIsTable ==
  ASSUME NEW S, NEW words \in Seq(S), NEW pattern \in Patterns, NEW p \in Nat \ {0},
         NEW k \in pattern.keywords, Reads(words, p, k),
         NEW q, q = p + Len(k), q <= Len(words), words[q].text \in DOMAIN Unqualified,
         Reads(words, q + 1, pattern.then)
  PROVE  TableAt(words, p, pattern) = q
<1> DEFINE r == TableAt(words, p, pattern)
<1>1. PICK h : Headed(pattern, h)
  BY PatternsAreHeaded
<1>2. \A l \in pattern.keywords : /\ Len(l) \in Nat \ {0} /\ DOMAIN l = 1..Len(l)
                                 /\ \A i \in DOMAIN l : l[i] \in SqlKeywords
  BY <1>1 DEF Headed, Phrase
<1>3. Taken(words, p, pattern, k, p + Len(k))
  BY NamesAreNoKeywords DEF Taken
<1>4. r # 0 /\ q <= r /\ r \in 0..Len(words)
  BY <1>3, TableAtIs
<1>5. PICK l \in pattern.keywords : Taken(words, p, pattern, l, r)
  BY <1>4, TableAtIs
<1> HIDE DEF r
<1>6. q \in Nat /\ p \in Nat /\ r \in Nat /\ Len(l) \in Nat /\ r = p + Len(l) /\ Len(k) \in Nat /\ Len(k) # 0
  <2>1. r = p + Len(l)
    BY <1>5 DEF Taken
  <2>2. Len(l) \in Nat /\ Len(k) \in Nat \ {0}
    BY <1>2, <1>5
  <2>3. q \in Nat /\ p \in Nat
    BY <2>2
  <2>4. r \in Nat
    BY <2>1, <2>2, <2>3
  <2> QED BY <2>1, <2>2, <2>3, <2>4
<1>7. ASSUME q < r PROVE FALSE
  <2> DEFINE i == q - p + 1
  <2>1. i \in 1..Len(l) /\ p + i - 1 = q
    BY <1>6, <1>7
  <2>2. Upper(words[p + i - 1].text) = l[i]
    <3> HIDE DEF i
    <3> QED BY <1>2, <1>5, <2>1 DEF Taken, Reads
  <2>3. l[i] \in SqlKeywords
    <3> HIDE DEF i
    <3> QED BY <1>2, <2>1
  <2>4. Upper(words[q].text) \in SqlKeywords
    BY <2>1, <2>2, <2>3
  <2> QED BY <2>4, NamesAreNoKeywords
<1>8. q = r
  BY <1>4, <1>6, <1>7
<1> QED BY <1>8 DEF r

(* No match begins within another of its pattern.                            *)
LEMMA MatchesAreApart ==
  ASSUME NEW S, NEW words \in Seq(S), TablesAreNamed(words), NEW pattern \in Patterns,
         NEW p \in DOMAIN words, NEW r \in Nat,
         TableAt(words, p, pattern) # 0, p < r,
         r <= TableAt(words, p, pattern) + Len(pattern.then)
  PROVE  TableAt(words, r, pattern) = 0
<1> DEFINE q == TableAt(words, p, pattern)
           t == TableAt(words, r, pattern)
<1>1. PICK h : Headed(pattern, h)
  BY PatternsAreHeaded
<1>2. DOMAIN words = 1..Len(words) /\ Len(words) \in Nat /\ p \in Nat \ {0} /\ r \in Nat \ {0}
  OBVIOUS
<1>3. q \in 1..Len(words) /\ \E k \in pattern.keywords : Taken(words, p, pattern, k, q)
  BY <1>2, TableAtIs
<1>4. PICK k \in pattern.keywords : Taken(words, p, pattern, k, q)
  BY <1>3
<1>5. words[q].text \in DOMAIN Unqualified
  <2>1. MatchesAt(words, p, q)
    BY <1>3 DEF MatchesAt, Patterns
  <2> QED BY <1>2, <1>3, <2>1 DEF TablesAreNamed
<1>6. ASSUME t # 0 PROVE FALSE
  <2>1. PICK l \in pattern.keywords : Taken(words, r, pattern, l, t)
    BY <1>2, <1>6, TableAtIs
  <2>2. Upper(words[r].text) = h
    <3>1. Reads(words, r, l) /\ 1 \in DOMAIN l /\ l[1] = h
      BY <1>1, <2>1 DEF Taken, Headed, Phrase
    <3>2. r + 1 - 1 = r
      BY <1>2
    <3> QED BY <3>1, <3>2 DEF Reads
  <2> HIDE DEF q, t
  <2>3. q = p + Len(k) /\ Len(k) \in Nat /\ DOMAIN k = 1..Len(k)
        /\ Len(pattern.then) \in Nat /\ DOMAIN pattern.then = 1..Len(pattern.then)
        /\ q \in Nat /\ r <= q + Len(pattern.then)
    BY <1>1, <1>3, <1>4 DEF Taken, Headed, Phrase, q
  <2>4. CASE r < q
    <3> DEFINE i == r - p + 1
    <3>1. i \in 1..Len(k) /\ i # 1 /\ p + i - 1 = r
      BY <1>2, <2>3, <2>4
    <3> HIDE DEF i
    <3>2. Upper(words[p + i - 1].text) = k[i]
      BY <1>4, <2>3, <3>1 DEF Taken, Reads
    <3>3. k[i] # h
      BY <1>1, <2>3, <3>1 DEF Headed
    <3> QED BY <2>2, <3>1, <3>2, <3>3
  <2>5. CASE r = q
    BY <1>1, <1>5, <2>2, <2>5, NamesAreNoKeywords DEF Headed
  <2>6. CASE q < r
    <3> DEFINE i == r - q
    <3>1. i \in 1..Len(pattern.then) /\ q + 1 + i - 1 = r
      <4> DEFINE m == Len(pattern.then)
      <4>1. m \in Nat /\ q \in Nat /\ r \in Nat /\ r <= q + m
        BY <1>2, <2>3
      <4> HIDE DEF m
      <4>2. i \in 1..m /\ q + 1 + i - 1 = r
        BY <2>6, <4>1
      <4> QED BY <4>2 DEF m
    <3> HIDE DEF i
    <3>2. Upper(words[q + 1 + i - 1].text) = pattern.then[i]
      BY <1>4, <2>3, <3>1 DEF Taken, Reads
    <3>3. pattern.then[i] # h
      BY <1>1, <2>3, <3>1 DEF Headed
    <3> QED BY <2>2, <3>1, <3>2, <3>3
  <2> QED BY <1>2, <2>3, <2>4, <2>5, <2>6
<1> QED BY <1>6

Match(words, p, pattern) ==
  [start |-> p, end |-> TableAt(words, p, pattern) + Len(pattern.then),
   table |-> TableAt(words, p, pattern)]

Starts(words, pattern) == {p \in DOMAIN words : TableAt(words, p, pattern) # 0}

(* A match ends in the text.                                                 *)
LEMMA MatchIs ==
  ASSUME NEW S, NEW words \in Seq(S), NEW pattern \in Patterns, NEW p \in Starts(words, pattern)
  PROVE  LET q == TableAt(words, p, pattern)
             end == q + Len(pattern.then)
         IN /\ p \in Nat \ {0} /\ q \in 1..Len(words) /\ p < q /\ q <= end /\ end <= Len(words)
            /\ end \in Nat
<1> DEFINE q == TableAt(words, p, pattern)
<1>1. p \in Nat \ {0} /\ q # 0 /\ Len(words) \in Nat
  BY DEF Starts
<1>2. q \in 0..Len(words) /\ \E k \in pattern.keywords : Taken(words, p, pattern, k, q)
  BY <1>1, TableAtIs
<1>3. PICK k \in pattern.keywords : Taken(words, p, pattern, k, q)
  BY <1>2
<1>4. Len(k) \in Nat \ {0} /\ Len(pattern.then) \in Nat
  BY PatternsAreHeaded DEF Headed, Phrase
<1>5. q = p + Len(k) /\ q + 1 + Len(pattern.then) - 1 <= Len(words)
  BY <1>3 DEF Taken, Reads
<1> DEFINE m == Len(pattern.then)
           n == Len(words)
           l == Len(k)
<1>6. m \in Nat /\ n \in Nat /\ l \in Nat \ {0} /\ p \in Nat \ {0} /\ q \in 0..n /\ q # 0
      /\ q = p + l /\ q + 1 + m - 1 <= n
  BY <1>1, <1>2, <1>4, <1>5
<1> HIDE DEF q, m, n, l
<1>7. q \in 1..n /\ p < q /\ q <= q + m /\ q + m <= n /\ q + m \in Nat
  BY <1>6
<1> QED BY <1>1, <1>7 DEF q, m, n

Scanned(f, words, pattern) ==
  [p \in 1..(Len(words) + 1) |->
     IF p > Len(words) THEN {}
     ELSE LET q == TableAt(words, p, pattern)
              end == q + Len(pattern.then)
          IN IF q = 0 THEN f[p + 1]
             ELSE {[start |-> p, end |-> end, table |-> q]} \cup f[end + 1]]

LEMMA ScanExists ==
  ASSUME NEW S, NEW words \in Seq(S), NEW pattern \in Patterns
  PROVE  \E f : f = Scanned(f, words, pattern)
<1> DEFINE n == Len(words)
           D == 1..(n + 1)
           rank == [p \in D |-> n + 1 - p]
           M == [start : Nat, end : Nat, table : Nat]
           R == [p \in D |-> SUBSET M]
           F == Within(D, R)
           B == [f \in F |-> Scanned(f, words, pattern)]
           T(p) == TableAt(words, p, pattern)
           Next(p) == IF T(p) = 0 THEN p + 1 ELSE T(p) + Len(pattern.then) + 1
           Own(p) == IF T(p) = 0 THEN {} ELSE {Match(words, p, pattern)}
<1>1. n \in Nat /\ DOMAIN words = 1..n
  OBVIOUS
<1>2. ASSUME NEW p \in D, p <= n
      PROVE  Next(p) \in D /\ p < Next(p) /\ Own(p) \in SUBSET M
  <2>1. CASE T(p) = 0
    BY <1>1, <1>2, <2>1
  <2>2. CASE T(p) # 0
    <3> DEFINE q == T(p)
               end == q + Len(pattern.then)
    <3>1. p \in Starts(words, pattern)
      BY <1>1, <1>2, <2>2 DEF Starts
    <3>2. /\ p \in Nat \ {0} /\ q \in 1..n /\ p < q /\ q <= end /\ end <= n /\ end \in Nat
      BY <3>1, MatchIs
    <3>3. Next(p) = end + 1
      BY <2>2
    <3>4. Own(p) = {[start |-> p, end |-> end, table |-> q]}
      BY <2>2 DEF Match
    <3> HIDE DEF q, end, Next, Own, n
    <3>5. q \in Nat
      BY <3>2
    <3>6. Own(p) \in SUBSET M
      BY <3>2, <3>4, <3>5
    <3>7. Next(p) \in D /\ p < Next(p)
      BY <1>1, <3>2, <3>3, <3>5
    <3> QED BY <3>6, <3>7
  <2> QED BY <2>1, <2>2
<1>3. \A f : \A p \in D : Scanned(f, words, pattern)[p] = IF p > n THEN {} ELSE Own(p) \cup f[Next(p)]
  BY DEF Scanned, Match
<1>4. \A p \in D : R[p] = SUBSET M /\ R[p] # {}
  OBVIOUS
<1>5. rank \in [D -> 0..n] /\ \A p \in D : rank[p] = n + 1 - p
  BY <1>1
<1>6. \A f : Scanned(f, words, pattern) = [p \in D |-> Scanned(f, words, pattern)[p]]
  BY DEF Scanned
<1> HIDE DEF R, rank, n, Next, Own, T, M
<1>7. \A f \in F : \A p \in D : f[p] \in SUBSET M
  BY <1>4 DEF Within
<1>8. ASSUME NEW f \in F PROVE Scanned(f, words, pattern) \in F
  <2> DEFINE g == Scanned(f, words, pattern)
  <2>1. \A p \in D : p \in Nat /\ (p <= n \/ p > n)
    BY <1>1
  <2>2. \A p \in D : g[p] \in R[p]
    <3> SUFFICES ASSUME NEW p \in D PROVE g[p] \in SUBSET M
      BY <1>4
    <3>1. CASE p > n
      BY <1>3, <3>1
    <3>2. CASE p <= n
      <4>1. Own(p) \in SUBSET M /\ f[Next(p)] \in SUBSET M
        BY <1>2, <1>7, <3>2
      <4>2. g[p] = Own(p) \cup f[Next(p)]
        <5>1. ~(p > n)
          BY <1>1, <2>1, <3>2
        <5> QED BY <1>3, <5>1
      <4> HIDE DEF g
      <4> QED BY <4>1, <4>2
    <3> QED BY <2>1, <3>1, <3>2
  <2>3. g = [p \in D |-> g[p]]
    BY <1>6
  <2>4. g \in F
    <3> HIDE DEF g
    <3> QED BY <2>2, <2>3, WithinIs
  <2> QED BY <2>4
<1>9. B \in [F -> F] /\ \A f \in F : B[f] = Scanned(f, words, pattern)
  BY <1>8
<1>10. ASSUME NEW f \in F, NEW g \in F, NEW p \in D,
              \A j \in D : rank[j] < rank[p] => f[j] = g[j]
       PROVE  B[f][p] = B[g][p]
  <2>1. CASE p > n
    BY <1>3, <1>9, <2>1
  <2>2. CASE p <= n
    <3> DEFINE j == Next(p)
    <3>1. j \in D /\ p < j
      BY <1>2, <2>2
    <3>2. rank[j] < rank[p]
      <4> HIDE DEF j
      <4> QED BY <1>1, <1>5, <3>1
    <3>3. f[j] = g[j]
      BY <1>10, <3>1, <3>2
    <3>4. B[f][p] = Own(p) \cup f[j] /\ B[g][p] = Own(p) \cup g[j]
      <4>1. ~(p > n)
        BY <1>1, <2>2
      <4> QED BY <1>3, <1>9, <4>1
    <3> QED BY <3>3, <3>4
  <2> QED BY <1>1, <2>1, <2>2
<1>11. \E f \in F : B[f] = f
  <2> HIDE DEF B
  <2>1. Descends(B, D, R, rank, n)
    BY <1>1, <1>4, <1>5, <1>9, <1>10 DEF Descends
  <2> QED BY <2>1, Recursion
<1> QED BY <1>9, <1>11

(* finditer finds every match.                                               *)
LEMMA MatchesAre ==
  ASSUME NEW S, NEW words \in Seq(S), TablesAreNamed(words), NEW pattern \in Patterns
  PROVE  Matches(words, pattern) = {Match(words, p, pattern) : p \in Starts(words, pattern)}
<1> DEFINE n == Len(words)
           D == 1..(n + 1)
           rank == [p \in D |-> n + 1 - p]
           T(p) == TableAt(words, p, pattern)
           From(p) == {Match(words, r, pattern) : r \in {x \in Starts(words, pattern) : p <= x}}
           scan == CHOOSE f : f = Scanned(f, words, pattern)
<1>1. n \in Nat /\ DOMAIN words = 1..n
  OBVIOUS
<1>2. Matches(words, pattern) = scan[1]
  BY DEF Matches, Scanned
<1>3. scan = Scanned(scan, words, pattern)
  BY ScanExists
<1> HIDE DEF scan
<1>4. rank \in [D -> 0..n] /\ \A p \in D : rank[p] = n + 1 - p
  BY <1>1
<1> DEFINE Done == {p \in D : scan[p] = From(p)}
<1>5. ASSUME NEW p \in D, \A r \in D : rank[r] < rank[p] => r \in Done
      PROVE  p \in Done
  <2>1. CASE p > n
    <3>1. scan[p] = {}
      BY <1>3, <2>1 DEF Scanned
    <3>2. \A x \in Starts(words, pattern) : ~(p <= x)
      BY <1>1, <2>1 DEF Starts
    <3> QED BY <3>1, <3>2
  <2>2. CASE ~(p > n)
    <3>1. p \in DOMAIN words /\ p \in Nat
      BY <1>1, <2>2
    <3>2. CASE T(p) = 0
      <4>1. scan[p] = scan[p + 1]
        BY <1>3, <2>2, <3>2 DEF Scanned
      <4> DEFINE r == p + 1
      <4>2. r \in D /\ rank[r] < rank[p]
        BY <1>1, <1>4, <3>1
      <4>3. scan[r] = From(r)
        <5> HIDE DEF r, rank, From
        <5> QED BY <1>5, <4>2
      <4>4. \A x \in Starts(words, pattern) : p <= x <=> r <= x
        BY <1>1, <3>1, <3>2 DEF Starts
      <4>5. From(r) = From(p)
        BY <4>4
      <4> QED BY <4>1, <4>3, <4>5
    <3>3. CASE T(p) # 0
      <4> DEFINE end == T(p) + Len(pattern.then)
                 r == end + 1
      <4>1. p \in Starts(words, pattern)
        BY <3>1, <3>3 DEF Starts
      <4>2. end \in Nat /\ p < end /\ end <= n
        <5>1. T(p) \in 1..n /\ p < T(p) /\ T(p) <= end /\ end <= n /\ end \in Nat
          BY <4>1, MatchIs
        <5> HIDE DEF T, end
        <5> QED BY <1>1, <3>1, <5>1
      <4>3. scan[p] = {Match(words, p, pattern)} \cup scan[r]
        BY <1>3, <2>2, <3>3 DEF Scanned, Match
      <4>4. r \in D /\ rank[r] < rank[p]
        <5> HIDE DEF end
        <5>1. r \in D
          BY <1>1, <4>2
        <5>2. rank[r] = n + 1 - r /\ rank[p] = n + 1 - p
          BY <1>4, <5>1
        <5> HIDE DEF rank
        <5> QED BY <1>1, <3>1, <4>2, <5>1, <5>2
      <4>5. scan[r] = From(r)
        <5> HIDE DEF r, rank, From
        <5> QED BY <1>5, <4>4
      <4>6. \A x \in Starts(words, pattern) : p <= x <=> x = p \/ r <= x
        <5> SUFFICES ASSUME NEW x \in Starts(words, pattern) PROVE p <= x <=> x = p \/ r <= x
          OBVIOUS
        <5>1. x \in Nat /\ T(x) # 0
          BY <1>1 DEF Starts
        <5>2. p < x => ~(x <= end)
          BY <3>1, <3>3, <5>1, MatchesAreApart
        <5> HIDE DEF end, T
        <5> QED BY <3>1, <4>2, <5>1, <5>2
      <4>7. From(p) = {Match(words, p, pattern)} \cup From(r)
        <5> HIDE DEF r
        <5> QED BY <4>1, <4>6
      <4> HIDE DEF From, r
      <4> QED BY <4>3, <4>5, <4>7
    <3> QED BY <3>2, <3>3
  <2> QED BY <2>1, <2>2
<1>6. Done = D
  <2>1. Done \in SUBSET D
    OBVIOUS
  <2> HIDE DEF Done, D, rank, n
  <2> QED BY <1>1, <1>4, <1>5, <2>1, RankInduction
<1>7. 1 \in D
  BY <1>1
<1>8. scan[1] = From(1)
  <2> HIDE DEF From
  <2> QED BY <1>6, <1>7
<1>9. \A x \in Starts(words, pattern) : 1 <= x
  BY <1>1 DEF Starts
<1> QED BY <1>2, <1>8, <1>9

-----------------------------------------------------------------------------
(* The uses in a text and the words of the reference.                       *)

(* What a match says: its place, its table and, for the imports, its line.   *)
Counted(lines, imports, words, p) == ~(imports /\ IsImport(lines, words[p].line))

(* A match of a pattern, seen from its table.                                *)
LEMMA MatchGives ==
  ASSUME NEW S, NEW words \in Seq(S), TablesAreNamed(words), NEW pattern \in Patterns,
         NEW p \in Starts(words, pattern), NEW q, q = TableAt(words, p, pattern)
  PROVE  /\ q \in DOMAIN words /\ words[q].text \in DOMAIN Unqualified /\ MatchesAt(words, p, q)
         /\ \E k \in pattern.keywords : Before(words, q, k) /\ p = q - Len(k) /\ Len(k) \in Nat \ {0}
         /\ Reads(words, q + 1, pattern.then)
<1>1. p \in DOMAIN words /\ p \in Nat \ {0} /\ q # 0 /\ DOMAIN words = 1..Len(words) /\ Len(words) \in Nat
  BY DEF Starts
<1>2. q \in 0..Len(words) /\ \E k \in pattern.keywords : Taken(words, p, pattern, k, q)
  BY <1>1, TableAtIs
<1>3. PICK k \in pattern.keywords : Taken(words, p, pattern, k, q)
  BY <1>2
<1>4. q \in DOMAIN words /\ MatchesAt(words, p, q)
  BY <1>1, <1>2 DEF MatchesAt, Patterns
<1>5. words[q].text \in DOMAIN Unqualified
  BY <1>1, <1>4 DEF TablesAreNamed
<1>6. Len(k) \in Nat \ {0}
  BY PatternsAreHeaded DEF Headed, Phrase
<1>7. p = q - Len(k) /\ q > Len(k)
  <2> DEFINE l == Len(k)
  <2>1. q = p + l /\ l \in Nat
    BY <1>3, <1>6 DEF Taken
  <2> HIDE DEF l
  <2>2. p = q - l /\ q > l
    BY <1>1, <2>1
  <2> QED BY <2>2 DEF l
<1>8. Before(words, q, k) /\ Reads(words, q + 1, pattern.then)
  BY <1>3, <1>7 DEF Taken, Before
<1> QED BY <1>4, <1>5, <1>6, <1>7, <1>8

(* A name with the words of a pattern around it is its table.                *)
LEMMA TableGives ==
  ASSUME NEW S, NEW words \in Seq(S), NEW pattern \in Patterns, NEW k \in pattern.keywords,
         NEW q \in DOMAIN words, words[q].text \in DOMAIN Unqualified,
         Before(words, q, k), Reads(words, q + 1, pattern.then)
  PROVE  /\ q - Len(k) \in Starts(words, pattern)
         /\ TableAt(words, q - Len(k), pattern) = q
<1> DEFINE l == Len(k)
           p == q - l
<1>1. DOMAIN words = 1..Len(words) /\ Len(words) \in Nat /\ q \in 1..Len(words)
  OBVIOUS
<1>2. l \in Nat \ {0}
  BY PatternsAreHeaded DEF Headed, Phrase
<1>3. q > l /\ Reads(words, p, k)
  BY DEF Before
<1> HIDE DEF l
<1>4. p \in Nat \ {0} /\ q = p + l /\ p \in DOMAIN words /\ q # 0
  BY <1>1, <1>2, <1>3
<1>5. TableAt(words, p, pattern) = q
  <2> HIDE DEF p
  <2> QED BY <1>1, <1>3, <1>4, NameIsTable DEF l
<1>6. p \in Starts(words, pattern)
  BY <1>4, <1>5 DEF Starts
<1> QED BY <1>5, <1>6 DEF l

LEMMA PatternKinds ==
  WritePatterns \subseteq Patterns /\ ReadPatterns \subseteq Patterns
BY DEF Patterns

(* Nothing follows most statements.                                          *)
LEMMA NothingFollows ==
  ASSUME NEW S, NEW words \in Seq(S), NEW q \in DOMAIN words
  PROVE  Reads(words, q + 1, << >>)
<1>1. q + 1 + Len(<< >>) - 1 <= Len(words)
  OBVIOUS
<1>2. DOMAIN << >> = {}
  OBVIOUS
<1> QED BY <1>1, <1>2 DEF Reads

(* The matches of the writes.                                                *)
LEMMA WritesAre ==
  ASSUME NEW S, NEW words \in Seq(S), TablesAreNamed(words), NEW q
  PROVE  /\ q \in DOMAIN words /\ words[q].text \in DOMAIN Unqualified /\ WritesAt(words, q) =>
              \E pattern \in WritePatterns : \E p \in Starts(words, pattern) :
                TableAt(words, p, pattern) = q
         /\ (\E pattern \in WritePatterns : \E p \in Starts(words, pattern) :
                TableAt(words, p, pattern) = q) =>
              q \in DOMAIN words /\ words[q].text \in DOMAIN Unqualified /\ WritesAt(words, q)
<1>1. ASSUME q \in DOMAIN words, words[q].text \in DOMAIN Unqualified, WritesAt(words, q)
      PROVE  \E pattern \in WritePatterns : \E p \in Starts(words, pattern) :
               TableAt(words, p, pattern) = q
  <2>1. CASE \E k \in WritePhrases : Before(words, q, k)
    <3>1. PICK k \in WritePhrases : Before(words, q, k)
      BY <2>1
    <3>2. PICK pattern \in WritePatterns : k \in pattern.keywords /\ pattern.then = << >>
      BY PhrasesOfPatterns
    <3>3. Reads(words, q + 1, pattern.then)
      BY <1>1, <3>2, NothingFollows
    <3>4. q - Len(k) \in Starts(words, pattern) /\ TableAt(words, q - Len(k), pattern) = q
      BY <1>1, <3>1, <3>2, <3>3, PatternKinds, TableGives
    <3> QED BY <3>4
  <2>2. CASE Before(words, q, <<"UPDATE">>) /\ Reads(words, q + 1, <<"SET">>)
    <3> DEFINE k == <<"UPDATE">>
    <3>1. PICK pattern \in WritePatterns : k \in pattern.keywords /\ pattern.then = <<"SET">>
      BY PhrasesOfPatterns
    <3>2. Before(words, q, k) /\ Reads(words, q + 1, pattern.then)
      BY <2>2, <3>1
    <3> HIDE DEF k
    <3>3. q - Len(k) \in Starts(words, pattern) /\ TableAt(words, q - Len(k), pattern) = q
      BY <1>1, <3>1, <3>2, PatternKinds, TableGives
    <3> QED BY <3>3
  <2> QED BY <1>1, <2>1, <2>2 DEF WritesAt
<1>2. ASSUME NEW pattern \in WritePatterns, NEW p \in Starts(words, pattern),
             TableAt(words, p, pattern) = q
      PROVE  q \in DOMAIN words /\ words[q].text \in DOMAIN Unqualified /\ WritesAt(words, q)
  <2>1. /\ q \in DOMAIN words /\ words[q].text \in DOMAIN Unqualified
        /\ \E k \in pattern.keywords : Before(words, q, k)
        /\ Reads(words, q + 1, pattern.then)
    BY <1>2, PatternKinds, MatchGives
  <2>2. PICK k \in pattern.keywords : Before(words, q, k)
    BY <2>1
  <2>3. CASE k \in WritePhrases
    BY <2>1, <2>2, <2>3 DEF WritesAt
  <2>4. CASE k = <<"UPDATE">> /\ pattern.then = <<"SET">>
    BY <2>1, <2>2, <2>4 DEF WritesAt
  <2> QED BY <2>3, <2>4, PhrasesOfPatterns
<1> QED BY <1>1, <1>2

(* A position within the l words before q, counted from their first.         *)
LEMMA PlaceInPhrase ==
  ASSUME NEW p \in Nat, NEW q \in Nat, NEW s \in Nat, NEW l \in Nat,
         s <= p, p < q, s = q - l
  PROVE  \E i \in 1..l : s + i - 1 = p
<1>1. p - s + 1 \in 1..l /\ s + (p - s + 1) - 1 = p
  OBVIOUS
<1> QED BY <1>1

(* A read that begins in a write is the FROM of a DELETE.                    *)
LEMMA ReadInWrite ==
  ASSUME NEW S, NEW words \in Seq(S), TablesAreNamed(words), NEW pattern \in WritePatterns,
         NEW s \in Starts(words, pattern), NEW p \in Nat,
         s <= p, p <= TableAt(words, s, pattern) + Len(pattern.then),
         Upper(words[p].text) \in {"FROM", "JOIN"}
  PROVE  Upper(words[p].text) = "FROM" /\ Before(words, p + 1, <<"DELETE", "FROM">>)
<1> DEFINE q == TableAt(words, s, pattern)
           word == Upper(words[p].text)
           then == pattern.then
<1>1. /\ words[q].text \in DOMAIN Unqualified
      /\ \E k \in pattern.keywords : Before(words, q, k) /\ s = q - Len(k) /\ Len(k) \in Nat \ {0}
      /\ Reads(words, q + 1, then)
  BY PatternKinds, MatchGives
<1>2. PICK k \in pattern.keywords : Before(words, q, k) /\ s = q - Len(k) /\ Len(k) \in Nat \ {0}
  BY <1>1
<1>3. q \in Nat /\ s \in Nat
  BY PatternKinds, MatchIs
<1>4. \/ k \in WritePhrases /\ then = << >>
      \/ k = <<"UPDATE">> /\ then = <<"SET">>
  BY PhrasesOfPatterns
<1>5. Phrase(k)
  BY PatternKinds, PatternsAreHeaded DEF Headed
<1> HIDE DEF q
<1>6. CASE p < q
  <2>1. PICK i \in 1..Len(k) : s + i - 1 = p
    <3> DEFINE l == Len(k)
    <3>1. l \in Nat /\ s = q - l
      BY <1>2
    <3>2. s <= p
      OBVIOUS
    <3> HIDE DEF l
    <3>3. \E i \in 1..l : s + i - 1 = p
      BY <1>3, <1>6, <3>1, <3>2, PlaceInPhrase
    <3> QED BY <3>3 DEF l
  <2>2. Reads(words, s, k)
    BY <1>2 DEF Before
  <2>3. word = k[i]
    BY <1>5, <2>1, <2>2 DEF Reads, Phrase
  <2>4. k = <<"DELETE", "FROM">> /\ i = 2
    <3>1. i \in DOMAIN k
      BY <1>5, <2>1 DEF Phrase
    <3>2. CASE k \in WritePhrases
      BY <2>3, <3>1, <3>2, ReadsInWrites
    <3>3. CASE k = <<"UPDATE">>
      <4>1. i = 1
        BY <3>1, <3>3
      <4> QED BY <2>3, <3>3, <4>1, ReadsInWrites
    <3> QED BY <1>4, <3>2, <3>3
  <2>5. k[2] = "FROM" /\ Len(k) = 2
    BY <2>4
  <2>6. q = p + 1
    BY <1>2, <1>3, <2>1, <2>4, <2>5
  <2> QED BY <1>2, <2>3, <2>4, <2>5, <2>6
<1>7. CASE p = q
  <2>1. word = words[q].text /\ word \notin SqlKeywords
    BY <1>1, <1>7, NamesAreNoKeywords
  <2>2. "FROM" \in SqlKeywords /\ "JOIN" \in SqlKeywords
    BY DEF SqlKeywords
  <2> QED BY <2>1, <2>2
<1>8. CASE p > q
  <2>1. Len(then) # 0
    <3> DEFINE l == Len(then)
    <3>1. l = 0 => p <= q
      BY <1>3 DEF q
    <3> HIDE DEF l
    <3> QED BY <1>3, <1>8, <3>1 DEF l
  <2>2. then = <<"SET">> /\ Len(then) = 1
    BY <1>4, <2>1
  <2>3. p = q + 1
    <3>1. p <= q + 1
      BY <2>2 DEF q
    <3> QED BY <1>3, <1>8, <3>1
  <2>4. Upper(words[q + 1 + 1 - 1].text) = then[1]
    BY <1>1, <2>2 DEF Reads
  <2>5. q + 1 + 1 - 1 = q + 1
    BY <1>3
  <2>6. word = <<"SET">>[1]
    BY <2>2, <2>3, <2>4, <2>5
  <2> QED BY <2>6, ReadsInWrites
<1> QED BY <1>3, <1>6, <1>7, <1>8

(* A name is written, or read, by a match that counts.                       *)
WriteFound(lines, imports, words, name, n) ==
  \E pattern \in WritePatterns : \E p \in Starts(words, pattern) :
    /\ Counted(lines, imports, words, p)
    /\ name[words[TableAt(words, p, pattern)].text] = n

ReadFound(lines, imports, words, name, n) ==
  \E pattern \in ReadPatterns : \E p \in Starts(words, pattern) :
    /\ Counted(lines, imports, words, p)
    /\ name[words[TableAt(words, p, pattern)].text] = n
    /\ ~\E write \in WritePatterns : \E s \in Starts(words, write) :
         /\ Counted(lines, imports, words, s)
         /\ s <= p /\ p <= TableAt(words, s, write) + Len(write.then)

HasUse(found, mode, n) == \E u \in found : u.mode = mode /\ u.table = n

(* What RawSql gives for one name.                                           *)
LEMMA RawSqlGives ==
  ASSUME NEW S, NEW lines, NEW words \in Seq(S), words = WordsOf(lines), TablesAreNamed(words),
         NEW imports, NEW name, NEW n
  PROVE  /\ \A u \in RawSql(lines, imports, name) : u.mode \in {"read", "write"}
         /\ HasUse(RawSql(lines, imports, name), "write", n) <=>
             WriteFound(lines, imports, words, name, n)
         /\ HasUse(RawSql(lines, imports, name), "read", n) <=>
             ReadFound(lines, imports, words, name, n)
<1> DEFINE Seeing(patterns) ==
             {m \in UNION {Matches(words, p) : p \in patterns} :
                ~(imports /\ IsImport(lines, words[m.start].line))}
           writes == Seeing(WritePatterns)
           reads == {r \in Seeing(ReadPatterns) :
                       ~\E w \in writes : w.start <= r.start /\ r.start <= w.end}
           U(m, mode) == Use(name[words[m.table].text], mode, words[m.start].line)
           raw == RawSql(lines, imports, name)
<1>1. raw = {U(m, "write") : m \in writes} \cup {U(m, "read") : m \in reads}
  BY DEF RawSql
<1>2. ASSUME NEW m
      PROVE  /\ m \in writes <=> \E pattern \in WritePatterns : \E p \in Starts(words, pattern) :
                    Counted(lines, imports, words, p) /\ m = Match(words, p, pattern)
             /\ m \in Seeing(ReadPatterns) <=> \E pattern \in ReadPatterns : \E p \in Starts(words, pattern) :
                    Counted(lines, imports, words, p) /\ m = Match(words, p, pattern)
  <2>1. \A pattern \in Patterns :
          Matches(words, pattern) = {Match(words, p, pattern) : p \in Starts(words, pattern)}
    BY MatchesAre
  <2>2. \A pattern \in Patterns : \A p \in Starts(words, pattern) : Match(words, p, pattern).start = p
    BY DEF Match
  <2>3. ASSUME NEW patterns \in SUBSET Patterns
        PROVE  m \in Seeing(patterns) <=> \E pattern \in patterns : \E p \in Starts(words, pattern) :
                 Counted(lines, imports, words, p) /\ m = Match(words, p, pattern)
    BY <2>1, <2>2 DEF Counted
  <2> QED BY <2>3, PatternKinds
<1> HIDE DEF Seeing, raw
<1>3. \A pattern, p : /\ Match(words, p, pattern).start = p
                      /\ Match(words, p, pattern).table = TableAt(words, p, pattern)
                      /\ Match(words, p, pattern).end = TableAt(words, p, pattern) + Len(pattern.then)
  BY DEF Match
<1>4. \A m, mode : U(m, mode).mode = mode /\ U(m, mode).table = name[words[m.table].text]
  BY DEF Use
<1>5. \A u \in raw : u.mode \in {"read", "write"}
  <2> SUFFICES ASSUME NEW u \in raw PROVE u.mode \in {"read", "write"}
    OBVIOUS
  <2> HIDE DEF writes, reads
  <2>1. (\E m : u = U(m, "write")) \/ (\E m : u = U(m, "read"))
    BY <1>1
  <2>2. \A m : U(m, "write").mode = "write" /\ U(m, "read").mode = "read"
    BY <1>4
  <2> HIDE DEF U
  <2> QED BY <2>1, <2>2
<1> HIDE DEF U
<1>6. (\E u \in raw : u.mode = "write" /\ u.table = n) <=>
        \E m \in writes : name[words[m.table].text] = n
  BY <1>1, <1>4
<1>7. (\E u \in raw : u.mode = "read" /\ u.table = n) <=>
        \E m \in reads : name[words[m.table].text] = n
  BY <1>1, <1>4
<1>8. (\E m \in writes : name[words[m.table].text] = n) <=>
        \E pattern \in WritePatterns : \E p \in Starts(words, pattern) :
          /\ Counted(lines, imports, words, p)
          /\ name[words[TableAt(words, p, pattern)].text] = n
  BY <1>2, <1>3
<1>9. ASSUME NEW p
      PROVE  (\E w \in writes : w.start <= p /\ p <= w.end) <=>
             \E write \in WritePatterns : \E s \in Starts(words, write) :
               /\ Counted(lines, imports, words, s)
               /\ s <= p /\ p <= TableAt(words, s, write) + Len(write.then)
  BY <1>2, <1>3
<1>10. (\E m \in reads : name[words[m.table].text] = n) <=>
         \E pattern \in ReadPatterns : \E p \in Starts(words, pattern) :
           /\ Counted(lines, imports, words, p)
           /\ name[words[TableAt(words, p, pattern)].text] = n
           /\ ~\E w \in writes : w.start <= p /\ p <= w.end
  <2>1. \A m : m \in reads <=> \E pattern \in ReadPatterns : \E p \in Starts(words, pattern) :
          /\ Counted(lines, imports, words, p) /\ m = Match(words, p, pattern)
          /\ ~\E w \in writes : w.start <= p /\ p <= w.end
    <3> HIDE DEF writes
    <3> QED BY <1>2, <1>3
  <2> HIDE DEF reads, writes
  <2> QED BY <1>3, <2>1
<1> HIDE DEF writes, reads
<1> QED BY <1>5, <1>6, <1>7, <1>8, <1>9, <1>10 DEF raw, HasUse, WriteFound, ReadFound

(* A match counts when its table does.                                       *)
LEMMA CountedTogether ==
  ASSUME NEW S, NEW lines, NEW words \in Seq(S), words = WordsOf(lines), TablesAreNamed(words),
         NEW imports, imports => ImportsStandAlone(lines),
         NEW pattern \in Patterns, NEW p \in Starts(words, pattern)
  PROVE  Counted(lines, imports, words, p) <=>
           Counted(lines, imports, words, TableAt(words, p, pattern))
<1> DEFINE q == TableAt(words, p, pattern)
<1>1. p \in DOMAIN words
  BY DEF Starts
<1>2. q \in DOMAIN words /\ MatchesAt(words, p, q)
  BY MatchGives
<1> HIDE DEF q
<1>3. imports => (IsImport(lines, words[p].line) <=> IsImport(lines, words[q].line))
  BY <1>1, <1>2 DEF ImportsStandAlone
<1>4. Counted(lines, imports, words, p) <=> Counted(lines, imports, words, q)
  BY <1>3 DEF Counted
<1> QED BY <1>4 DEF q

(* The words that say an access of one of the names.                         *)
Spoken(lines, imports, words, names, q) ==
  q \in DOMAIN words /\ words[q].text \in names /\ Counted(lines, imports, words, q)

(* The function says n of the names, and of no other.                        *)
Tells(words, name, n, names) ==
  \A q \in DOMAIN words : words[q].text \in DOMAIN Unqualified =>
    (name[words[q].text] = n <=> words[q].text \in names)

LEMMA WritesSpoken ==
  ASSUME NEW S, NEW lines, NEW words \in Seq(S), words = WordsOf(lines), TablesAreNamed(words),
         NEW imports, imports => ImportsStandAlone(lines),
         NEW name, NEW n, NEW names \in SUBSET DOMAIN Unqualified,
         Tells(words, name, n, names)
  PROVE  WriteFound(lines, imports, words, name, n) <=>
         \E q : Spoken(lines, imports, words, names, q) /\ WritesAt(words, q)
<1>1. ASSUME NEW pattern \in WritePatterns, NEW p \in Starts(words, pattern),
             Counted(lines, imports, words, p),
             name[words[TableAt(words, p, pattern)].text] = n
      PROVE  \E q : Spoken(lines, imports, words, names, q) /\ WritesAt(words, q)
  <2> DEFINE q == TableAt(words, p, pattern)
  <2>1. q \in DOMAIN words /\ words[q].text \in DOMAIN Unqualified /\ WritesAt(words, q)
    BY WritesAre
  <2>2. Counted(lines, imports, words, q)
    BY <1>1, CountedTogether, PatternKinds
  <2>3. words[q].text \in names
    BY <1>1, <2>1 DEF Tells
  <2>4. Spoken(lines, imports, words, names, q)
    BY <2>1, <2>2, <2>3 DEF Spoken
  <2> QED BY <2>1, <2>4
<1>2. ASSUME NEW q, Spoken(lines, imports, words, names, q), WritesAt(words, q)
      PROVE  \E pattern \in WritePatterns : \E p \in Starts(words, pattern) :
               /\ Counted(lines, imports, words, p)
               /\ name[words[TableAt(words, p, pattern)].text] = n
  <2>1. /\ q \in DOMAIN words /\ words[q].text \in DOMAIN Unqualified /\ words[q].text \in names
        /\ Counted(lines, imports, words, q)
    BY <1>2 DEF Spoken
  <2>0. PICK pattern \in WritePatterns : \E p \in Starts(words, pattern) :
          TableAt(words, p, pattern) = q
    BY <1>2, <2>1, WritesAre
  <2>2. PICK p \in Starts(words, pattern) : TableAt(words, p, pattern) = q
    BY <2>0
  <2>3. Counted(lines, imports, words, p)
    BY <2>1, <2>2, CountedTogether, PatternKinds
  <2>4. name[words[q].text] = n
    BY <2>1 DEF Tells
  <2> QED BY <2>2, <2>3, <2>4
<1> QED BY <1>1, <1>2 DEF WriteFound

LEMMA ReadsSpoken ==
  ASSUME NEW S, NEW lines, NEW words \in Seq(S), words = WordsOf(lines), TablesAreNamed(words),
         NEW imports, imports => ImportsStandAlone(lines),
         NEW name, NEW n, NEW names \in SUBSET DOMAIN Unqualified,
         Tells(words, name, n, names)
  PROVE  ReadFound(lines, imports, words, name, n) <=>
         \E q : Spoken(lines, imports, words, names, q) /\ ReadsAt(words, q)
<1> DEFINE Consumed(p) == \E write \in WritePatterns : \E s \in Starts(words, write) :
             /\ Counted(lines, imports, words, s)
             /\ s <= p /\ p <= TableAt(words, s, write) + Len(write.then)
<1>1. ASSUME NEW pattern \in ReadPatterns, NEW p \in Starts(words, pattern),
             Counted(lines, imports, words, p),
             name[words[TableAt(words, p, pattern)].text] = n, ~Consumed(p)
      PROVE  \E q : Spoken(lines, imports, words, names, q) /\ ReadsAt(words, q)
  <2> DEFINE q == TableAt(words, p, pattern)
  <2>1. q \in DOMAIN words /\ words[q].text \in DOMAIN Unqualified
    BY MatchGives, PatternKinds
  <2>2. PICK k \in pattern.keywords : Before(words, q, k) /\ p = q - Len(k)
    BY MatchGives, PatternKinds
  <2>3. k \in {<<"FROM">>, <<"JOIN">>} /\ Len(k) = 1
    BY PhrasesOfPatterns
  <2>4. Counted(lines, imports, words, q)
    BY <1>1, CountedTogether, PatternKinds
  <2>5. Spoken(lines, imports, words, names, q)
    BY <1>1, <2>1, <2>4 DEF Spoken, Tells
  <2> HIDE DEF q
  <2>6. ASSUME Before(words, q, <<"DELETE", "FROM">>) PROVE FALSE
    <3>1. PICK write \in WritePatterns : <<"DELETE", "FROM">> \in write.keywords /\ write.then = << >>
      BY PhrasesOfPatterns DEF WritePhrases
    <3> DEFINE s == q - Len(<<"DELETE", "FROM">>)
    <3>2. s \in Starts(words, write) /\ TableAt(words, s, write) = q
      BY <2>1, <2>6, <3>1, NothingFollows, PatternKinds, TableGives
    <3>3. Counted(lines, imports, words, s)
      BY <2>4, <3>2, CountedTogether, PatternKinds
    <3>4. s <= p /\ p <= q + Len(write.then)
      <4>1. Len(write.then) = 0 /\ Len(<<"DELETE", "FROM">>) = 2
        BY <3>1
      <4>2. q \in Nat
        BY <2>1
      <4> QED BY <2>2, <2>3, <4>1, <4>2
    <3> QED BY <1>1, <3>2, <3>3, <3>4
  <2>7. ReadsAt(words, q)
    BY <2>2, <2>3, <2>6 DEF ReadsAt
  <2> QED BY <2>5, <2>7
<1>2. ASSUME NEW q, Spoken(lines, imports, words, names, q), ReadsAt(words, q)
      PROVE  \E pattern \in ReadPatterns : \E p \in Starts(words, pattern) :
               /\ Counted(lines, imports, words, p)
               /\ name[words[TableAt(words, p, pattern)].text] = n
               /\ ~Consumed(p)
  <2>1. /\ q \in DOMAIN words /\ words[q].text \in DOMAIN Unqualified /\ words[q].text \in names
        /\ Counted(lines, imports, words, q)
    BY <1>2 DEF Spoken
  <2>2. PICK k \in {<<"FROM">>, <<"JOIN">>} :
          Before(words, q, k) /\ (k = <<"FROM">> => ~Before(words, q, <<"DELETE", "FROM">>))
    BY <1>2 DEF ReadsAt
  <2>3. Len(k) = 1 /\ DOMAIN k = {1} /\ k[1] \in {"FROM", "JOIN"} /\ (k[1] = "FROM" => k = <<"FROM">>)
    OBVIOUS
  <2>4. PICK pattern \in ReadPatterns : k \in pattern.keywords /\ pattern.then = << >>
    BY PhrasesOfPatterns
  <2> DEFINE p == q - Len(k)
  <2>5. p \in Starts(words, pattern) /\ TableAt(words, p, pattern) = q
    BY <2>1, <2>2, <2>4, NothingFollows, PatternKinds, TableGives
  <2>6. Counted(lines, imports, words, p)
    BY <2>1, <2>5, CountedTogether, PatternKinds
  <2>7. p \in Nat /\ p + 1 = q /\ p + 1 - 1 = p
    <3>1. q \in Nat /\ p \in DOMAIN words
      BY <2>1, <2>5 DEF Starts
    <3> QED BY <2>3, <3>1
  <2>8. Upper(words[p].text) = k[1]
    <3>1. Upper(words[p + 1 - 1].text) = k[1]
      BY <2>2, <2>3 DEF Before, Reads
    <3> QED BY <2>7, <3>1
  <2> HIDE DEF p
  <2>9. ~Consumed(p)
    <3> SUFFICES ASSUME NEW write \in WritePatterns, NEW s \in Starts(words, write),
                        s <= p, p <= TableAt(words, s, write) + Len(write.then)
                 PROVE  FALSE
      OBVIOUS
    <3>1. Upper(words[p].text) = "FROM" /\ Before(words, p + 1, <<"DELETE", "FROM">>)
      BY <2>3, <2>7, <2>8, ReadInWrite
    <3> QED BY <2>2, <2>3, <2>7, <2>8, <3>1
  <2>10. name[words[q].text] = n
    BY <2>1 DEF Tells
  <2> HIDE DEF Consumed
  <2> QED BY <2>4, <2>5, <2>6, <2>9, <2>10
<1> QED BY <1>1, <1>2 DEF ReadFound

(* The modes of the uses of n.                                               *)
Modes(found, n) == {u.mode : u \in {v \in found : v.table = n}}

(* The modes of one name in the SQL of a text are those of the reference.    *)
LEMMA SqlIs ==
  ASSUME NEW S, NEW lines, NEW words \in Seq(S), words = WordsOf(lines), TablesAreNamed(words),
         NEW imports, imports => ImportsStandAlone(lines),
         NEW name, NEW n, NEW names \in SUBSET DOMAIN Unqualified,
         Tells(words, name, n, names)
  PROVE  Modes(RawSql(lines, imports, name), n) = SqlAccesses(lines, names, imports)
<1> DEFINE raw == RawSql(lines, imports, name)
           modes == {u.mode : u \in {v \in raw : v.table = n}}
           accesses == SqlAccesses(lines, names, imports)
<1>0. /\ \A u \in raw : u.mode \in {"read", "write"}
      /\ HasUse(raw, "write", n) <=> WriteFound(lines, imports, words, name, n)
      /\ HasUse(raw, "read", n) <=> ReadFound(lines, imports, words, name, n)
  BY RawSqlGives
<1>1. \A x \in modes : x \in {"read", "write"}
  BY <1>0
<1>2. /\ "write" \in accesses <=> \E q : Spoken(lines, imports, words, names, q) /\ WritesAt(words, q)
      /\ "read" \in accesses <=> \E q : Spoken(lines, imports, words, names, q) /\ ReadsAt(words, q)
      /\ \A x \in accesses : x \in {"read", "write"}
  BY DEF SqlAccesses, Spoken, Counted
<1>3. "write" \in modes <=> HasUse(raw, "write", n)
  BY DEF HasUse
<1>4. "read" \in modes <=> HasUse(raw, "read", n)
  BY DEF HasUse
<1> HIDE DEF modes, accesses, raw
<1>5. WriteFound(lines, imports, words, name, n) <=>
        \E q : Spoken(lines, imports, words, names, q) /\ WritesAt(words, q)
  BY WritesSpoken
<1>6. ReadFound(lines, imports, words, name, n) <=>
        \E q : Spoken(lines, imports, words, names, q) /\ ReadsAt(words, q)
  BY ReadsSpoken
<1>7. \A x : x \in modes <=> x \in accesses
  BY <1>0, <1>1, <1>2, <1>3, <1>4, <1>5, <1>6
<1> QED BY <1>7 DEF modes, accesses, raw, Modes

-----------------------------------------------------------------------------
(* The words of a text.                                                     *)

Spelling(T) == [text : T \cup {"?"}, line : Nat]

LEMMA WordsAre ==
  ASSUME NEW L, NEW T, NEW lines \in Seq(L),
         \A i \in DOMAIN lines : lines[i].kind = "sql" => lines[i].words \in Seq(T)
  PROVE  WordsOf(lines) \in Seq(Spelling(T))
<1> DEFINE part(i) == IF lines[i].kind = "sql"
                        THEN [j \in DOMAIN lines[i].words |->
                                [text |-> lines[i].words[j], line |-> i]]
                        ELSE <<[text |-> "?", line |-> i]>>
           parts == [i \in DOMAIN lines |-> part(i)]
<1>1. DOMAIN lines = 1..Len(lines) /\ Len(lines) \in Nat
  OBVIOUS
<1>2. ASSUME NEW i \in DOMAIN lines PROVE part(i) \in Seq(Spelling(T))
  <2>1. i \in Nat
    BY <1>1
  <2>2. CASE lines[i].kind = "sql"
    <3> DEFINE w == lines[i].words
               f(j) == [text |-> w[j], line |-> i]
    <3>1. w \in Seq(T) /\ Len(w) \in Nat /\ DOMAIN w = 1..Len(w) /\ \A j \in DOMAIN w : w[j] \in T
      BY <2>2
    <3>2. part(i) = [j \in DOMAIN w |-> f(j)]
      BY <2>2
    <3>3. \A j \in DOMAIN w : f(j) \in Spelling(T)
      BY <2>1, <3>1 DEF Spelling
    <3> HIDE DEF f, w, part
    <3>4. [j \in 1..Len(w) |-> f(j)] \in Seq(Spelling(T))
      BY <3>1, <3>3
    <3> QED BY <3>1, <3>2, <3>4
  <2>3. CASE lines[i].kind # "sql"
    <3>1. [text |-> "?", line |-> i] \in Spelling(T)
      BY <2>1 DEF Spelling
    <3>2. part(i) = <<[text |-> "?", line |-> i]>>
      BY <2>3
    <3> QED BY <3>1, <3>2, OneLong
  <2> QED BY <2>2, <2>3
<1>3. parts \in Seq(Seq(Spelling(T)))
  <2> HIDE DEF part
  <2>1. [i \in 1..Len(lines) |-> part(i)] \in Seq(Seq(Spelling(T)))
    BY <1>1, <1>2
  <2> QED BY <1>1, <2>1
<1>4. WordsOf(lines) = FlattenSeq(parts)
  BY DEF WordsOf
<1> HIDE DEF parts
<1> QED BY <1>3, <1>4, FlattenIs

-----------------------------------------------------------------------------
(* What one pass finds of a name.                                           *)

LEMMA ModesOfBoth ==
  ASSUME NEW A, NEW B, NEW n
  PROVE  Modes(A \cup B, n) = Modes(A, n) \cup Modes(B, n)
BY DEF Modes

(* The fields that a kind of line has.                                      *)
LEMMA LinesAre ==
  ASSUME NEW line \in AnyLine
  PROVE  /\ line.kind = "sql" => line.words \in Seq(STRING)
         /\ line.kind \in {"__tablename__", "db_table", "table_name"} =>
              line.table \in DOMAIN Unqualified
         /\ line.kind = "op" => line.tables \in SUBSET DOMAIN Unqualified
         /\ line.kind \in {"literal", "boilerplate"} => line.words \in Seq(STRING)
BY DEF AnyLine

LEMMA TextIs ==
  ASSUME NEW lines \in Seq(AnyLine)
  PROVE  WordsOf(lines) \in Seq(Spelling(STRING))
<1>1. \A i \in DOMAIN lines : lines[i].kind = "sql" => lines[i].words \in Seq(STRING)
  BY LinesAre
<1> QED BY <1>1, WordsAre

\* What a list of words and the two names of a table need for the pass over the text of a file
\* to be the scan of its words.
Scannable(S, lines, words, imports, name, n, names) ==
  /\ words \in Seq(S) /\ words = WordsOf(lines) /\ TablesAreNamed(words)
  /\ imports => ImportsStandAlone(lines)
  /\ names \in SUBSET DOMAIN Unqualified
  /\ Tells(words, name, n, names)

LEMMA ScannedSqlIs ==
  ASSUME NEW S, NEW lines, NEW words, NEW imports, NEW name, NEW n, NEW names,
         Scannable(S, lines, words, imports, name, n, names)
  PROVE  Modes(RawSql(lines, imports, name), n) = SqlAccesses(lines, names, imports)
<1>1. /\ words \in Seq(S) /\ words = WordsOf(lines) /\ TablesAreNamed(words)
      /\ imports => ImportsStandAlone(lines)
      /\ names \in SUBSET DOMAIN Unqualified
      /\ Tells(words, name, n, names)
  BY DEF Scannable
<1> QED BY <1>1, SqlIs

LEMMA SqlModes ==
  ASSUME NEW lines \in Seq(AnyLine), TablesAreNamed(WordsOf(lines)), ImportsStandAlone(lines),
         NEW n
  PROVE  Modes(RawSql(lines, TRUE, Unqualified), n) = SqlAccesses(lines, SpelledAs(n), TRUE)
<1> DEFINE Spellings == Spelling(STRING)
           text == WordsOf(lines)
           name == Unqualified
           imports == TRUE
           names == SpelledAs(n)
<1>1. text \in Seq(Spellings)
  BY TextIs
<1>2. names \in SUBSET DOMAIN Unqualified
  BY DEF SpelledAs
<1>3. Tells(text, name, n, names)
  BY DEF Tells, SpelledAs
<1>4. TablesAreNamed(text) /\ text = WordsOf(lines) /\ (imports => ImportsStandAlone(lines))
  OBVIOUS
<1> HIDE DEF Spellings, text, name, imports, names
<1>5. Modes(RawSql(lines, imports, name), n) = SqlAccesses(lines, names, imports)
  <2>1. Scannable(Spellings, lines, text, imports, name, n, names)
    BY <1>1, <1>2, <1>3, <1>4 DEF Scannable
  <2> QED BY <2>1, ScannedSqlIs
<1> QED BY <1>5 DEF name, imports, names

LEMMA MigrationModes ==
  ASSUME NEW lines \in Seq(AnyLine), NEW n
  PROVE  Modes(Migrations(lines), n) =
           {"write" : i \in {j \in DOMAIN lines :
              lines[j].kind = "op" /\ lines[j].tables \cap SpelledAs(n) # {}}}
<1> DEFINE modes == Modes(Migrations(lines), n)
<1>1. \A x \in modes : x = "write"
  BY DEF Modes, Migrations, Use
<1>2. "write" \in modes <=> \E u \in Migrations(lines) : u.table = n
  <2>1. \A u \in Migrations(lines) : u.mode = "write"
    BY DEF Migrations, Use
  <2> QED BY <2>1 DEF Modes
<1>3. (\E u \in Migrations(lines) : u.table = n) <=>
        \E i \in DOMAIN lines : lines[i].kind = "op" /\ \E t \in lines[i].tables : Unqualified[t] = n
  <2>1. \A u : u \in Migrations(lines) <=>
          \E i \in DOMAIN lines : lines[i].kind = "op" /\ \E t \in lines[i].tables :
            u = Use(Unqualified[t], "write", i)
    BY DEF Migrations
  <2> DEFINE W(t, i) == Use(Unqualified[t], "write", i)
  <2>2. \A t, i : W(t, i).table = Unqualified[t]
    BY DEF Use
  <2>3. \A u : u \in Migrations(lines) <=>
          \E i \in DOMAIN lines : lines[i].kind = "op" /\ \E t \in lines[i].tables : u = W(t, i)
    BY <2>1
  <2> HIDE DEF W
  <2> QED BY <2>2, <2>3
<1>4. ASSUME NEW i \in DOMAIN lines, lines[i].kind = "op"
      PROVE  (\E t \in lines[i].tables : Unqualified[t] = n) <=> lines[i].tables \cap SpelledAs(n) # {}
  <2>1. lines[i].tables \in SUBSET DOMAIN Unqualified
    BY <1>4, LinesAre
  <2> QED BY <2>1 DEF SpelledAs
<1> HIDE DEF modes
<1>5. \A x : x \in modes <=> x = "write" /\ \E i \in DOMAIN lines :
          lines[i].kind = "op" /\ lines[i].tables \cap SpelledAs(n) # {}
  BY <1>1, <1>2, <1>3, <1>4
<1> QED BY <1>5 DEF modes

LEMMA ModelModes ==
  ASSUME NEW lines \in Seq(AnyLine), NEW n
  PROVE  Modes(ModelUses(lines), n) =
           {"write" : i \in {j \in Models(lines) : lines[j].table \in SpelledAs(n)}}
<1> DEFINE modes == Modes(ModelUses(lines), n)
<1>1. \A u : u \in ModelUses(lines) <=> \E i \in Models(lines) : u = Use(Unqualified[lines[i].table], "write", i)
  BY DEF ModelUses
<1>2. \A t, i : Use(Unqualified[t], "write", i).table = Unqualified[t] /\ Use(Unqualified[t], "write", i).mode = "write"
  BY DEF Use
<1>3. \A x : x \in modes <=> \E u \in ModelUses(lines) : x = u.mode /\ u.table = n
  BY DEF Modes
<1>4. \A i \in Models(lines) : Unqualified[lines[i].table] = n <=> lines[i].table \in SpelledAs(n)
  <2>1. \A i \in Models(lines) : lines[i].table \in DOMAIN Unqualified
    BY LinesAre DEF Models
  <2> QED BY <2>1 DEF SpelledAs
<1> HIDE DEF modes
<1> DEFINE W(i) == Use(Unqualified[lines[i].table], "write", i)
<1>6. \A i : W(i).table = Unqualified[lines[i].table] /\ W(i).mode = "write"
  BY <1>2
<1>7. \A u : u \in ModelUses(lines) <=> \E i \in Models(lines) : u = W(i)
  BY <1>1
<1> HIDE DEF W
<1>5. \A x : x \in modes <=> x = "write" /\ \E i \in Models(lines) : lines[i].table \in SpelledAs(n)
  <2>1. \A x : x \in modes <=> \E i \in Models(lines) : x = W(i).mode /\ W(i).table = n
    BY <1>3, <1>7
  <2> QED BY <1>4, <1>6, <2>1
<1> QED BY <1>5 DEF modes

(* The classes whose table is n.                                             *)
KnownAs(known, n, classes) ==
  \A c : (c \in DOMAIN known /\ known[c] = n) <=> c \in classes

LEMMA QueryModes ==
  ASSUME NEW lines \in Seq(AnyLine), NEW known, NEW n, NEW classes, KnownAs(known, n, classes)
  PROVE  Modes(Queries(lines, known), n) =
           {lines[i].mode : i \in {j \in DOMAIN lines :
              /\ lines[j].kind = "query" /\ lines[j].class \in classes
              /\ lines[j].mode # "unknown_method"}}
<1> DEFINE modes == Modes(Queries(lines, known), n)
           Asks(i) == /\ lines[i].kind = "query" /\ lines[i].class \in DOMAIN known
                      /\ lines[i].mode # "unknown_method"
<1>1. \A u : u \in Queries(lines, known) <=>
        \E i \in DOMAIN lines : Asks(i) /\ u = Use(known[lines[i].class], lines[i].mode, i)
  BY DEF Queries
<1>2. \A t, m, i : Use(t, m, i).table = t /\ Use(t, m, i).mode = m
  BY DEF Use
<1>3. \A x : x \in modes <=> \E u \in Queries(lines, known) : x = u.mode /\ u.table = n
  BY DEF Modes
<1> HIDE DEF modes
<1>4. \A x : x \in modes <=> \E i \in DOMAIN lines : Asks(i) /\ x = lines[i].mode /\ known[lines[i].class] = n
  BY <1>1, <1>2, <1>3
<1>5. \A x : x \in modes <=> \E i \in DOMAIN lines :
        /\ lines[i].kind = "query" /\ lines[i].class \in classes /\ lines[i].mode # "unknown_method"
        /\ x = lines[i].mode
  BY <1>4 DEF KnownAs
<1> QED BY <1>5 DEF modes

(* The literals of Go.                                                      *)

LEMMA NormalizedIs ==
  ASSUME NEW T, NEW words \in Seq(T)
  PROVE  LET normal == Normalized(words)
         IN /\ normal \in Seq(Range(normal))
            /\ Len(normal) = Len(words) /\ DOMAIN normal = DOMAIN words
<1> DEFINE w(i) == IF words[i] \in DOMAIN WithoutPlaceholder THEN WithoutPlaceholder[words[i]]
                   ELSE words[i]
           normal == Normalized(words)
<1>1. normal = [i \in DOMAIN words |-> w(i)]
  BY DEF Normalized
<1>2. DOMAIN words = 1..Len(words) /\ Len(words) \in Nat
  OBVIOUS
<1> HIDE DEF w, normal
<1>3. \A i \in DOMAIN words : w(i) \in Range(normal)
  BY <1>1 DEF Range
<1>4. [i \in 1..Len(words) |-> w(i)] \in Seq(Range(normal))
  BY <1>2, <1>3
<1>5. DOMAIN normal = DOMAIN words /\ normal \in Seq(Range(normal))
  BY <1>1, <1>2, <1>4
<1>6. Len(normal) = Len(words)
  BY <1>2, <1>5
<1> QED BY <1>5, <1>6 DEF normal

Text(words) == <<Line("sql", words)>>

LEMMA TextOf ==
  ASSUME NEW T, NEW words \in Seq(T)
  PROVE  WordsOf(Text(words)) \in Seq(Spelling(T))
<1> DEFINE lines == Text(words)
           L == {Line("sql", words)}
<1>1. lines \in Seq(L) /\ Len(lines) = 1
  BY OneLong DEF Text
<1>2. \A i \in DOMAIN lines : lines[i].words = words
  <2>1. DOMAIN lines = {1} /\ lines[1] = Line("sql", words)
    BY DEF Text
  <2> QED BY <2>1 DEF Line
<1> HIDE DEF lines, L
<1>3. WordsOf(lines) \in Seq(Spelling(T))
  BY <1>1, <1>2, WordsAre
<1> QED BY <1>3 DEF lines

Identity(T) == [n \in T |-> n]

LEMMA LiteralSqlModes ==
  ASSUME NEW T, NEW words \in Seq(T), T = Range(words), TablesAreNamed(WordsOf(Text(words))),
         NEW n \in DOMAIN Unqualified
  PROVE  Modes(RawSql(Text(words), FALSE, Identity(T)), n) = SqlAccesses(Text(words), {n}, FALSE)
<1> DEFINE lines == Text(words)
           text == WordsOf(lines)
           name == Identity(T)
<1>1. text \in Seq(Spelling(T))
  BY TextOf
<1>2. {n} \in SUBSET DOMAIN Unqualified
  OBVIOUS
<1>3. Tells(text, name, n, {n})
  <2> SUFFICES ASSUME NEW q \in DOMAIN text, text[q].text \in DOMAIN Unqualified
               PROVE  name[text[q].text] = n <=> text[q].text \in {n}
    BY DEF Tells
  <2>1. text[q] \in Spelling(T)
    BY <1>1
  <2>2. text[q].text # "?"
    BY NamesAreNoKeywords DEF Unnamed
  <2> HIDE DEF text
  <2>3. text[q].text \in T
    BY <2>1, <2>2 DEF Spelling
  <2> QED BY <2>3 DEF Identity
<1> DEFINE imports == FALSE
           names == {n}
<1>4. TablesAreNamed(text) /\ text = WordsOf(lines) /\ (imports => ImportsStandAlone(lines))
  OBVIOUS
<1> HIDE DEF text, lines, name, imports, names
<1>5. Modes(RawSql(lines, imports, name), n) = SqlAccesses(lines, names, imports)
  <2>1. names \in SUBSET DOMAIN Unqualified /\ Tells(text, name, n, names)
    BY <1>2, <1>3 DEF names
  <2> QED BY <1>1, <1>4, <2>1, SqlIs
<1> QED BY <1>5 DEF lines, name, imports, names

LEMMA AcceptableIs ==
  /\ Acceptable \subseteq DOMAIN Unqualified
  /\ Acceptable \subseteq AcceptableProcedures
BY NamesAssumption

LEMMA ProcedureModes ==
  ASSUME NEW T, NEW words \in Seq(T), NEW n
  PROVE  n \in Procedures(words) \cap AcceptableProcedures <=>
           \E q \in 2..(Len(words) - 1) :
             /\ n \in AcceptableProcedures /\ words[q] = n
             /\ words[q - 1] \in {"BEGIN", "CALL"} /\ words[q + 1] = "("
<1> DEFINE m == Len(words)
           Calls(p) == words[p] \in {"BEGIN", "CALL"} /\ words[p + 1] \notin Unnamed /\ words[p + 2] = "("
           Said(q) == words[q] = n /\ words[q - 1] \in {"BEGIN", "CALL"} /\ words[q + 1] = "("
<1>1. m \in Nat
  OBVIOUS
<1>2. n \in Procedures(words) <=> \E p \in 1..(m - 2) : Calls(p) /\ n = words[p + 1]
  BY DEF Procedures
<1>3. ASSUME n \in AcceptableProcedures PROVE n \notin Unnamed
  BY <1>3, NamesAssumption
<1>4. ASSUME n \in AcceptableProcedures, NEW p \in 1..(m - 2), Calls(p), n = words[p + 1]
      PROVE  \E q \in 2..(m - 1) : Said(q)
  <2> DEFINE q == p + 1
  <2>1. q \in 2..(m - 1) /\ q - 1 = p /\ q + 1 = p + 2
    BY <1>1, <1>4
  <2>2. words[q] = n /\ words[p] \in {"BEGIN", "CALL"} /\ words[p + 2] = "("
    BY <1>4
  <2> HIDE DEF q
  <2>3. Said(q)
    BY <2>1, <2>2
  <2> QED BY <2>1, <2>3
<1>5. ASSUME n \in AcceptableProcedures, NEW q \in 2..(m - 1), Said(q)
      PROVE  \E p \in 1..(m - 2) : Calls(p) /\ n = words[p + 1]
  <2> DEFINE p == q - 1
  <2>1. p \in 1..(m - 2) /\ p + 1 = q /\ p + 2 = q + 1
    BY <1>1, <1>5
  <2>2. words[q] = n /\ words[p] \in {"BEGIN", "CALL"} /\ words[q + 1] = "("
    BY <1>5
  <2> HIDE DEF p
  <2>3. Calls(p) /\ n = words[p + 1]
    BY <1>3, <1>5, <2>1, <2>2
  <2> QED BY <2>1, <2>3
<1> HIDE DEF Calls
<1>6. n \in Procedures(words) \cap AcceptableProcedures <=>
        n \in AcceptableProcedures /\ \E q \in 2..(m - 1) : Said(q)
  BY <1>2, <1>4, <1>5
<1> QED BY <1>6

(* The modes of a name in a literal.                                         *)
LEMMA LiteralModes ==
  ASSUME NEW literal, literal.words \in Seq(STRING),
         TablesAreNamed(WordsOf(Text(Normalized(literal.words)))), NEW n
  PROVE  /\ Modes(LiteralUses(literal), n) = LiteralAccesses(literal, n)
         /\ \A u \in LiteralUses(literal) : u.table \in AcceptableProcedures
<1> DEFINE words == Normalized(literal.words)
           T == Range(words)
           references == RawSql(Text(words), FALSE, Identity(T))
           procedures == Procedures(words) \cap AcceptableProcedures
           calls == {Use(t, "unknown", 0) : t \in procedures}
           kept == {r \in references : r.table \in Acceptable}
           sql == {[u EXCEPT !.line = 0] : u \in kept}
<1>1. words \in Seq(T)
  BY NormalizedIs
<1>2. LiteralUses(literal) = IF literal.kind = "boilerplate" THEN {} ELSE calls \cup sql
  BY DEF LiteralUses, Text, Identity
<1>3. LiteralAccesses(literal, n) =
        IF literal.kind = "boilerplate" THEN {}
        ELSE (IF n \in Acceptable THEN SqlAccesses(Text(words), {n}, FALSE) ELSE {})
             \cup {"unknown" : p \in {q \in 2..(Len(words) - 1) :
                   /\ n \in AcceptableProcedures /\ words[q] = n
                   /\ words[q - 1] \in {"BEGIN", "CALL"} /\ words[q + 1] = "("}}
  BY DEF LiteralAccesses, Text
<1>4. \A r \in references : \E t, m, l : r = Use(t, m, l)
  BY DEF RawSql
<1>5. \A r \in references : /\ [r EXCEPT !.line = 0].table = r.table
                            /\ [r EXCEPT !.line = 0].mode = r.mode
  BY <1>4 DEF Use
<1>6. n \in Acceptable => Modes(references, n) = SqlAccesses(Text(words), {n}, FALSE)
  <2>1. TablesAreNamed(WordsOf(Text(words))) /\ T = Range(words)
    OBVIOUS
  <2> HIDE DEF words, T
  <2> QED BY <1>1, <2>1, AcceptableIs, LiteralSqlModes
<1>7. n \in procedures <=>
           \E q \in 2..(Len(words) - 1) :
             /\ n \in AcceptableProcedures /\ words[q] = n
             /\ words[q - 1] \in {"BEGIN", "CALL"} /\ words[q + 1] = "("
  <2> HIDE DEF words, T
  <2> QED BY <1>1, ProcedureModes
<1> HIDE DEF words, T, references, procedures
<1>8. /\ \A x : x \in Modes(calls, n) <=> x = "unknown" /\ n \in procedures
      /\ \A u \in calls : u.table \in procedures
  <2> DEFINE C(t) == Use(t, "unknown", 0)
  <2>1. \A t : C(t).table = t /\ C(t).mode = "unknown"
    BY DEF Use
  <2>2. \A u : u \in calls <=> \E t \in procedures : u = C(t)
    OBVIOUS
  <2>3. \A x : x \in Modes(calls, n) <=> \E u \in calls : x = u.mode /\ u.table = n
    BY DEF Modes
  <2> HIDE DEF C, calls
  <2> QED BY <2>1, <2>2, <2>3
<1>9. /\ \A x : x \in Modes(sql, n) <=> n \in Acceptable /\ x \in Modes(references, n)
      /\ \A u \in sql : u.table \in Acceptable
  <2> DEFINE K(r) == [r EXCEPT !.line = 0]
  <2>1. \A r \in references : K(r).table = r.table /\ K(r).mode = r.mode
    BY <1>5
  <2>2. \A u : u \in sql <=> \E r \in references : r.table \in Acceptable /\ u = K(r)
    OBVIOUS
  <2>3. \A x : x \in Modes(sql, n) <=> \E u \in sql : x = u.mode /\ u.table = n
    BY DEF Modes
  <2>4. \A x : x \in Modes(references, n) <=> \E r \in references : x = r.mode /\ r.table = n
    BY DEF Modes
  <2> HIDE DEF K, sql
  <2>5. ASSUME NEW x PROVE x \in Modes(sql, n) <=> n \in Acceptable /\ x \in Modes(references, n)
    BY <2>1, <2>2, <2>3, <2>4
  <2>6. \A u \in sql : u.table \in Acceptable
    BY <2>1, <2>2
  <2> QED BY <2>5, <2>6
<1> HIDE DEF calls, sql
<1>10. Modes(calls \cup sql, n) = Modes(calls, n) \cup Modes(sql, n)
  BY ModesOfBoth
<1>11. Modes({}, n) = {}
  BY DEF Modes
<1>12. \A u \in calls \cup sql : u.table \in AcceptableProcedures
  <2>1. procedures \subseteq AcceptableProcedures
    BY DEF procedures
  <2> QED BY <1>8, <1>9, <2>1, AcceptableIs
<1>13. CASE literal.kind = "boilerplate"
  BY <1>2, <1>3, <1>11, <1>13
<1>14. CASE literal.kind # "boilerplate"
  <2> DEFINE said == IF n \in Acceptable THEN SqlAccesses(Text(words), {n}, FALSE) ELSE {}
  <2>0. \A x : x \in LiteralAccesses(literal, n) <=>
          x \in said \/ (x = "unknown" /\ n \in procedures)
    BY <1>3, <1>7, <1>14
  <2>2. \A x : x \in said <=> n \in Acceptable /\ x \in Modes(references, n)
    BY <1>6
  <2> HIDE DEF said
  <2>1. \A x : x \in Modes(calls \cup sql, n) <=> x \in LiteralAccesses(literal, n)
    BY <1>8, <1>9, <1>10, <2>0, <2>2
  <2> QED BY <1>2, <1>12, <1>14, <2>1
<1> QED BY <1>13, <1>14

-----------------------------------------------------------------------------
(* The classes and their tables.                                            *)

NoClass == ""

Owners(lines) == {Owner(lines, i) : i \in Models(lines)} \ {NoClass}

(* D says what known does, but for the classes of lines.                     *)
Declares(D, lines, known) ==
  /\ DOMAIN D = DOMAIN known \cup Owners(lines)
  /\ \A c \in Owners(lines) : \E i \in Models(lines) :
       Owner(lines, i) = c /\ D[c] = Unqualified[lines[i].table]
  /\ \A c \in DOMAIN known \ Owners(lines) : D[c] = known[c]

LEMMA DeclaredIs ==
  ASSUME NEW L, NEW lines \in Seq(L), NEW known
  PROVE  Declares(Declared(lines, known), lines, known)
<1>0. Len(lines) \in Nat /\ DOMAIN lines = 1..Len(lines) /\ Models(lines) \subseteq DOMAIN lines
  BY DEF Models
<1> DEFINE D == Declared(lines, known)
           owners == {Owner(lines, i) : i \in Models(lines)} \ {""}
           Of(class) == {i \in Models(lines) : Owner(lines, i) = class}
           Later(i, j) == \/ lines[i].kind = lines[j].kind /\ i >= j
                          \/ lines[i].kind = "db_table" /\ lines[j].kind # "db_table"
           LastOf(c) == CHOOSE i \in Of(c) : \A j \in Of(c) : Later(i, j)
<1>1. D = [c \in DOMAIN known \cup owners |->
             IF c \in owners THEN Unqualified[lines[LastOf(c)].table] ELSE known[c]]
  BY DEF Declared
<1>2. ASSUME NEW c \in owners
      PROVE  \E i \in Of(c) : \A j \in Of(c) : Later(i, j)
  <2> DEFINE n == Len(lines)
             K == {i \in Of(c) : lines[i].kind = "db_table"}
  <2>0. \A i \in Of(c) : i \in Models(lines)
    OBVIOUS
  <2>7. c # "" /\ \E i \in Models(lines) : Owner(lines, i) = c
    OBVIOUS
  <2> HIDE DEF owners
  <2>1. n \in Nat /\ DOMAIN lines = 1..n /\ Of(c) # {}
    BY <1>0, <2>7
  <2>2. Of(c) \in SUBSET (0..n) /\ \A i \in Of(c) : i \in Nat
    <3> HIDE DEF n, Of
    <3>1. \A i \in Of(c) : i \in 1..n
      BY <1>0, <2>0, <2>1
    <3>2. \A i \in 1..n : i \in 0..n /\ i \in Nat
      BY <2>1
    <3> DEFINE O == Of(c)
    <3>3. \A i \in O : i \in 0..n /\ i \in Nat
      BY <3>1, <3>2
    <3>4. O \in SUBSET (0..n) /\ \A i \in O : i \in Nat
      <4> HIDE DEF O
      <4> QED BY <3>3
    <3> QED BY <3>4
  <2>3. \A i \in Of(c) : lines[i].kind \in {"__tablename__", "db_table"}
    BY <2>7 DEF Models, Owner
  <2> HIDE DEF n
  <2>4. CASE K # {}
    <3>1. K \in SUBSET (0..n)
      BY <2>2
    <3>2. PICK i \in K : \A j \in K : j <= i
      <4> HIDE DEF K
      <4> QED BY <2>1, <2>4, <3>1, GreatestElement
    <3>3. ASSUME NEW j \in Of(c) PROVE Later(i, j)
      <4>1. i \in Nat /\ j \in Nat
        <5>1. i \in Of(c)
          OBVIOUS
        <5> QED BY <2>2, <5>1
      <4>2. CASE j \in K
        BY <3>2, <4>1, <4>2
      <4>3. CASE j \notin K
        BY <3>2, <4>3
      <4> QED BY <4>2, <4>3
    <3> QED BY <3>3
  <2>5. CASE K = {}
    <3>1. PICK i \in Of(c) : \A j \in Of(c) : j <= i
      <4> HIDE DEF Of
      <4> QED BY <2>1, <2>2, GreatestElement
    <3>2. ASSUME NEW j \in Of(c) PROVE Later(i, j)
      <4>1. i \in Nat /\ j \in Nat
        BY <2>2
      <4>2. lines[i].kind = "__tablename__" /\ lines[j].kind = "__tablename__"
        BY <2>3, <2>5
      <4>3. j <= i
        BY <3>1
      <4> QED BY <4>1, <4>2, <4>3
    <3> QED BY <3>2
  <2> QED BY <2>4, <2>5
<1>3. ASSUME NEW c \in owners
      PROVE  LastOf(c) \in Models(lines) /\ Owner(lines, LastOf(c)) = c
  <2> HIDE DEF Later
  <2> QED BY <1>2
<1> HIDE DEF owners, LastOf, D
<1>4. DOMAIN D = DOMAIN known \cup owners
  BY <1>1
<1>5. \A c \in owners : \E i \in Models(lines) :
        Owner(lines, i) = c /\ D[c] = Unqualified[lines[i].table]
  BY <1>1, <1>3
<1>6. \A c \in DOMAIN known \ owners : D[c] = known[c]
  BY <1>1
<1> QED BY <1>4, <1>5, <1>6 DEF D, owners, Owners, NoClass, Declares

-----------------------------------------------------------------------------
(* What has been found of a name in a file, pass by pass.                   *)

(* What one pass finds of a name in one file.                                *)
PartIn(pass, file, classes, n) ==
  IF file.skipped THEN {}
  ELSE CASE pass = "models" ->
              {"write" : i \in {j \in Models(file.lines) : file.lines[j].table \in SpelledAs(n)}}
         [] pass = "sql" ->
              SqlAccesses(file.lines, SpelledAs(n), TRUE)
              \cup {"write" : i \in {j \in DOMAIN file.lines :
                       file.lines[j].kind = "op" /\ file.lines[j].tables \cap SpelledAs(n) # {}}}
         [] pass = "queries" ->
              {file.lines[i].mode : i \in {j \in DOMAIN file.lines :
                 /\ file.lines[j].kind = "query" /\ file.lines[j].class \in classes
                 /\ file.lines[j].mode # "unknown_method"}}
         [] pass = "literals" ->
              UNION {LiteralAccesses(file.lines[i], n) : i \in DOMAIN file.lines}

PartOf(pass, f, n) == PartIn(pass, Files[f], ClassesOf(n), n)

Passes == IF tableRepo.language = "go" THEN {"literals"} ELSE {"models", "sql", "queries"}

PassesBefore ==
  CASE tablePass \in {"models", "literals"} -> {}
    [] tablePass = "sql" -> {"models"}
    [] tablePass = "queries" -> {"models", "sql"}
    [] tablePass = "aggregated" -> Passes

(* The files that a pass has been through.                                   *)
PassedFiles(pass) ==
  IF pass \in PassesBefore THEN DOMAIN Files
  ELSE IF pass = tablePass THEN 1..(tableFile - 1) ELSE {}

UsedAs(f, n) == {u.mode : u \in {v \in uses : v.table = n /\ v.path = f}}

Found(f, n) == UNION {PartOf(p, f, n) : p \in {q \in Passes : f \in PassedFiles(q)}}

TableNames == Range(Unqualified) \cup AcceptableProcedures

TablePassInRange ==
  /\ tableRepo \in TableRepositories
  /\ tablePass \in Passes \cup {"aggregated"}
  /\ tableFile \in 1..(Len(Files) + 1)

OwnedBy(c, f, i) ==
  /\ f \in PassedFiles("models") /\ i \in ModelsOf(f)
  /\ Owner(Files[f].lines, i) = c /\ c # NoClass

(* The known classes are those of the models so far, each with a table of    *)
(* its own.                                                                  *)
ModelsKnown ==
  /\ \A c \in DOMAIN modelTables : \E f \in DOMAIN Files : \E i \in ModelsOf(f) :
       OwnedBy(c, f, i) /\ modelTables[c] = Unqualified[Files[f].lines[i].table]
  /\ \A f \in DOMAIN Files : \A i \in ModelsOf(f) : \A c :
       OwnedBy(c, f, i) => c \in DOMAIN modelTables

(* The detections are what the passes find of the names.                     *)
UsesAreFound ==
  /\ \A u \in uses : u.table \in TableNames /\ u.path \in DOMAIN Files
  /\ \A f \in DOMAIN Files : \A n \in TableNames : UsedAs(f, n) = Found(f, n)

TablesInv ==
  /\ TablePassInRange
  /\ Ordinary => UsesAreFound /\ (tableRepo.language # "go" => ModelsKnown)
  /\ tablePass = "aggregated" => tables = Aggregated

(* The repository.                                                           *)
LEMMA TableRepositoryIs ==
  ASSUME tableRepo \in TableRepositories
  PROVE  /\ Len(Files) \in Nat /\ DOMAIN Files = 1..Len(Files)
         /\ \A f \in DOMAIN Files :
              /\ Files[f].skipped \in BOOLEAN /\ Files[f].lines \in Seq(AnyLine)
              /\ \A i \in DOMAIN Files[f].lines :
                   tableRepo.language = "go" <=>
                     Files[f].lines[i].kind \in {"literal", "boilerplate"}
<1> DEFINE FileType == [skipped : BOOLEAN, lines : Seq(AnyLine)]
<1>1. /\ Files \in Seq(FileType)
      /\ \A f \in DOMAIN Files : \A i \in DOMAIN Files[f].lines :
           tableRepo.language = "go" <=> Files[f].lines[i].kind \in {"literal", "boilerplate"}
  BY TableRepositoriesAssumption DEF Files
<1>2. \A x \in FileType : x.skipped \in BOOLEAN /\ x.lines \in Seq(AnyLine)
  OBVIOUS
<1> HIDE DEF FileType
<1>3. Len(Files) \in Nat /\ DOMAIN Files = 1..Len(Files) /\ \A f \in DOMAIN Files : Files[f] \in FileType
  BY <1>1
<1> QED BY <1>1, <1>2, <1>3

(* It stays as it is, and what is said of it.                                *)
LEMMA TableRepositoryStays ==
  ASSUME tableRepo' = tableRepo
  PROVE  /\ Files' = Files /\ Passes' = Passes /\ (Ordinary' <=> Ordinary)
         /\ \A f : ModelsOf(f)' = ModelsOf(f)
         /\ \A p, f, n : PartOf(p, f, n)' = PartOf(p, f, n)
<1>1. Files' = Files /\ Passes' = Passes
  BY DEF Files, Passes
<1>2. Ordinary' <=> Ordinary
  BY DEF Ordinary, ClassesHaveOneTable, ModelsOf, Files
<1>3. \A f : ModelsOf(f)' = ModelsOf(f)
  BY DEF ModelsOf, Files
<1>4. \A n : ClassesOf(n)' = ClassesOf(n)
  BY DEF ClassesOf, ModelsOf, Files
<1>5. \A p, f, n : PartOf(p, f, n)' = PartOf(p, f, n)
  BY <1>1, <1>4 DEF PartOf
<1> QED BY <1>1, <1>2, <1>3, <1>5

(* A file further, one pass has been through one file more.                  *)
LEMMA OneFileFurther ==
  ASSUME TablePassInRange, tablePass # "aggregated", tableFile <= Len(Files),
         tableRepo' = tableRepo, tablePass' = tablePass, tableFile' = tableFile + 1
  PROVE  /\ TablePassInRange' /\ tableFile \in DOMAIN Files /\ tablePass \in Passes
         /\ \A q : PassedFiles(q)' = IF q = tablePass THEN PassedFiles(q) \cup {tableFile} ELSE PassedFiles(q)
<1>1. Len(Files) \in Nat /\ DOMAIN Files = 1..Len(Files)
  BY TableRepositoryIs DEF TablePassInRange
<1>2. Files' = Files /\ Passes' = Passes
  BY TableRepositoryStays
<1>3. tableFile \in Nat \ {0} /\ tableFile \in DOMAIN Files /\ tablePass \in Passes
  BY <1>1 DEF TablePassInRange
<1>4. TablePassInRange'
  BY <1>1, <1>2, <1>3 DEF TablePassInRange
<1>5. PassesBefore' = PassesBefore
  BY <1>2 DEF PassesBefore
<1>6. tablePass \notin PassesBefore
  BY <1>3 DEF PassesBefore, Passes
<1>7. 1..(tableFile' - 1) = 1..(tableFile - 1) \cup {tableFile}
  BY <1>3
<1>8. ASSUME NEW q PROVE PassedFiles(q)' = IF q = tablePass THEN PassedFiles(q) \cup {tableFile} ELSE PassedFiles(q)
  <2>1. PassedFiles(q)' = IF q \in PassesBefore THEN DOMAIN Files
                     ELSE IF q = tablePass THEN 1..(tableFile' - 1) ELSE {}
    BY <1>2, <1>5 DEF PassedFiles
  <2>2. CASE q = tablePass
    BY <1>6, <1>7, <2>1, <2>2 DEF PassedFiles
  <2>3. CASE q # tablePass
    BY <2>1, <2>3 DEF PassedFiles
  <2> QED BY <2>2, <2>3
<1> QED BY <1>3, <1>4, <1>8

(* What a pass adds is found.                                                *)
LEMMA AddFinds ==
  ASSUME TablePassInRange, tablePass # "aggregated", tableFile <= Len(Files), UsesAreFound,
         NEW new, Add(new),
         \A n \in TableNames : PartOf(tablePass, tableFile, n) =
           IF Files[tableFile].skipped THEN {} ELSE Modes(new, n),
         ~Files[tableFile].skipped => \A u \in new : u.table \in TableNames
  PROVE  UsesAreFound'
<1> DEFINE k == tableFile
           S(u) == [table |-> u.table, mode |-> u.mode, path |-> k, line |-> u.line]
<1>1. /\ uses' = IF Files[k].skipped THEN uses ELSE uses \cup {S(u) : u \in new}
      /\ tableRepo' = tableRepo /\ tablePass' = tablePass /\ tableFile' = tableFile + 1
  BY DEF Add
<1>2. \A u : S(u).table = u.table /\ S(u).mode = u.mode /\ S(u).path = k
  OBVIOUS
<1> HIDE DEF S
<1>3. /\ k \in DOMAIN Files /\ tablePass \in Passes
      /\ \A q : PassedFiles(q)' = IF q = tablePass THEN PassedFiles(q) \cup {k} ELSE PassedFiles(q)
  BY <1>1, OneFileFurther
<1>4. /\ Files' = Files /\ Passes' = Passes
      /\ \A p, f, n : PartOf(p, f, n)' = PartOf(p, f, n)
  BY <1>1, TableRepositoryStays
<1>5. \A u \in uses' : u.table \in TableNames /\ u.path \in DOMAIN Files'
  BY <1>1, <1>2, <1>3, <1>4 DEF UsesAreFound
<1>6. ASSUME NEW f \in DOMAIN Files, NEW n \in TableNames
      PROVE  UsedAs(f, n)' = IF f = k /\ ~Files[k].skipped THEN UsedAs(f, n) \cup Modes(new, n)
                             ELSE UsedAs(f, n)
  <2>1. \A x : x \in UsedAs(f, n) <=> \E u \in uses : x = u.mode /\ u.table = n /\ u.path = f
    BY DEF UsedAs
  <2>2. \A x : x \in UsedAs(f, n)' <=> \E u \in uses' : x = u.mode /\ u.table = n /\ u.path = f
    BY DEF UsedAs
  <2>3. \A x : x \in Modes(new, n) <=> \E u \in new : x = u.mode /\ u.table = n
    BY DEF Modes
  <2>4. CASE Files[k].skipped
    BY <1>1, <2>1, <2>2, <2>4
  <2>5. CASE ~Files[k].skipped
    <3>1. \A x : x \in UsedAs(f, n)' <=>
            x \in UsedAs(f, n) \/ (f = k /\ x \in Modes(new, n))
      BY <1>1, <1>2, <2>1, <2>2, <2>3, <2>5
    <3> QED BY <2>5, <3>1
  <2> QED BY <2>4, <2>5
<1>7. ASSUME NEW f \in DOMAIN Files, NEW n \in TableNames
      PROVE  Found(f, n)' = IF f = k THEN Found(f, n) \cup PartOf(tablePass, k, n) ELSE Found(f, n)
  <2>1. \A x : x \in Found(f, n) <=> \E q \in Passes : f \in PassedFiles(q) /\ x \in PartOf(q, f, n)
    BY DEF Found
  <2>2. \A x : x \in Found(f, n)' <=> \E q \in Passes' : f \in PassedFiles(q)' /\ x \in PartOf(q, f, n)'
    BY DEF Found
  <2>3. \A x : x \in Found(f, n)' <=> \E q \in Passes :
          (f \in PassedFiles(q) \/ (q = tablePass /\ f = k)) /\ x \in PartOf(q, f, n)
    BY <1>3, <1>4, <2>2
  <2>4. \A x : x \in Found(f, n)' <=> x \in Found(f, n) \/ (f = k /\ x \in PartOf(tablePass, k, n))
    BY <1>3, <2>1, <2>3
  <2> QED BY <2>4
<1>8. ASSUME NEW f \in DOMAIN Files, NEW n \in TableNames
      PROVE  UsedAs(f, n)' = Found(f, n)'
  <2>1. UsedAs(f, n) = Found(f, n)
    BY DEF UsesAreFound
  <2>2. PartOf(tablePass, k, n) = IF Files[k].skipped THEN {} ELSE Modes(new, n)
    OBVIOUS
  <2> HIDE DEF k
  <2> QED BY <1>6, <1>7, <2>1, <2>2
<1> QED BY <1>4, <1>5, <1>8 DEF UsesAreFound

-----------------------------------------------------------------------------
(* The four passes.                                                         *)

(* The names that SQL gives are tables.                                      *)
LEMMA SqlNames ==
  ASSUME NEW lines \in Seq(AnyLine), TablesAreNamed(WordsOf(lines)), NEW imports, NEW name,
         NEW u \in RawSql(lines, imports, name)
  PROVE  \E t \in DOMAIN Unqualified : u.table = name[t]
<1> DEFINE words == WordsOf(lines)
           raw == RawSql(lines, imports, name)
           n == u.table
<1>1. words \in Seq(Spelling(STRING)) /\ words = WordsOf(lines) /\ TablesAreNamed(words)
  BY TextIs
<1> HIDE DEF words, n
<1>2. /\ \A v \in raw : v.mode \in {"read", "write"}
      /\ HasUse(raw, "write", n) <=> WriteFound(lines, imports, words, name, n)
      /\ HasUse(raw, "read", n) <=> ReadFound(lines, imports, words, name, n)
  BY <1>1, RawSqlGives
<1>3. HasUse(raw, "write", n) \/ HasUse(raw, "read", n)
  BY <1>2 DEF HasUse, n
<1>4. \E pattern \in Patterns : \E p \in Starts(words, pattern) :
        name[words[TableAt(words, p, pattern)].text] = n
  BY <1>2, <1>3, PatternKinds DEF WriteFound, ReadFound
<1>5. PICK pattern \in Patterns : \E p \in Starts(words, pattern) :
        name[words[TableAt(words, p, pattern)].text] = n
  BY <1>4
<1>6. PICK p \in Starts(words, pattern) : name[words[TableAt(words, p, pattern)].text] = n
  BY <1>5
<1>7. words[TableAt(words, p, pattern)].text \in DOMAIN Unqualified
  BY <1>1, MatchGives
<1> QED BY <1>6, <1>7 DEF n

LEMMA InRange ==
  ASSUME NEW t \in DOMAIN Unqualified
  PROVE  Unqualified[t] \in TableNames
BY DEF TableNames, Range

LEMMA AtFileIs ==
  ASSUME NEW pass, AtFile(pass), TablePassInRange, pass # "aggregated"
  PROVE  /\ tablePass = pass /\ tableFile <= Len(Files) /\ tablePass # "aggregated"
         /\ tableFile \in DOMAIN Files /\ Lines = Files[tableFile].lines
         /\ Lines \in Seq(AnyLine) /\ pass \in Passes
<1>1. Len(Files) \in Nat /\ DOMAIN Files = 1..Len(Files)
      /\ \A f \in DOMAIN Files : Files[f].lines \in Seq(AnyLine)
  BY TableRepositoryIs DEF TablePassInRange
<1>2. tableFile \in 1..Len(Files)
  BY <1>1 DEF TablePassInRange, AtFile
<1> QED BY <1>1, <1>2 DEF TablePassInRange, AtFile, Lines

(* What becomes of the known classes.                                        *)
LEMMA ModelsNext ==
  ASSUME AtFile("models"), TablePassInRange, ModelsKnown,
         tableRepo' = tableRepo, tablePass' = tablePass, tableFile' = tableFile + 1,
         modelTables' = IF Files[tableFile].skipped THEN modelTables
                        ELSE Declared(Lines, modelTables)
  PROVE  ModelsKnown'
<1>0. PICK k : k = tableFile
  OBVIOUS
<1>1. /\ tablePass = "models" /\ k \in DOMAIN Files /\ Lines = Files[k].lines
      /\ Lines \in Seq(AnyLine) /\ tablePass # "aggregated" /\ tableFile <= Len(Files)
  BY <1>0, AtFileIs
<1>2. PassedFiles("models")' = PassedFiles("models") \cup {k}
  BY <1>0, <1>1, OneFileFurther
<1>3. Files' = Files /\ \A f : ModelsOf(f)' = ModelsOf(f)
  BY TableRepositoryStays
<1>4. ASSUME NEW c, NEW f \in DOMAIN Files, NEW i \in ModelsOf(f)
      PROVE  OwnedBy(c, f, i)' <=>
               OwnedBy(c, f, i) \/ (f = k /\ Owner(Files[k].lines, i) = c /\ c # NoClass)
  BY <1>2, <1>3 DEF OwnedBy
<1>5. CASE Files[k].skipped
  <2>1. ModelsOf(k) = {}
    BY <1>5 DEF ModelsOf
  <2>2. modelTables' = modelTables
    BY <1>0, <1>5
  <2>3. \A c : \A f \in DOMAIN Files : \A i \in ModelsOf(f) : OwnedBy(c, f, i)' <=> OwnedBy(c, f, i)
    BY <1>4, <2>1
  <2> QED BY <1>3, <2>2, <2>3 DEF ModelsKnown
<1>6. CASE ~Files[k].skipped
  <2> DEFINE lines == Files[k].lines
             D == Declared(lines, modelTables)
             owners == Owners(lines)
  <2>1. ModelsOf(k) = Models(lines)
    BY <1>6 DEF ModelsOf
  <2>2. modelTables' = D
    BY <1>0, <1>1, <1>6
  <2>0. lines \in Seq(AnyLine)
    BY <1>1
  <2> HIDE DEF lines
  <2>3. /\ DOMAIN D = DOMAIN modelTables \cup owners
        /\ \A c \in owners : \E i \in Models(lines) :
             Owner(lines, i) = c /\ D[c] = Unqualified[lines[i].table]
        /\ \A c \in DOMAIN modelTables \ owners : D[c] = modelTables[c]
    <3>1. Declares(Declared(lines, modelTables), lines, modelTables)
      BY <2>0, DeclaredIs
    <3> QED BY <3>1 DEF Declares
  <2>4. /\ \A c \in owners : c # NoClass
        /\ \A i \in Models(lines) : Owner(lines, i) # NoClass => Owner(lines, i) \in owners
    BY DEF Owners
  <2> HIDE DEF D, owners
  <2>5. ASSUME NEW c \in DOMAIN D
        PROVE  \E f \in DOMAIN Files : \E i \in ModelsOf(f) :
                 OwnedBy(c, f, i)' /\ D[c] = Unqualified[Files[f].lines[i].table]
    <3>1. CASE c \in owners
      <4>1. PICK i \in Models(lines) : Owner(lines, i) = c /\ D[c] = Unqualified[lines[i].table]
        BY <2>3, <3>1
      <4>2. i \in ModelsOf(k) /\ k \in DOMAIN Files /\ c # NoClass
        BY <1>1, <2>1, <2>4, <3>1
      <4>3. OwnedBy(c, k, i)'
        BY <1>4, <4>1, <4>2 DEF lines
      <4> QED BY <4>1, <4>2, <4>3 DEF lines
    <3>2. CASE c \notin owners
      <4>1. c \in DOMAIN modelTables /\ D[c] = modelTables[c]
        BY <2>3, <3>2
      <4> QED BY <1>4, <4>1 DEF ModelsKnown
    <3> QED BY <3>1, <3>2
  <2>6. ASSUME NEW f \in DOMAIN Files, NEW i \in ModelsOf(f), NEW c, OwnedBy(c, f, i)'
        PROVE  c \in DOMAIN D
    <3>1. CASE OwnedBy(c, f, i)
      BY <2>3, <3>1 DEF ModelsKnown
    <3>2. CASE f = k /\ Owner(lines, i) = c /\ c # NoClass
      BY <2>1, <2>3, <2>4, <3>2
    <3> QED BY <1>4, <2>6, <3>1, <3>2 DEF lines
  <2> QED BY <1>3, <2>2, <2>5, <2>6 DEF ModelsKnown
<1> QED BY <1>5, <1>6

(* Where nothing is learnt of the classes.                                   *)
LEMMA ModelsStay ==
  ASSUME ModelsKnown, tableRepo' = tableRepo, modelTables' = modelTables,
         PassedFiles("models")' = PassedFiles("models")
  PROVE  ModelsKnown'
<1>1. Files' = Files /\ \A f : ModelsOf(f)' = ModelsOf(f)
  BY TableRepositoryStays
<1>2. \A c, f, i : OwnedBy(c, f, i)' <=> OwnedBy(c, f, i)
  BY <1>1 DEF OwnedBy
<1> QED BY <1>1, <1>2 DEF ModelsKnown

LEMMA FindModelsStaysExact ==
  ASSUME TablesInv, FindModels
  PROVE  TablesInv'
<1>1. AtFile("models") /\ Add(ModelUses(Lines)) /\ TablePassInRange
  BY DEF FindModels, TablesInv
<1>2. /\ tablePass = "models" /\ tableFile \in DOMAIN Files /\ Lines = Files[tableFile].lines
      /\ Lines \in Seq(AnyLine) /\ tablePass # "aggregated" /\ tableFile <= Len(Files)
      /\ "models" \in Passes
  BY <1>1, AtFileIs
<1>3. /\ tableRepo' = tableRepo /\ tablePass' = tablePass /\ tableFile' = tableFile + 1
      /\ modelTables' = IF Files[tableFile].skipped THEN modelTables
                        ELSE Declared(Lines, modelTables)
  BY <1>1 DEF Add, FindModels
<1>4. TablePassInRange'
  BY <1>1, <1>2, <1>3, OneFileFurther
<1>5. Ordinary' <=> Ordinary
  BY <1>3, TableRepositoryStays
<1>6. \A n \in TableNames : PartOf(tablePass, tableFile, n) =
        IF Files[tableFile].skipped THEN {} ELSE Modes(ModelUses(Lines), n)
  BY <1>2, ModelModes DEF PartOf, PartIn
<1>7. \A u \in ModelUses(Lines) : u.table \in TableNames
  <2>1. \A i \in Models(Lines) : Lines[i].table \in DOMAIN Unqualified
    BY <1>2, LinesAre DEF Models
  <2> QED BY <2>1, InRange DEF ModelUses, Use
<1>8. ASSUME Ordinary PROVE UsesAreFound'
  <2>1. UsesAreFound
    BY <1>8 DEF TablesInv
  <2> QED BY <1>1, <1>2, <1>6, <1>7, <2>1, AddFinds
<1>9. tableRepo.language # "go"
  BY <1>2 DEF Passes
<1>10. ASSUME Ordinary PROVE ModelsKnown'
  <2>1. ModelsKnown
    BY <1>9, <1>10 DEF TablesInv
  <2> QED BY <1>1, <1>3, <2>1, ModelsNext
<1> QED BY <1>2, <1>3, <1>4, <1>5, <1>8, <1>10 DEF TablesInv

LEMMA FindSqlStaysExact ==
  ASSUME TablesInv, FindSql
  PROVE  TablesInv'
<1> DEFINE new == RawSql(Lines, TRUE, Unqualified) \cup Migrations(Lines)
<1>1. AtFile("sql") /\ Add(new) /\ TablePassInRange
  BY DEF FindSql, TablesInv
<1>2. /\ tablePass = "sql" /\ tableFile \in DOMAIN Files /\ Lines = Files[tableFile].lines
      /\ Lines \in Seq(AnyLine) /\ tablePass # "aggregated" /\ tableFile <= Len(Files)
      /\ "sql" \in Passes
  BY <1>1, AtFileIs
<1>3. /\ tableRepo' = tableRepo /\ tablePass' = tablePass /\ tableFile' = tableFile + 1
      /\ modelTables' = modelTables
  BY <1>1 DEF Add, FindSql
<1>4. TablePassInRange' /\ PassedFiles("models")' = PassedFiles("models")
  BY <1>1, <1>2, <1>3, OneFileFurther
<1>5. Ordinary' <=> Ordinary
  BY <1>3, TableRepositoryStays
<1>6. tableRepo.language # "go"
  BY <1>2 DEF Passes
<1>7. ASSUME Ordinary PROVE UsesAreFound' /\ ModelsKnown'
  <2>1. UsesAreFound /\ ModelsKnown
    BY <1>6, <1>7 DEF TablesInv
  <2>2. TablesAreNamed(WordsOf(Lines)) /\ ImportsStandAlone(Lines)
    BY <1>2, <1>6, <1>7 DEF Ordinary
  <2>3. ASSUME NEW n
        PROVE  PartOf(tablePass, tableFile, n) = IF Files[tableFile].skipped THEN {} ELSE Modes(new, n)
    <3> DEFINE A == RawSql(Lines, TRUE, Unqualified)
               B == Migrations(Lines)
               spoken == SqlAccesses(Lines, SpelledAs(n), TRUE)
               migrated == {"write" : i \in {j \in DOMAIN Lines :
                              Lines[j].kind = "op" /\ Lines[j].tables \cap SpelledAs(n) # {}}}
    <3>1. Modes(A \cup B, n) = Modes(A, n) \cup Modes(B, n)
      <4> HIDE DEF A, B
      <4> QED BY ModesOfBoth
    <3>2. Modes(RawSql(Lines, TRUE, Unqualified), n) = SqlAccesses(Lines, SpelledAs(n), TRUE)
      BY <1>2, <2>2, SqlModes
    <3>3. Modes(Migrations(Lines), n) =
            {"write" : i \in {j \in DOMAIN Lines :
               Lines[j].kind = "op" /\ Lines[j].tables \cap SpelledAs(n) # {}}}
      BY <1>2, MigrationModes
    <3>4. PartOf(tablePass, tableFile, n) =
            IF Files[tableFile].skipped THEN {}
            ELSE SqlAccesses(Lines, SpelledAs(n), TRUE)
                 \cup {"write" : i \in {j \in DOMAIN Lines :
                         Lines[j].kind = "op" /\ Lines[j].tables \cap SpelledAs(n) # {}}}
      BY <1>2 DEF PartOf, PartIn
    <3>5. new = A \cup B
      OBVIOUS
    <3> HIDE DEF A, B, new, spoken, migrated
    <3>6. Modes(A, n) = spoken
      BY <3>2 DEF A, spoken
    <3>7. Modes(B, n) = migrated
      BY <3>3 DEF B, migrated
    <3>8. PartOf(tablePass, tableFile, n) =
            IF Files[tableFile].skipped THEN {} ELSE spoken \cup migrated
      BY <3>4 DEF spoken, migrated
    <3>9. Modes(new, n) = spoken \cup migrated
      BY <3>1, <3>5, <3>6, <3>7
    <3> QED BY <3>8, <3>9
  <2>4. ASSUME NEW u \in RawSql(Lines, TRUE, Unqualified) PROVE u.table \in TableNames
    <3> DEFINE imports == TRUE
    <3>2. u \in RawSql(Lines, imports, Unqualified)
      OBVIOUS
    <3> HIDE DEF imports
    <3>1. PICK t \in DOMAIN Unqualified : u.table = Unqualified[t]
      <4> HIDE DEF new
      <4> QED BY <1>2, <2>2, <3>2, SqlNames
    <3> QED BY <3>1, InRange
  <2>5. \A u \in Migrations(Lines) : u.table \in TableNames
    <3>1. \A i \in DOMAIN Lines : Lines[i].kind = "op" => Lines[i].tables \in SUBSET DOMAIN Unqualified
      BY <1>2, LinesAre
    <3>2. ASSUME NEW u \in Migrations(Lines) PROVE u.table \in TableNames
      <4>1. PICK i \in DOMAIN Lines : Lines[i].kind = "op" /\ \E t \in Lines[i].tables : u = Use(Unqualified[t], "write", i)
        BY DEF Migrations
      <4>2. PICK t \in Lines[i].tables : u = Use(Unqualified[t], "write", i)
        BY <4>1
      <4>3. t \in DOMAIN Unqualified /\ u.table = Unqualified[t]
        BY <3>1, <4>1, <4>2 DEF Use
      <4> QED BY <4>3, InRange
    <3> QED BY <3>2
  <2>6. \A u \in new : u.table \in TableNames
    BY <2>4, <2>5
  <2> HIDE DEF new
  <2>7. UsesAreFound'
    BY <1>1, <1>2, <2>1, <2>3, <2>6, AddFinds
  <2>8. ModelsKnown'
    BY <1>3, <1>4, <2>1, ModelsStay
  <2> QED BY <2>7, <2>8
<1> QED BY <1>2, <1>3, <1>4, <1>5, <1>7 DEF TablesInv

(* Once the models are known, the classes of a table are those of the        *)
(* reference.                                                                *)
LEMMA KnownClasses ==
  ASSUME TablePassInRange, ModelsKnown, ClassesHaveOneTable, PassedFiles("models") = DOMAIN Files,
         NEW n, NEW c
  PROVE  (c \in DOMAIN modelTables /\ modelTables[c] = n) <=> c \in ClassesOf(n)
<1>1. \A f \in DOMAIN Files : Files[f].lines \in Seq(AnyLine)
  BY TableRepositoryIs DEF TablePassInRange
<1>2. \A f \in DOMAIN Files : \A i \in ModelsOf(f) : Files[f].lines[i].table \in DOMAIN Unqualified
  BY <1>1, LinesAre DEF ModelsOf, Models
<1>3. c \in ClassesOf(n) <=> \E f \in DOMAIN Files : \E i \in ModelsOf(f) :
        OwnedBy(c, f, i) /\ Unqualified[Files[f].lines[i].table] = n
  <2>1. c \in ClassesOf(n) <=> c # NoClass /\ \E f \in DOMAIN Files : \E i \in ModelsOf(f) :
          Files[f].lines[i].table \in SpelledAs(n) /\ Owner(Files[f].lines, i) = c
    <3> DEFINE all == UNION {{Owner(Files[f].lines, i) :
                                i \in {j \in ModelsOf(f) : Files[f].lines[j].table \in SpelledAs(n)}} :
                               f \in DOMAIN Files}
    <3>1. c \in all <=> \E f \in DOMAIN Files : \E i \in ModelsOf(f) :
            Files[f].lines[i].table \in SpelledAs(n) /\ Owner(Files[f].lines, i) = c
      OBVIOUS
    <3>2. ClassesOf(n) = all \ {NoClass}
      BY DEF ClassesOf, NoClass
    <3> HIDE DEF all
    <3> QED BY <3>1, <3>2
  <2>2. \A f \in DOMAIN Files : \A i \in ModelsOf(f) :
          Files[f].lines[i].table \in SpelledAs(n) <=> Unqualified[Files[f].lines[i].table] = n
    BY <1>2 DEF SpelledAs
  <2>3. \A f \in DOMAIN Files : \A i \in ModelsOf(f) :
          OwnedBy(c, f, i) <=> Owner(Files[f].lines, i) = c /\ c # NoClass
    BY DEF OwnedBy
  <2> QED BY <2>1, <2>2, <2>3
<1>4. \A f, g \in DOMAIN Files : \A i \in ModelsOf(f), j \in ModelsOf(g) :
        OwnedBy(c, f, i) /\ OwnedBy(c, g, j) =>
          Unqualified[Files[f].lines[i].table] = Unqualified[Files[g].lines[j].table]
  <2>1. \A f, g \in DOMAIN Files : \A i \in ModelsOf(f), j \in ModelsOf(g) :
          Owner(Files[f].lines, i) = Owner(Files[g].lines, j) /\ Owner(Files[f].lines, i) # NoClass
            => Unqualified[Files[f].lines[i].table] = Unqualified[Files[g].lines[j].table]
    BY DEF ClassesHaveOneTable, NoClass
  <2> QED BY <2>1 DEF OwnedBy
<1>5. ASSUME c \in DOMAIN modelTables, modelTables[c] = n PROVE c \in ClassesOf(n)
  BY <1>3, <1>5 DEF ModelsKnown
<1>6. ASSUME c \in ClassesOf(n) PROVE c \in DOMAIN modelTables /\ modelTables[c] = n
  <2>1. PICK f \in DOMAIN Files : \E i \in ModelsOf(f) :
          OwnedBy(c, f, i) /\ Unqualified[Files[f].lines[i].table] = n
    BY <1>3, <1>6
  <2>2. PICK i \in ModelsOf(f) : OwnedBy(c, f, i) /\ Unqualified[Files[f].lines[i].table] = n
    BY <2>1
  <2>3. c \in DOMAIN modelTables
    BY <2>2 DEF ModelsKnown
  <2>4. PICK g \in DOMAIN Files : \E j \in ModelsOf(g) :
          OwnedBy(c, g, j) /\ modelTables[c] = Unqualified[Files[g].lines[j].table]
    BY <2>3 DEF ModelsKnown
  <2>5. PICK j \in ModelsOf(g) :
          OwnedBy(c, g, j) /\ modelTables[c] = Unqualified[Files[g].lines[j].table]
    BY <2>4
  <2> QED BY <1>4, <2>2, <2>3, <2>5
<1> QED BY <1>5, <1>6

LEMMA FindQueriesStaysExact ==
  ASSUME TablesInv, FindQueries
  PROVE  TablesInv'
<1> DEFINE new == Queries(Lines, modelTables)
<1>1. AtFile("queries") /\ Add(new) /\ TablePassInRange
  BY DEF FindQueries, TablesInv
<1>2. /\ tablePass = "queries" /\ tableFile \in DOMAIN Files /\ Lines = Files[tableFile].lines
      /\ Lines \in Seq(AnyLine) /\ tablePass # "aggregated" /\ tableFile <= Len(Files)
      /\ "queries" \in Passes
  BY <1>1, AtFileIs
<1>3. /\ tableRepo' = tableRepo /\ tablePass' = tablePass /\ tableFile' = tableFile + 1
      /\ modelTables' = modelTables
  BY <1>1 DEF Add, FindQueries
<1>4. TablePassInRange' /\ PassedFiles("models")' = PassedFiles("models")
  BY <1>1, <1>2, <1>3, OneFileFurther
<1>5. Ordinary' <=> Ordinary
  BY <1>3, TableRepositoryStays
<1>6. tableRepo.language # "go"
  BY <1>2 DEF Passes
<1>7. ASSUME Ordinary PROVE UsesAreFound' /\ ModelsKnown'
  <2>1. UsesAreFound /\ ModelsKnown
    BY <1>6, <1>7 DEF TablesInv
  <2>2. PassedFiles("models") = DOMAIN Files
    BY <1>2 DEF PassedFiles, PassesBefore
  <2>3. \A n, c : (c \in DOMAIN modelTables /\ modelTables[c] = n) <=> c \in ClassesOf(n)
    BY <1>1, <1>7, <2>1, <2>2, KnownClasses DEF Ordinary
  <2>4. ASSUME NEW n
        PROVE  PartOf(tablePass, tableFile, n) = IF Files[tableFile].skipped THEN {} ELSE Modes(new, n)
    <3> DEFINE asked == {Lines[i].mode : i \in {j \in DOMAIN Lines :
                           /\ Lines[j].kind = "query" /\ Lines[j].class \in ClassesOf(n)
                           /\ Lines[j].mode # "unknown_method"}}
    <3>1. Modes(new, n) = asked
      <4>1. KnownAs(modelTables, n, ClassesOf(n))
        BY <2>3 DEF KnownAs
      <4> QED BY <1>2, <4>1, QueryModes
    <3>2. PartOf(tablePass, tableFile, n) = IF Files[tableFile].skipped THEN {} ELSE asked
      BY <1>2 DEF PartOf, PartIn
    <3> HIDE DEF asked, new
    <3> QED BY <3>1, <3>2
  <2>5. \A u \in new : u.table \in TableNames
    <3>1. \A f \in DOMAIN Files : \A i \in ModelsOf(f) :
            Files[f].lines[i].table \in DOMAIN Unqualified
      <4>1. \A f \in DOMAIN Files : Files[f].lines \in Seq(AnyLine)
        BY <1>1, TableRepositoryIs DEF TablePassInRange
      <4> QED BY <4>1, LinesAre DEF ModelsOf, Models
    <3>2. \A c \in DOMAIN modelTables : modelTables[c] \in TableNames
      BY <2>1, <3>1, InRange DEF ModelsKnown
    <3> QED BY <3>2 DEF Queries, Use
  <2> HIDE DEF new
  <2>6. UsesAreFound'
    BY <1>1, <1>2, <2>1, <2>4, <2>5, AddFinds
  <2>7. ModelsKnown'
    BY <1>3, <1>4, <2>1, ModelsStay
  <2> QED BY <2>6, <2>7
<1> QED BY <1>2, <1>3, <1>4, <1>5, <1>7 DEF TablesInv

LEMMA FindInLiteralsStaysExact ==
  ASSUME TablesInv, FindInLiterals
  PROVE  TablesInv'
<1> DEFINE new == UNION {LiteralUses(Lines[i]) : i \in DOMAIN Lines}
<1>1. AtFile("literals") /\ Add(new) /\ TablePassInRange
  BY DEF FindInLiterals, TablesInv
<1>2. /\ tablePass = "literals" /\ tableFile \in DOMAIN Files /\ Lines = Files[tableFile].lines
      /\ Lines \in Seq(AnyLine) /\ tablePass # "aggregated" /\ tableFile <= Len(Files)
      /\ "literals" \in Passes
  BY <1>1, AtFileIs
<1>3. /\ tableRepo' = tableRepo /\ tablePass' = tablePass /\ tableFile' = tableFile + 1
      /\ modelTables' = modelTables
  BY <1>1 DEF Add, FindInLiterals
<1>4. TablePassInRange'
  BY <1>1, <1>2, <1>3, OneFileFurther
<1>5. Ordinary' <=> Ordinary
  BY <1>3, TableRepositoryStays
<1>6. tableRepo.language = "go" /\ Passes' = Passes
  BY <1>2, <1>3, TableRepositoryStays DEF Passes
<1>7. ASSUME Ordinary PROVE UsesAreFound'
  <2>1. UsesAreFound
    BY <1>7 DEF TablesInv
  <2>2. ASSUME NEW i \in DOMAIN Lines, NEW n
        PROVE  /\ Modes(LiteralUses(Lines[i]), n) = LiteralAccesses(Lines[i], n)
               /\ \A u \in LiteralUses(Lines[i]) : u.table \in AcceptableProcedures
    <3>1. Lines[i] \in AnyLine /\ Lines[i].kind \in {"literal", "boilerplate"}
      BY <1>1, <1>2, <1>6, TableRepositoryIs DEF TablePassInRange
    <3>2. Lines[i].words \in Seq(STRING)
      BY <3>1, LinesAre
    <3>3. TablesAreNamed(WordsOf(Text(Normalized(Lines[i].words))))
      BY <1>2, <1>6, <1>7 DEF Ordinary, Text
    <3> QED BY <3>2, <3>3, LiteralModes
  <2>3. ASSUME NEW n
        PROVE  PartOf(tablePass, tableFile, n) = IF Files[tableFile].skipped THEN {} ELSE Modes(new, n)
    <3> DEFINE said == UNION {LiteralAccesses(Lines[i], n) : i \in DOMAIN Lines}
    <3>1. PartOf(tablePass, tableFile, n) = IF Files[tableFile].skipped THEN {} ELSE said
      BY <1>2 DEF PartOf, PartIn
    <3>2. \A x : x \in Modes(new, n) <=> \E i \in DOMAIN Lines : x \in Modes(LiteralUses(Lines[i]), n)
      BY DEF Modes
    <3>3. \A x : x \in said <=> \E i \in DOMAIN Lines : x \in LiteralAccesses(Lines[i], n)
      OBVIOUS
    <3> HIDE DEF said, new
    <3>4. Modes(new, n) = said
      <4>1. \A x : x \in Modes(new, n) <=> x \in said
        BY <2>2, <3>2, <3>3
      <4> QED BY <4>1
    <3> QED BY <3>1, <3>4
  <2>4. \A u \in new : u.table \in TableNames
    BY <2>2 DEF TableNames
  <2> HIDE DEF new
  <2> QED BY <1>1, <1>2, <2>1, <2>3, <2>4, AddFinds
<1> HIDE DEF new
<1>8. tableRepo'.language = "go"
  BY <1>3, <1>6
<1> QED BY <1>2, <1>3, <1>4, <1>5, <1>7, <1>8 DEF TablesInv

(* After a pass its files stay passed.                                       *)
LEMMA EndPassStaysExact ==
  ASSUME TablesInv, EndPass
  PROVE  TablesInv'
<1>1. TablePassInRange /\ tablePass # "aggregated" /\ tableFile > Len(Files)
  BY DEF TablesInv, EndPass
<1>2. /\ tableRepo' = tableRepo /\ tablePass' = PassAfter[tablePass] /\ tableFile' = 1
      /\ modelTables' = modelTables /\ uses' = uses
      /\ tables' = IF tablePass' = "aggregated" THEN Aggregated ELSE tables
  BY DEF EndPass
<1>3. /\ Files' = Files /\ Passes' = Passes /\ (Ordinary' <=> Ordinary)
      /\ \A p, f, n : PartOf(p, f, n)' = PartOf(p, f, n)
  BY <1>2, TableRepositoryStays
<1>4. Len(Files) \in Nat /\ DOMAIN Files = 1..Len(Files)
  BY <1>1, TableRepositoryIs DEF TablePassInRange
<1>5. tableFile - 1 = Len(Files) /\ 1..(tableFile' - 1) = {}
  <2>1. tableFile \in 1..(Len(Files) + 1)
    BY <1>1 DEF TablePassInRange
  <2> QED BY <1>1, <1>2, <1>4, <2>1
<1>6. tablePass \in Passes
  BY <1>1 DEF TablePassInRange
<1>7. PassAfter[tablePass] \in Passes \cup {"aggregated"}
  BY <1>6 DEF Passes, PassAfter
<1>8. TablePassInRange'
  BY <1>1, <1>2, <1>3, <1>4, <1>7 DEF TablePassInRange
<1>9. ASSUME NEW q \in Passes PROVE PassedFiles(q)' = PassedFiles(q)
  <2>1. PassedFiles(q) = IF q \in PassesBefore \/ q = tablePass THEN DOMAIN Files ELSE {}
    BY <1>4, <1>5 DEF PassedFiles
  <2>2. PassedFiles(q)' = IF q \in PassesBefore' THEN DOMAIN Files ELSE {}
    BY <1>3, <1>5 DEF PassedFiles
  <2>3. q \in PassesBefore' <=> q \in PassesBefore \/ q = tablePass
    <3>1. CASE tableRepo.language = "go"
      <4>1. tablePass = "literals" /\ q = "literals" /\ tablePass' = "aggregated"
        BY <1>2, <1>6, <3>1 DEF Passes, PassAfter
      <4> QED BY <1>3, <4>1 DEF PassesBefore, Passes
    <3>2. CASE tableRepo.language # "go"
      <4>1. Passes = {"models", "sql", "queries"}
        BY <3>2 DEF Passes
      <4>2. CASE tablePass = "models"
        <5>1. tablePass' = "sql"
          BY <1>2, <4>2 DEF PassAfter
        <5> QED BY <4>2, <5>1 DEF PassesBefore
      <4>3. CASE tablePass = "sql"
        <5>1. tablePass' = "queries"
          BY <1>2, <4>3 DEF PassAfter
        <5> QED BY <4>3, <5>1 DEF PassesBefore
      <4>4. CASE tablePass = "queries"
        <5>1. tablePass' = "aggregated"
          BY <1>2, <4>4 DEF PassAfter
        <5> QED BY <1>3, <4>1, <4>4, <5>1 DEF PassesBefore
      <4> QED BY <1>6, <4>1, <4>2, <4>3, <4>4
    <3> QED BY <3>1, <3>2
  <2> QED BY <2>1, <2>2, <2>3
<1>10. ASSUME UsesAreFound PROVE UsesAreFound'
  <2>1. \A f, n : UsedAs(f, n)' = UsedAs(f, n)
    BY <1>2 DEF UsedAs
  <2>2. ASSUME NEW f, NEW n PROVE Found(f, n)' = Found(f, n)
    <3>1. \A x : x \in Found(f, n) <=> \E q \in Passes : f \in PassedFiles(q) /\ x \in PartOf(q, f, n)
      BY DEF Found
    <3>2. \A x : x \in Found(f, n)' <=> \E q \in Passes' : f \in PassedFiles(q)' /\ x \in PartOf(q, f, n)'
      BY DEF Found
    <3>3. \A x : x \in Found(f, n)' <=> x \in Found(f, n)
      BY <1>3, <1>9, <3>1, <3>2
    <3> QED BY <3>3
  <2> QED BY <1>2, <1>3, <1>10, <2>1, <2>2 DEF UsesAreFound
<1>11. ASSUME tableRepo.language # "go", ModelsKnown PROVE ModelsKnown'
  <2>1. "models" \in Passes
    BY <1>11 DEF Passes
  <2> QED BY <1>2, <1>9, <1>11, <2>1, ModelsStay
<1>12. ASSUME tablePass' = "aggregated" PROVE tables' = Aggregated'
  <2>1. Aggregated' = Aggregated
    BY <1>2 DEF Aggregated
  <2> QED BY <1>2, <1>12, <2>1
<1> QED BY <1>2, <1>3, <1>8, <1>10, <1>11, <1>12 DEF TablesInv

LEMMA TablesStartExact ==
  ASSUME TablesInit
  PROVE  TablesInv
<1>1. /\ tableRepo \in TableRepositories /\ tableFile = 1 /\ modelTables = NoTables /\ uses = {}
      /\ tablePass = IF tableRepo.language = "go" THEN "literals" ELSE "models"
  BY DEF TablesInit
<1>2. tablePass \in Passes /\ PassesBefore = {} /\ tablePass # "aggregated"
  BY <1>1 DEF Passes, PassesBefore
<1>3. TablePassInRange
  <2>1. Len(Files) \in Nat
    BY <1>1, TableRepositoryIs
  <2> QED BY <1>1, <1>2, <2>1 DEF TablePassInRange
<1>4. \A q : PassedFiles(q) = {}
  <2>1. 1..(tableFile - 1) = {}
    BY <1>1
  <2> QED BY <1>2, <2>1 DEF PassedFiles
<1>5. UsesAreFound
  <2>1. \A f, n : UsedAs(f, n) = {}
    BY <1>1 DEF UsedAs
  <2>2. \A f, n : Found(f, n) = {}
    BY <1>4 DEF Found
  <2> QED BY <1>1, <2>1, <2>2 DEF UsesAreFound
<1>6. ModelsKnown
  <2>1. DOMAIN modelTables = {}
    BY <1>1 DEF NoTables
  <2> QED BY <1>4, <2>1 DEF ModelsKnown, OwnedBy
<1> QED BY <1>2, <1>3, <1>5, <1>6 DEF TablesInv

LEMMA TablesIdleExact ==
  ASSUME TablesInv, UNCHANGED tableVars
  PROVE  TablesInv'
<1>1. /\ tableRepo' = tableRepo /\ tablePass' = tablePass /\ tableFile' = tableFile
      /\ modelTables' = modelTables /\ uses' = uses /\ tables' = tables
  BY DEF tableVars
<1>2. /\ Files' = Files /\ Passes' = Passes /\ (Ordinary' <=> Ordinary)
      /\ \A p, f, n : PartOf(p, f, n)' = PartOf(p, f, n)
  BY <1>1, TableRepositoryStays
<1>3. \A q : PassedFiles(q)' = PassedFiles(q)
  <2>1. PassesBefore' = PassesBefore
    BY <1>1, <1>2 DEF PassesBefore
  <2> QED BY <1>1, <1>2, <2>1 DEF PassedFiles
<1>4. TablePassInRange => TablePassInRange'
  BY <1>1, <1>2 DEF TablePassInRange
<1>5. UsesAreFound => UsesAreFound'
  <2>1. \A f, n : UsedAs(f, n)' = UsedAs(f, n)
    BY <1>1 DEF UsedAs
  <2>2. \A f, n : Found(f, n)' = Found(f, n)
    BY <1>2, <1>3 DEF Found
  <2> QED BY <1>1, <1>2, <2>1, <2>2 DEF UsesAreFound
<1>6. ModelsKnown => ModelsKnown'
  BY <1>1, <1>3, ModelsStay
<1>7. Aggregated' = Aggregated
  BY <1>1 DEF Aggregated
<1> QED BY <1>1, <1>2, <1>4, <1>5, <1>6, <1>7 DEF TablesInv

-----------------------------------------------------------------------------
(* The result.                                                              *)

(* All passes together find what the reference says of a file.               *)
LEMMA AllIsFound ==
  ASSUME TablePassInRange, tablePass = "aggregated", NEW f \in DOMAIN Files, NEW n
  PROVE  Found(f, n) = FileAccesses(f, n)
<1> DEFINE lines == Files[f].lines
           classes == ClassesOf(n)
           written == {"write" : i \in {j \in Models(lines) : lines[j].table \in SpelledAs(n)}}
           spoken == SqlAccesses(lines, SpelledAs(n), TRUE)
           migrated == {"write" : i \in {j \in DOMAIN lines :
                          lines[j].kind = "op" /\ lines[j].tables \cap SpelledAs(n) # {}}}
           asked == {lines[i].mode : i \in {j \in DOMAIN lines :
                       /\ lines[j].kind = "query" /\ lines[j].class \in classes
                       /\ lines[j].mode # "unknown_method"}}
           said == UNION {LiteralAccesses(lines[i], n) : i \in DOMAIN lines}
<1>1. \A q \in Passes : PassedFiles(q) = DOMAIN Files
  BY DEF PassedFiles, PassesBefore
<1>2. \A x : x \in Found(f, n) <=> \E q \in Passes : x \in PartOf(q, f, n)
  BY <1>1 DEF Found
<1>3. /\ PartOf("models", f, n) = IF Files[f].skipped THEN {} ELSE written
      /\ PartOf("sql", f, n) = IF Files[f].skipped THEN {} ELSE spoken \cup migrated
      /\ PartOf("queries", f, n) = IF Files[f].skipped THEN {} ELSE asked
      /\ PartOf("literals", f, n) = IF Files[f].skipped THEN {} ELSE said
  BY DEF PartOf, PartIn
<1>4. AccessesIn(lines, n) = spoken \cup written \cup migrated \cup asked
  BY DEF AccessesIn
<1>5. FileAccesses(f, n) = IF Files[f].skipped THEN {}
                           ELSE IF tableRepo.language = "go" THEN said ELSE AccessesIn(lines, n)
  BY DEF FileAccesses
<1>6. Passes = IF tableRepo.language = "go" THEN {"literals"} ELSE {"models", "sql", "queries"}
  BY DEF Passes
<1> HIDE DEF lines, classes, written, spoken, migrated, asked, said
<1>7. \A x : x \in Found(f, n) <=> x \in FileAccesses(f, n)
  <2>1. CASE tableRepo.language = "go"
    BY <1>2, <1>3, <1>5, <1>6, <2>1
  <2>2. CASE tableRepo.language # "go"
    BY <1>2, <1>3, <1>4, <1>5, <1>6, <2>2
  <2> QED BY <2>1, <2>2
<1> QED BY <1>7

(* The access mode of all that is observed of a table.                       *)
LEMMA AccessModeIs ==
  ASSUME NEW observed
  PROVE  AccessMode(observed) =
           LET used == observed \cap {"read", "write"}
           IN CASE used = {"read", "write"} -> "read_write"
                [] used = {"read"} -> "read"
                [] used = {"write"} -> "write"
                [] used = {} -> "unknown"
<1> DEFINE used == observed \cap {"read", "write"}
<1>1. CASE "read" \in observed /\ "write" \in observed
  <2>1. used = {"read", "write"}
    BY <1>1
  <2>2. used # {"read"} /\ used # {"write"} /\ used # {}
    BY <2>1
  <2>3. AccessMode(observed) = "read_write"
    BY <1>1 DEF AccessMode
  <2> HIDE DEF used
  <2>4. (CASE used = {"read", "write"} -> "read_write"
                [] used = {"read"} -> "read"
                [] used = {"write"} -> "write"
                [] used = {} -> "unknown") = "read_write"
    BY <2>1, <2>2
  <2> QED BY <2>3, <2>4 DEF used
<1>2. CASE "read" \in observed /\ "write" \notin observed
  <2>1. used = {"read"}
    BY <1>2
  <2>2. used # {"read", "write"} /\ used # {"write"} /\ used # {}
    BY <1>2
  <2>3. AccessMode(observed) = "read"
    BY <1>2 DEF AccessMode
  <2> HIDE DEF used
  <2>4. (CASE used = {"read", "write"} -> "read_write"
                [] used = {"read"} -> "read"
                [] used = {"write"} -> "write"
                [] used = {} -> "unknown") = "read"
    BY <2>1, <2>2
  <2> QED BY <2>3, <2>4 DEF used
<1>3. CASE "read" \notin observed /\ "write" \in observed
  <2>1. used = {"write"}
    BY <1>3
  <2>2. used # {"read", "write"} /\ used # {"read"} /\ used # {}
    BY <1>3
  <2>3. AccessMode(observed) = "write"
    BY <1>3 DEF AccessMode
  <2> HIDE DEF used
  <2>4. (CASE used = {"read", "write"} -> "read_write"
                [] used = {"read"} -> "read"
                [] used = {"write"} -> "write"
                [] used = {} -> "unknown") = "write"
    BY <2>1, <2>2
  <2> QED BY <2>3, <2>4 DEF used
<1>4. CASE "read" \notin observed /\ "write" \notin observed
  <2>1. used = {}
    BY <1>4
  <2>2. used # {"read", "write"} /\ used # {"read"} /\ used # {"write"}
    BY <1>4
  <2>3. AccessMode(observed) = "unknown"
    BY <1>4 DEF AccessMode
  <2> HIDE DEF used
  <2>4. (CASE used = {"read", "write"} -> "read_write"
                [] used = {"read"} -> "read"
                [] used = {"write"} -> "write"
                [] used = {} -> "unknown") = "unknown"
    BY <2>1, <2>2
  <2> QED BY <2>3, <2>4 DEF used
<1> QED BY <1>1, <1>2, <1>3, <1>4

LEMMA TableResultIsExact ==
  ASSUME TablesInv
  PROVE  TablesAreExact
<1> SUFFICES ASSUME tablePass = "aggregated", Ordinary
             PROVE  /\ DOMAIN tables = {n \in TableNames : Accesses(n) # {}}
                    /\ \A n \in DOMAIN tables :
                         /\ tables[n].access_mode =
                              CASE ReadsAndWrites(n) = {"read", "write"} -> "read_write"
                                [] ReadsAndWrites(n) = {"read"} -> "read"
                                [] ReadsAndWrites(n) = {"write"} -> "write"
                                [] ReadsAndWrites(n) = {} -> "unknown"
                         /\ {l[1] : l \in tables[n].source_locations} =
                              {f \in DOMAIN Files : FileAccesses(f, n) # {}}
  BY DEF TablesAreExact, TableNames
<1>1. TablePassInRange /\ UsesAreFound /\ tables = Aggregated
  BY DEF TablesInv
<1>2. \A f \in DOMAIN Files, n \in TableNames : UsedAs(f, n) = FileAccesses(f, n)
  BY <1>1, AllIsFound DEF UsesAreFound
<1>3. \A u \in uses : u.table \in TableNames /\ u.path \in DOMAIN Files
  BY <1>1 DEF UsesAreFound
<1>4. \A f, n, x : x \in UsedAs(f, n) <=> \E u \in uses : x = u.mode /\ u.table = n /\ u.path = f
  BY DEF UsedAs
<1>5. \A n, x : x \in Accesses(n) <=> \E f \in DOMAIN Files : x \in FileAccesses(f, n)
  BY DEF Accesses
<1>6. ASSUME NEW n \in TableNames
      PROVE  /\ \A x : x \in Accesses(n) <=> \E u \in uses : x = u.mode /\ u.table = n
             /\ \A f \in DOMAIN Files : FileAccesses(f, n) # {} <=> \E u \in uses : u.table = n /\ u.path = f
  <2>1. \A f \in DOMAIN Files : \A x : x \in FileAccesses(f, n) <=>
          \E u \in uses : x = u.mode /\ u.table = n /\ u.path = f
    BY <1>2, <1>4
  <2>2. \A x : x \in Accesses(n) <=> \E u \in uses : x = u.mode /\ u.table = n
    BY <1>3, <1>5, <2>1
  <2>3. ASSUME NEW f \in DOMAIN Files
        PROVE  FileAccesses(f, n) # {} <=> \E u \in uses : u.table = n /\ u.path = f
    BY <2>1
  <2> QED BY <2>2, <2>3
<1>7. DOMAIN tables = {u.table : u \in uses}
  BY <1>1 DEF Aggregated
<1>8. DOMAIN tables = {n \in TableNames : Accesses(n) # {}}
  <2>1. \A n : n \in DOMAIN tables <=> \E u \in uses : u.table = n
    BY <1>7
  <2>2. \A n \in TableNames : Accesses(n) # {} <=> \E u \in uses : u.table = n
    BY <1>6
  <2>3. \A n : n \in DOMAIN tables <=> n \in TableNames /\ Accesses(n) # {}
    BY <1>3, <2>1, <2>2
  <2> QED BY <2>3
<1>9. ASSUME NEW n \in DOMAIN tables
      PROVE  /\ tables[n].access_mode =
                  CASE ReadsAndWrites(n) = {"read", "write"} -> "read_write"
                    [] ReadsAndWrites(n) = {"read"} -> "read"
                    [] ReadsAndWrites(n) = {"write"} -> "write"
                    [] ReadsAndWrites(n) = {} -> "unknown"
             /\ {l[1] : l \in tables[n].source_locations} =
                  {f \in DOMAIN Files : FileAccesses(f, n) # {}}
  <2> DEFINE observed == {u.mode : u \in {v \in uses : v.table = n}}
             places == {<<u.path, u.line>> : u \in {v \in uses : v.table = n}}
  <2>1. n \in TableNames
    BY <1>8
  <2>2. tables[n] = [access_mode |-> AccessMode(observed), source_locations |-> places]
    BY <1>1, <1>7 DEF Aggregated
  <2>3. observed = Accesses(n)
    <3>1. \A x : x \in observed <=> \E u \in uses : x = u.mode /\ u.table = n
      OBVIOUS
    <3> HIDE DEF observed
    <3>2. \A x : x \in observed <=> x \in Accesses(n)
      BY <1>6, <2>1, <3>1
    <3> QED BY <3>2
  <2>4. \A x : x \in {l[1] : l \in places} <=> \E u \in uses : u.table = n /\ x = u.path
    <3> DEFINE P(u) == <<u.path, u.line>>
    <3>1. \A u : P(u)[1] = u.path
      OBVIOUS
    <3>2. \A l : l \in places <=> \E u \in uses : u.table = n /\ l = P(u)
      OBVIOUS
    <3> HIDE DEF P, places
    <3>3. \A x : x \in {l[1] : l \in places} <=> \E l \in places : x = l[1]
      OBVIOUS
    <3> QED BY <3>1, <3>2, <3>3
  <2> HIDE DEF observed, places
  <2>5. tables[n].access_mode = AccessMode(Accesses(n)) /\ tables[n].source_locations = places
    BY <2>2, <2>3
  <2>6. {l[1] : l \in places} = {f \in DOMAIN Files : FileAccesses(f, n) # {}}
    <3> DEFINE firsts == {l[1] : l \in places}
               holders == {f \in DOMAIN Files : FileAccesses(f, n) # {}}
    <3>1. \A x : x \in firsts <=> \E u \in uses : u.table = n /\ x = u.path
      BY <2>4
    <3>2. \A x : x \in holders <=> x \in DOMAIN Files /\ \E u \in uses : u.table = n /\ u.path = x
      BY <1>6, <2>1
    <3> HIDE DEF firsts, holders
    <3>3. \A x : x \in firsts <=> x \in holders
      BY <1>3, <3>1, <3>2
    <3> QED BY <3>3 DEF firsts, holders
  <2>7. AccessMode(Accesses(n)) =
          CASE ReadsAndWrites(n) = {"read", "write"} -> "read_write"
            [] ReadsAndWrites(n) = {"read"} -> "read"
            [] ReadsAndWrites(n) = {"write"} -> "write"
            [] ReadsAndWrites(n) = {} -> "unknown"
    BY AccessModeIs DEF ReadsAndWrites
  <2> QED BY <2>5, <2>6, <2>7
<1> QED BY <1>8, <1>9

(* However the files and their patterns lie, the profile of a repository     *)
(* whose text is ordinary names exactly the tables used, with their accesses *)
(* and the files that have them.                                             *)
THEOREM TablesStayExact == TablesSpec => []TablesAreExact
<1>1. TablesInit => TablesInv
  BY TablesStartExact
<1>2. TablesInv /\ [TablesNext]_tableVars => TablesInv'
  <2> SUFFICES ASSUME TablesInv, [TablesNext]_tableVars PROVE TablesInv'
    OBVIOUS
  <2>1. CASE FindModels
    BY <2>1, FindModelsStaysExact
  <2>2. CASE FindSql
    BY <2>2, FindSqlStaysExact
  <2>3. CASE FindQueries
    BY <2>3, FindQueriesStaysExact
  <2>4. CASE FindInLiterals
    BY <2>4, FindInLiteralsStaysExact
  <2>5. CASE EndPass
    BY <2>5, EndPassStaysExact
  <2>6. CASE UNCHANGED tableVars
    BY <2>6, TablesIdleExact
  <2> QED BY <2>1, <2>2, <2>3, <2>4, <2>5, <2>6 DEF TablesNext
<1>3. TablesInv => TablesAreExact
  BY TableResultIsExact
<1> QED BY <1>1, <1>2, <1>3, PTL DEF TablesSpec
=============================================================================
