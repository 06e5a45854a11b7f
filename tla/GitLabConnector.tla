---------------------------- MODULE GitLabConnector ----------------------------
(***************************************************************************)
(* The GitLab_Connector (gitlab_connector.py): the paginated enumeration   *)
(* of the configured group, one branch lookup per project, and the fetch   *)
(* of a repository's analyzable files by a pool of threads.                *)
(*                                                                         *)
(* GitLab answers any request in any of the ways the connector tells       *)
(* apart.  It pages by offset: with Link headers on every response of a    *)
(* listing, or with none.  Projects may join or leave the group between    *)
(* two pages; the tree is pinned to a commit and does not change.          *)
(***************************************************************************)
EXTENDS Ordering

CONSTANTS
  MaxProject,    \* projects are 1..MaxProject
  PerPage,       \* DEFAULT_PER_PAGE
  SortedPaths,   \* the paths of the trees, in sort order: directory segment,
                 \* kind of basename, and whether the body is a small text
  MaxFiles,      \* MAX_ANALYZABLE_FILES
  PoolSize,      \* DEFAULT_BLOB_FETCH_CONCURRENCY
  GroupChanges,  \* what happens to the group during a listing
  Failures       \* the failing answers GitLab gives

ASSUME ConnectorAssumption ==
  /\ {MaxProject, PerPage, MaxFiles, PoolSize} \subseteq Nat \ {0}
  /\ SortedPaths \in Seq([dir : STRING, base : STRING, text : BOOLEAN])
  /\ GroupChanges \subseteq {"created", "deleted"}
  /\ Failures \subseteq {"unauthorized", "server_error", "not_found"}

VARIABLES
  group,     \* GitLab: the projects of the group, subgroups included
  lastId,    \* GitLab: the last project id given out
  tree,      \* GitLab: the entries of the repository at the commit
  links,     \* the first response of the listing has a Link header
  at,        \* where the connector is
  page,      \* the page it requests next, 0 when there is none
  batch,     \* the projects of the last page not handled yet
  yielded,   \* the EnumeratedProjects yielded so far
  unlisted,  \* tree entries on the pages to come
  blobs,     \* blob_paths
  fetch,     \* each submitted future of the pool, by path: "pending",
             \* "running", "cancelled", its error, "text", or "none" for a
             \* body too large or not UTF-8 and for a 404
  handed,    \* the paths whose results executor.map has handed over
  files,     \* the paths of the files loaded so far, in insertion order
  refused,   \* ghost: the requests that got a failing answer
  groupBefore \* ghost: the group when the listing began

listingVars == <<page, batch, yielded, groupBefore>>
contentsVars == <<unlisted, blobs, fetch, handed, files>>
gitlabVars == <<group, lastId, tree>>
connectorVars == <<gitlabVars, links, at, refused, listingVars, contentsVars>>

Paths == DOMAIN SortedPaths

(* What the connector raises: GitLabAuthError (401 or 403), HTTPStatusError  *)
(* and GitLabGroupNotFoundError.                                             *)
Errors == {"unauthorized", "server_error", "group_not_found"}

ConnectorInit ==
  /\ lastId \in 0..MaxProject
  /\ group \in SUBSET (1..lastId)
  /\ tree \in SUBSET Paths
  /\ links \in BOOLEAN
  /\ at \in {"group", "tree"}
  /\ at = "group" => tree = {}
  /\ at = "tree" => lastId = 0
  /\ page = 1
  /\ batch = {} /\ yielded = << >> /\ groupBefore = group
  /\ unlisted = tree /\ blobs = {} /\ fetch = << >>
  /\ handed = {} /\ files = << >>
  /\ refused = {}

-----------------------------------------------------------------------------
(* Enumeration.                                                             *)

(* Offset pagination over ids in ascending order.                            *)
GroupPage(n) ==
  {p \in group : /\ (n - 1) * PerPage <= Below(group, p)
                 /\ Below(group, p) < n * PerPage}

(* After page n.  The Link header of its response names the next page if     *)
(* there is more; without one on the first page, pages are requested until   *)
(* one is empty.                                                             *)
NextPage(n, items, more) ==
  IF (links /\ more) \/ (~links /\ (n = 1 \/ items # {})) THEN n + 1 ELSE 0

Raised(status) ==
  IF status = "unauthorized" THEN "unauthorized" ELSE "server_error"

Refused(request) == refused' = refused \cup {request}

(* One response of the group listing, its items handed over in order.        *)
ListProjects ==
  /\ at = "group" /\ page # 0 /\ batch = {}
  /\ batch' = GroupPage(page)
  /\ page' = NextPage(page, batch', page * PerPage < Cardinality(group))
  /\ UNCHANGED <<gitlabVars, links, at, refused, yielded, groupBefore,
                 contentsVars>>

(* Mutant of ListingFails: a later page's status is not checked, its body    *)
(* reads as an empty list.                                                   *)
LaterPageReadsEmpty ==
  /\ at = "group" /\ page # 0 /\ batch = {}
  /\ \E status \in Failures :
       /\ Refused("group")
       /\ at' = IF page = 1 THEN Raised(status) ELSE at
       /\ page' = IF page = 1 THEN page ELSE 0
  /\ UNCHANGED <<gitlabVars, links, batch, yielded, groupBefore, contentsVars>>

(* The status is checked before the items; a 404 says that the group is      *)
(* missing on the first page only.                                           *)
ListingFails ==
  /\ at = "group" /\ page # 0 /\ batch = {}
  /\ \E status \in Failures :
       /\ Refused("group")
       /\ at' = IF page = 1 /\ status = "not_found"
                  THEN "group_not_found" ELSE Raised(status)
  /\ UNCHANGED <<gitlabVars, links, listingVars, contentsVars>>

(* _build_enumerated_project; a branch that is not found is no failure.      *)
LookUpBranch ==
  /\ at = "group"
  /\ \E p \in batch, missing \in BOOLEAN :
       /\ IsFirst(p, batch)
       /\ batch' = batch \ {p}
       /\ yielded' = Append(yielded, [id |-> p, branch_missing |-> missing])
  /\ UNCHANGED <<gitlabVars, links, at, refused, page, groupBefore, contentsVars>>

BranchFails ==
  /\ at = "group" /\ batch # {}
  /\ \E status \in Failures \ {"not_found"} :
       Refused("branch") /\ at' = Raised(status)
  /\ UNCHANGED <<gitlabVars, links, listingVars, contentsVars>>

Enumerated ==
  /\ at = "group" /\ page = 0 /\ batch = {}
  /\ at' = "enumerated"
  /\ UNCHANGED <<gitlabVars, links, refused, listingVars, contentsVars>>

(* A new project has the highest id of all.                                  *)
CreateProject ==
  /\ at = "group" /\ "created" \in GroupChanges /\ lastId < MaxProject
  /\ lastId' = lastId + 1
  /\ group' = group \cup {lastId'}
  /\ UNCHANGED <<tree, links, at, refused, listingVars, contentsVars>>

DeleteProject ==
  /\ at = "group" /\ "deleted" \in GroupChanges
  /\ \E p \in group : group' = group \ {p}
  /\ UNCHANGED <<lastId, tree, links, at, refused, listingVars, contentsVars>>

-----------------------------------------------------------------------------
(* Contents.                                                                *)

(* _is_analyzable_path.                                                      *)
Analyzable(p) ==
  /\ SortedPaths[p].dir # "vendor"
  /\ SortedPaths[p].base \in {"readme", "go.mod", "go", "go_test", "source"}

RootGoMod(p) == SortedPaths[p].base = "go.mod" /\ SortedPaths[p].dir = "root"

(* _is_analyzable_path_for_go: only the go.mod of the root.                  *)
AnalyzableForGo(p) ==
  /\ SortedPaths[p].dir \notin {"vendor", "third_party"}
  /\ \/ SortedPaths[p].base \in {"readme", "go"}
     \/ RootGoMod(p)

(* Directories and submodules are tree entries, not blobs.                   *)
BlobPaths(entries) == {p \in entries : SortedPaths[p].base # "directory"}

(* A go.mod at the root is the marker of a Go project.                       *)
Admit(entries, p) ==
  IF \E q \in entries : RootGoMod(q) THEN AnalyzableForGo(p) ELSE Analyzable(p)

FirstFiles(paths) == {p \in paths : Below(paths, p) < MaxFiles}

(* Mutant of Selected: the cap is applied before the filter.                 *)
CappedBeforeFilter(entries) ==
  {p \in FirstFiles(entries) : Admit(entries, p)}

(* The filtered, sorted and capped paths.                                    *)
Selected(entries) == FirstFiles({p \in entries : Admit(entries, p)})

FirstItems(items) ==
  /\ items \subseteq unlisted
  /\ \/ Cardinality(items) = PerPage
     \/ items = unlisted /\ Cardinality(items) < PerPage

(* One page of the tree, in any order.                                       *)
ListTree ==
  /\ at = "tree" /\ page # 0
  /\ \E items \in SUBSET unlisted :
       /\ FirstItems(items)
       /\ blobs' = blobs \cup BlobPaths(items)
       /\ unlisted' = unlisted \ items
       /\ page' = NextPage(page, items, unlisted' # {})
  /\ UNCHANGED <<gitlabVars, links, at, refused, batch, yielded, groupBefore,
                 fetch, handed, files>>

(* _paginate looks at no status: the body of the failing response is no      *)
(* array, so it has no items, and no Link header.  If it is the first one,   *)
(* the connector goes on with ?page=2.                                       *)
TreeFails ==
  /\ at = "tree" /\ page # 0
  /\ Failures # {} /\ Refused("tree")
  /\ \E items \in SUBSET unlisted :
       FirstItems(items) /\ unlisted' = unlisted \ items
  /\ page' = IF page = 1 THEN 2 ELSE 0
  /\ links' = (links /\ page # 1)
  /\ UNCHANGED <<gitlabVars, at, batch, yielded, groupBefore, blobs, fetch,
                 handed, files>>

(* Every selected path is submitted at once.                                 *)
SubmitFetches ==
  /\ at = "tree" /\ page = 0
  /\ at' = "fetching"
  /\ fetch' = [p \in Selected(blobs) |-> "pending"]
  /\ UNCHANGED <<gitlabVars, links, refused, listingVars, unlisted, blobs,
                 handed, files>>

InState(state) == {p \in DOMAIN fetch : fetch[p] = state}

(* A thread of the pool takes the first future of the queue.                 *)
StartFetch ==
  /\ at = "fetching"
  /\ Cardinality(InState("running")) < PoolSize
  /\ \E p \in Paths :
       /\ IsFirst(p, InState("pending"))
       /\ fetch' = [fetch EXCEPT ![p] = "running"]
  /\ UNCHANGED <<gitlabVars, links, at, refused, listingVars, unlisted,
                 blobs, handed, files>>

(* _fetch_blob_text, in a thread of the pool.                                *)
FetchReturns(p) ==
  /\ fetch' = [fetch EXCEPT ![p] =
                 IF SortedPaths[p].text THEN "text" ELSE "none"]
  /\ UNCHANGED refused

FetchFails(p) == \E status \in Failures :
  /\ Refused("blob")
  /\ fetch' = [fetch EXCEPT ![p] =
                 IF status = "not_found" THEN "none" ELSE status]

FetchBlobText(p) ==
  /\ at \in {"fetching", "joining"}
  /\ p \in InState("running")
  /\ FetchReturns(p) \/ FetchFails(p)
  /\ UNCHANGED <<gitlabVars, links, at, listingVars, unlisted, blobs, handed,
                 files>>

(* Mutant of NextResult: results are handed over as they complete.           *)
NextCompleted(p) == p \in DOMAIN fetch \ handed

(* executor.map hands over the results in the order of the paths.            *)
NextResult(p) == IsFirst(p, DOMAIN fetch \ handed)

HandOver ==
  /\ at = "fetching"
  /\ \E p \in InState("text") \cup InState("none") :
       /\ NextResult(p)
       /\ handed' = handed \cup {p}
       /\ files' = IF fetch[p] = "text" THEN Append(files, p) ELSE files
  /\ UNCHANGED <<gitlabVars, links, at, refused, listingVars, unlisted,
                 blobs, fetch>>

(* The exception of a result cancels the futures that have not begun.        *)
HandOverException ==
  /\ at = "fetching"
  /\ \E p \in InState("unauthorized") \cup InState("server_error") :
       NextResult(p) /\ handed' = handed \cup {p}
  /\ at' = "joining"
  /\ fetch' = [p \in DOMAIN fetch |->
                 IF fetch[p] = "pending" THEN "cancelled" ELSE fetch[p]]
  /\ UNCHANGED <<gitlabVars, links, refused, listingVars, unlisted, blobs,
                 files>>

(* Leaving the with block joins the threads of the pool.                     *)
Joined ==
  /\ at = "joining"
  /\ InState("running") = {}
  /\ \E p \in handed :
       fetch[p] \in {"unauthorized", "server_error"} /\ at' = fetch[p]
  /\ UNCHANGED <<gitlabVars, links, refused, listingVars, contentsVars>>

Fetched ==
  /\ at = "fetching"
  /\ handed = DOMAIN fetch
  /\ at' = "fetched"
  /\ UNCHANGED <<gitlabVars, links, refused, listingVars, contentsVars>>

-----------------------------------------------------------------------------
ConnectorNext ==
  \/ ListProjects
  \/ ListingFails
  \/ LookUpBranch
  \/ BranchFails
  \/ Enumerated
  \/ CreateProject
  \/ DeleteProject
  \/ ListTree
  \/ TreeFails
  \/ SubmitFetches
  \/ StartFetch
  \/ \E p \in Paths : FetchBlobText(p)
  \/ HandOver
  \/ HandOverException
  \/ Joined
  \/ Fetched

ConnectorSpec == ConnectorInit /\ [][ConnectorNext]_connectorVars

-----------------------------------------------------------------------------
(* What the connector promises.                                             *)

Yields(p) == \E i \in DOMAIN yielded : yielded[i].id = p

(* files has exactly the paths of S, in their order.                         *)
FilesAre(S) == {files[i] : i \in DOMAIN files} = S /\ Ascending(files)

(* A completed enumeration yields no project twice, and in ascending order, *)
(* although projects come and go between its pages; it yields the whole     *)
(* group unless a project left; and no refusal or failure of a page or a    *)
(* branch lookup was taken for the end of the group or for a missing        *)
(* branch (_iter_projects_in_group's offset pages and its two ways to find  *)
(* the last one, _fetch_branch_sha).                                        *)
EnumerationIsComplete == at = "enumerated" =>
  /\ refused = {}
  /\ groupBefore \subseteq group => \A p \in groupBefore : Yields(p)
  /\ \A i, j \in DOMAIN yielded : i < j => yielded[i].id < yielded[j].id

(* The pool changes nothing but the time: whatever the order in which its   *)
(* threads finish, the files, or the exception, are those of a loop that    *)
(* fetches the paths one after the other and stops at the first failure     *)
(* (the comment in _fetch_blobs_concurrent: "exactly as in the sequential   *)
(* code").                                                                  *)
FetchIsSequential ==
  LET failed == InState("unauthorized") \cup InState("server_error")
  IN /\ at = "fetched" => failed = {} /\ FilesAre(InState("text"))
     /\ at \in Errors /\ DOMAIN fetch # {} =>
          \E p \in failed : IsFirst(p, failed) /\ at = fetch[p]

(* Without a failing answer the contents are a function of the tree: the    *)
(* first MAX_ANALYZABLE_FILES admitted paths that are small texts, whatever *)
(* the order in which GitLab lists the tree and however it pages it.        *)
ContentsAreExact == at = "fetched" /\ refused = {} =>
  LET admitted == {p \in BlobPaths(tree) : Admit(BlobPaths(tree), p)}
      count == Cardinality(admitted)
  IN \E kept \in SUBSET admitted :
       /\ Cardinality(kept) = IF count > MaxFiles THEN MaxFiles ELSE count
       /\ \A p \in kept, q \in admitted \ kept : p < q
       /\ FilesAre({p \in kept : SortedPaths[p].text})
=============================================================================
