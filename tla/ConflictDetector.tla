--------------------------- MODULE ConflictDetector ---------------------------
(***************************************************************************)
(* The Conflict_Detector (conflict_detector.py): how two purpose summaries *)
(* are classified, and the double loop of find_all_conflicts.              *)
(*                                                                         *)
(* A summary is a sequence of words, lowercased and split.  A multi-word   *)
(* ownership phrase ("is responsible for") counts as one word.             *)
(***************************************************************************)
EXTENDS Naturals, FiniteSets, Sequences

CONSTANTS
  Words,       \* every word and phrase a summary may hold
  Singular,    \* the token of each word: without its trailing s
  Stopwords,   \* _STOPWORDS
  Phrases,     \* the phrases of several words of _OWNERSHIP_MARKER_PHRASES
  Positive,    \* _POSITIVE_OWNERSHIP_PHRASES
  Negative,    \* _NEGATIVE_OWNERSHIP_PHRASES
  MarkerTokens,\* _OWNERSHIP_MARKER_TOKENS
  Unknown,     \* UNKNOWN_PURPOSE_SUMMARY
  ProfileIds,  \* gitlab_project_ids
  Summaries,   \* the purpose summaries of profiles
  MaxProfiles  \* bounds the argument of find_all_conflicts

ASSUME VocabularyAssumption ==
  /\ {Stopwords, Phrases, Positive, Negative} \subseteq SUBSET Words
  /\ Singular \in [Words -> STRING]
  /\ Summaries \subseteq Seq(Words) \cup {Unknown}

ASSUME IdsAssumption == ProfileIds \subseteq Nat /\ MaxProfiles \in Nat

VARIABLES
  profiles,  \* the argument of find_all_conflicts
  outer,     \* i
  inner,     \* j
  pairs      \* pairs_by_key: the keys, each with the positions classified

detectorVars == <<profiles, outer, inner, pairs>>

Profiles == [id : ProfileIds, summary : Summaries]

-----------------------------------------------------------------------------
(* classify_pair.                                                           *)

(* Phrases are stripped, then stopwords, then words lose their plural s,     *)
(* then marker tokens are filtered.                                          *)
TokensForKey(summary) ==
  LET kept == SelectSeq(summary, LAMBDA w : w \notin Phrases \cup Stopwords)
      tokens == [i \in DOMAIN kept |-> Singular[kept[i]]]
  IN SelectSeq(tokens, LAMBDA t : t \notin MarkerTokens)

ResponsibilityKey(tokens) ==
  IF Len(tokens) <= 2 THEN tokens ELSE SubSeq(tokens, 1, 2)

TokenSet(tokens) == {tokens[i] : i \in DOMAIN tokens}

(* |a \cap b| / |a \cup b| >= 0.6                                            *)
SubstantialOverlap(a, b) ==
  /\ a \cup b # {}
  /\ 10 * Cardinality(a \cap b) >= 6 * Cardinality(a \cup b)

(* A phrase of each kind: the negative one dominates.                        *)
OwnershipStance(summary) ==
  LET said == TokenSet(summary)
  IN IF said \cap Negative # {} THEN "delegator"
     ELSE IF said \cap Positive # {} THEN "owner" ELSE "none"

Unclear(a, b) == a = Unknown \/ b = Unknown

(* The two bases of a conflict.                                              *)
SameResponsibility(a, b) ==
  LET ta == TokensForKey(a)
      tb == TokensForKey(b)
      key == ResponsibilityKey(ta)
  IN /\ key # << >> /\ key = ResponsibilityKey(tb)
     /\ \/ SubstantialOverlap(TokenSet(ta), TokenSet(tb))
        \/ {OwnershipStance(a), OwnershipStance(b)} = {"owner", "delegator"}

Classify(a, b) ==
  IF Unclear(a, b) THEN "indeterminate"
  ELSE IF SameResponsibility(a, b) THEN "conflict" ELSE "no_conflict"

Conflicting(p, q) == Classify(p.summary, q.summary) = "conflict"

-----------------------------------------------------------------------------
(* find_all_conflicts.                                                      *)

DetectorInit ==
  /\ profiles \in UNION {[1..n -> Profiles] : n \in 0..MaxProfiles}
  /\ outer = 1 /\ inner = 2
  /\ pairs = {}

(* The positions in the order of their ids.                                  *)
Lower == IF profiles[outer].id < profiles[inner].id THEN outer ELSE inner
Higher == IF profiles[outer].id < profiles[inner].id THEN inner ELSE outer

Key(x) == <<profiles[x.first].id, profiles[x.second].id>>

AlreadyFound == \E x \in pairs : Key(x) = <<profiles[Lower].id, profiles[Higher].id>>

(* Mutant of NextPair: the next round begins one position too late.          *)
NextPairSkipping ==
  IF inner < Len(profiles)
    THEN inner' = inner + 1 /\ outer' = outer
    ELSE inner' = outer + 3 /\ outer' = outer + 1

NextPair ==
  IF inner < Len(profiles)
    THEN inner' = inner + 1 /\ outer' = outer
    ELSE inner' = outer + 2 /\ outer' = outer + 1

(* Equal ids and keys found already are skipped.                             *)
ComparePair ==
  /\ inner <= Len(profiles)
  /\ pairs' = IF /\ profiles[outer].id # profiles[inner].id
                 /\ ~AlreadyFound
                 /\ Conflicting(profiles[Lower], profiles[Higher])
                THEN pairs \cup {[first |-> Lower, second |-> Higher]}
                ELSE pairs
  /\ NextPair
  /\ UNCHANGED profiles

DetectorNext == ComparePair

DetectorSpec == DetectorInit /\ [][DetectorNext]_detectorVars

Compared == inner > Len(profiles)

-----------------------------------------------------------------------------
(* What the detector promises.                                              *)

(* Which of two summaries comes first does not matter.                      *)
ClassificationIsSymmetric ==
  \A i, j \in DOMAIN profiles :
    Classify(profiles[i].summary, profiles[j].summary)
      = Classify(profiles[j].summary, profiles[i].summary)

(* The result has one pair for each two ids of which some two profiles      *)
(* conflict, the lower id first, classified on profiles of those ids: the   *)
(* repeated ids, the skipped keys and the order of the profiles do not      *)
(* change it, and neither does which of two summaries comes first           *)
(* (find_all_conflicts, classify_pair).                                     *)
ConflictsAreExact ==
  /\ ClassificationIsSymmetric
  /\ \A x, y \in pairs : Key(x) = Key(y) => x = y
  /\ \A x \in pairs :
       /\ profiles[x.first].id < profiles[x.second].id
       /\ Conflicting(profiles[x.first], profiles[x.second])
  /\ Compared => \A i, j \in DOMAIN profiles :
       /\ profiles[i].id < profiles[j].id
       /\ Conflicting(profiles[i], profiles[j])
       => \E x \in pairs : Key(x) = <<profiles[i].id, profiles[j].id>>

=============================================================================
