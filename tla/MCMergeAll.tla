----------------------------- MODULE MCMergeAll -----------------------------
(* Small instances of MergeAll for TLC.                                    *)
EXTENDS MergeAll

CONSTANTS u1, u2

MCUrls == {u1, u2}

Once == [maxAttempts |-> 1, dontRetry |-> 0]

Twice == [maxAttempts |-> 2, dontRetry |-> 0]

Never == [maxAttempts |-> 2, dontRetry |-> 1]

Default == [maxAttempts |-> 0, dontRetry |-> 0]

Job(p, a, c, ttl, e, s) ==
  [page |-> p, ajax |-> a, cache |-> c, cacheTtl |-> ttl, extractData |-> e,
   sitedetail |-> s]

(* The tasks with another source, which do not retry.                      *)
M101Job == Job(Once, Once, 0, 0, 0, TRUE)

UnsupervisedJob == Job(Once, Once, 0, 0, 1, TRUE)

(* The rounds: every kind of retry of a request.                           *)
VisitingJobs ==
  {Job(Once, Twice, 0, 0, 0, TRUE), Job(Never, Once, 0, 0, 0, FALSE)}

(* The cache: no ttl, and a short one for a job that visits a page more    *)
(* often, its requests once, and extracts what is gone.                    *)
CachingJobs ==
  {Job(Once, Once, 1, 0, 0, TRUE), Job(Default, Never, 1, 5, 1, TRUE)}

MCJobs == {M101Job, UnsupervisedJob} \cup VisitingJobs \cup CachingJobs

(* No request, one and two; the tasks of the cache, and UNSUPERVISED,      *)
(* which clears the list, meet rounds of one.                              *)
MCUnresolved ==
  [j \in MCJobs |-> {<< >>, << u1 >>} \cup
     (IF j \in VisitingJobs \cup {M101Job} THEN {<< u1, u2 >>} ELSE {})]

(* On both sides of both ttls, with and without content.                   *)
MCEntries ==
  {[age |-> 4, full |-> TRUE, page |-> "perm"],
   [age |-> 8, full |-> TRUE, page |-> "success"],
   [age |-> 1, full |-> FALSE, page |-> "success"]}

MCRivals ==
  [j \in MCJobs |-> CASE j = M101Job -> {"M101"}
                      [] j = UnsupervisedJob -> {"UNSUPERVISED"}
                      [] OTHER -> {"none"}]
=============================================================================
