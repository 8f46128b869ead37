--------------------------- MODULE MCAmazonActor ----------------------------
(* Small instances of AmazonActor for TLC.                                 *)
EXTENDS AmazonActor, TLC

CONSTANTS c1, c2, c3, a1, a2

MCCallers == {c1, c2, c3}

MCAsins == {a1, a2}

Task(realtime, locale, asin, known) ==
  [realtime |-> realtime, locale |-> locale, asin |-> asin, known |-> known]

(* Two products and two locales; a realtimeapi task; one that is refused.  *)
MCTasks ==
  {Task(FALSE, "us", a1, TRUE), Task(FALSE, "us", a2, TRUE),
   Task(FALSE, "uk", a1, TRUE), Task(TRUE, "us", a1, TRUE),
   Task(TRUE, "us", a2, FALSE), Task(FALSE, "none", a1, TRUE)}

(* For liveness: two callers, and the tasks whose requests take turns.     *)
LiveCallers == {c1, c2}

LiveTasks ==
  {Task(FALSE, "us", a1, TRUE), Task(FALSE, "uk", a1, FALSE),
   Task(TRUE, "us", a2, TRUE), Task(FALSE, "none", a1, TRUE)}

CallerSymmetry == Permutations(MCCallers)
=============================================================================
