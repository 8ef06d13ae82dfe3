---------------------------- MODULE ReaderShellMC ----------------------------
(* Instances of ReaderShell for TLC: the patterns of use of its runs.       *)
EXTENDS ReaderShell

WholeShelf == {Books}
AllKeys == {"power", "next", "prev", "confirm", "back"}
ReadingKeys == AllKeys \ {"power"}

\* One book, kept at its first or last page, or at the last only.
AnyPlace == {[b \in Books |-> IF b = FirstBook THEN p ELSE 0] : p \in Page}
LastPage == {[b \in Books |-> PageCount - 1]}

\* Keys and the idle timer at any time, with every operation failing at times.
Hasty ==
  [keys |-> AllKeys, typing |-> "any", prompts |-> 3, idle |-> TRUE,
   faults |-> {"flush", "sleep", "store"}, listed |-> {FirstBook}, places |-> LastPage,
   last |-> {FirstBook}, commands |-> 1, storage |-> 2, power |-> 1]
\* A patient reader of two books, with a card that fails.
Bookworm ==
  [keys |-> ReadingKeys, typing |-> "patient", prompts |-> 6, idle |-> FALSE,
   faults |-> {"store"}, listed |-> Books, places |-> LastPage,
   last |-> {FirstBook}, commands |-> 4, storage |-> 4, power |-> 4]
\* Keys at any time after the first paint, no sleep, no failures.
Typist ==
  [keys |-> ReadingKeys, typing |-> "paint", prompts |-> 3, idle |-> FALSE,
   faults |-> {}, listed |-> {FirstBook}, places |-> AnyPlace,
   last |-> {FirstBook}, commands |-> 4, storage |-> 2, power |-> 4]
\* Sleep and wake with a failing panel and the firmware's queues.
Sleeper ==
  [keys |-> AllKeys, typing |-> "any", prompts |-> 2, idle |-> TRUE,
   faults |-> {"flush", "sleep"}, listed |-> {FirstBook}, places |-> LastPage,
   last |-> {FirstBook}, commands |-> 4, storage |-> 4, power |-> 4]

SafetyUsers == {Hasty, Bookworm}
LivenessUsers == {Typist, Sleeper}

\* The patterns of the runs that expect a violation.
SleeperOnly == {[Sleeper EXCEPT !.faults = {}, !.places = AnyPlace]}
EarlyTypist == {[Typist EXCEPT !.typing = "any", !.places = LastPage]}
ResumingReader == {[Typist EXCEPT !.typing = "patient"]}
=============================================================================
