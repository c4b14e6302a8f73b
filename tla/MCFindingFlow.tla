----------------------------- MODULE MCFindingFlow -----------------------------
(* Instances of FindingFlow for TLC. *)
EXTENDS FindingFlow, TLC

Claim(category, first, last, words, where, evidence, scope, confidence, proposed) ==
    [file |-> IF where = "elsewhere" THEN "b" ELSE "a", category |-> category,
     first |-> first, last |-> last, words |-> words, where |-> where,
     evidence |-> evidence, scope |-> scope, confidence |-> confidence,
     proposed |-> proposed]

Leak == Claim("correctness", 1, 3, {"leak", "file"}, "added", TRUE, "local", "high", "REQUIRED")
\* Near Leak without touching it, in almost the same words; and further on,
\* near this one but not near Leak.
LeakAgain == Claim("correctness", 5, 6, {"leak", "file", "open"}, "added", TRUE, "local", "low", "BLOCKER")
LeakThird == Claim("correctness", 9, 9, {"leak", "open"}, "added", TRUE, "local", "high", "REQUIRED")
Old == Claim("correctness", 20, 20, {"old"}, "context", TRUE, "local", "high", "REQUIRED")
Older == Claim("concurrency", 22, 22, {"old"}, "elsewhere", TRUE, "local", "low", "SUGGESTION")
Missing == Claim("test_gap", 1, 9, {"no", "test"}, "added", TRUE, "file", "high", "REQUIRED")
Doubtful == Claim("security", 12, 12, {"key"}, "added", FALSE, "local", "high", "BLOCKER")
Slow == Claim("performance", 4, 4, {"slow"}, "outside", TRUE, "local", "high", "SUGGESTION")
Wrong == Claim("correctness", 1, 1, {"leak"}, "nowhere", TRUE, "local", "high", "REQUIRED")

SomeClaims == {Leak, LeakAgain, Old, Older, Missing, Doubtful, Slow, Wrong}
Compiler == {Claim("correctness", 2, 2, {"undefined"}, "added", TRUE, "local", "high", "REQUIRED")}
Blamed == {LeakThird}
Left(claim, words, status, verdict, severity) ==
    [claim |-> claim, fp |-> Fingerprint([claim EXCEPT !.words = words]),
     proposed |-> claim.proposed, status |-> status, verdict |-> verdict,
     severity |-> severity, before |-> severity]
\* A confirmed one; one that was refuted; and one that bears an older identity,
\* from when findings could block by their category.
Before1 == {Left(LeakAgain, LeakAgain.words, "verified", "confirmed", "REQUIRED"),
            Left(LeakAgain, LeakAgain.words, "discarded", "rejected", "none"),
            Left(Doubtful, {"secret"}, "verified", "confirmed", "BLOCKER")}
===============================================================================
