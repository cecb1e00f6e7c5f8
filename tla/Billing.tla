------------------------------- MODULE Billing ------------------------------
(***************************************************************************)
(* The credits of an account from its packages, and the answers of the     *)
(* billing endpoints (billing.go).                                         *)
(***************************************************************************)
EXTENDS Integers, Sequences, FiniteSetsExt

\* A package as the upstream sends it: of its cycle and of all of it the size,
\* the rest and the use.
PackageRec ==
  [cycleSize: Int, cycleRemain: Int, cycleUsed: Int, capSize: Int, capRemain: Int, capUsed: Int]

\* packageRemainUsed: the cycle's numbers where there is a cycle, made to fit
\* one another; else the whole package's as they are.
PackageRemainUsed(p) ==
  IF p.cycleSize > 0
  THEN LET rest == Max({0, Min({p.cycleRemain, p.cycleSize})})
           used == Max({p.cycleSize - rest, p.cycleUsed})
       IN [remain |-> IF p.cycleUsed > p.cycleSize - rest /\ p.cycleSize >= used
                      THEN p.cycleSize - used ELSE rest,
           used |-> used, size |-> p.cycleSize]
  ELSE [remain |-> p.capRemain, size |-> p.capSize,
        used |-> IF p.capUsed = 0 /\ p.capSize > p.capRemain
                 THEN p.capSize - p.capRemain ELSE p.capUsed]

\* resourceSummary, of which the tasks use what remains: the sum over the
\* packages.
Remaining(packages) ==
  LET sum[n \in 0..Len(packages)] ==
        IF n = 0 THEN 0 ELSE sum[n - 1] + PackageRemainUsed(packages[n]).remain
  IN sum[Len(packages)]

\* The paths tried for a realm, the old and the new.
MeterPaths(realm) == IF realm = "global" THEN <<"plain", "v2">> ELSE <<"v2">>

\* billingMeterJSON: a path that is missing (404) gives way to the next one.
MeterAnswer(realm, answers) ==
  LET paths == MeterPaths(realm)
      first == answers[paths[1]]
  IN IF first = "missing" /\ Len(paths) > 1 THEN answers[paths[2]] ELSE first
=============================================================================
