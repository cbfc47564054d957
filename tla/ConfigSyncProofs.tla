-------------------------- MODULE ConfigSyncProofs --------------------------
(***************************************************************************)
(* Proofs about mofgw-sync: what an exit code says of the file and of the  *)
(* gateway, for any configurations, any budget of failures and of changes, *)
(* with the key for the parity check or without it.                        *)
(***************************************************************************)
EXTENDS ConfigSync, TLAPS

\* Where the file still is what the run found, or is it again.
Untouched == {"apply", "body", "m2", "restart2", "verify2"}
\* Where the file is the candidate.
Replaced == {"restart", "isActive", "healthz", "parity"}

\* A run in progress knows what it read and what it wants.
HoldsBoth == pc # "idle" => stash \in Configs /\ candidate \in Configs

\* The file follows the point of the run.
FileFollows ==
    /\ pc \in Untouched => config = stash
    /\ pc \in Replaced => config = candidate

\* After a restart the gateway runs the file or is down, and after a look at it
\* it runs the file.
GatewayFollows ==
    /\ pc \in {"isActive", "verify2"} => running \in {config, None}
    /\ pc \in {"healthz", "parity"} => running = config

\* The results, together.
ResultsTell == FailLoudLeavesConfig /\ ZeroMeansPublished /\ RolledBackServes

IInv == TypeOK /\ HoldsBoth /\ FileFollows /\ GatewayFollows /\ ResultsTell

USE ConfigSyncAssumption

LEMMA MergeType ==
    ASSUME NEW c \in Configs, NEW m \in Models
    PROVE  Merge(c, m) \in Configs
  BY DEF Merge, Configs

LEMMA InitIInv == Init => IInv
  BY DEF Init, IInv, TypeOK, HoldsBoth, FileFollows, GatewayFollows, ResultsTell,
     FailLoudLeavesConfig, ZeroMeansPublished, RolledBackServes, Points, Results,
     Untouched, Replaced

\* Every disjunct of the next-state relation keeps the invariant.
LEMMA NextIInv == IInv /\ [Next]_vars => IInv'
<1> SUFFICES ASSUME IInv, [Next]_vars PROVE IInv'
  OBVIOUS
<1> USE DEF IInv, TypeOK, HoldsBoth, FileFollows, GatewayFollows, ResultsTell,
        FailLoudLeavesConfig, ZeroMeansPublished, RolledBackServes, Points, Results,
        Untouched, Replaced, disk, run, bounds, GoTo, End, Fails
<1>1. ASSUME NEW m \in {"reload", "noReload"}, Start(m) PROVE IInv'
  BY <1>1, MergeType DEF Start
<1>2. CASE Reject
  BY <1>2 DEF Reject
<1>3. CASE Skip
  BY <1>3 DEF Skip
<1>4. CASE WriteSidecar
  BY <1>4 DEF WriteSidecar
<1>5. CASE WriteConfig
  BY <1>5 DEF WriteConfig
<1>6. CASE M2Defense
  BY <1>6 DEF M2Defense
<1>7. CASE Restart
  BY <1>7 DEF Restart, Started
<1>8. CASE Verify("isActive", "healthz")
  BY <1>8 DEF Verify
<1>9. CASE Verify("healthz", "parity")
  BY <1>9 DEF Verify
<1>10. CASE Parity
  BY <1>10 DEF Parity
<1>11. CASE Restore
  BY <1>11 DEF Restore
<1>12. CASE Restart2
  BY <1>12 DEF Restart2, Started
<1>13. CASE Verify2
  BY <1>13 DEF Verify2
<1>14. CASE Exit
  BY <1>14 DEF Exit
<1>15. CASE Failure
  <2>1. CASE WriteFails
    BY <2>1 DEF WriteFails
  <2>2. CASE ReadFails
    BY <2>2 DEF ReadFails
  <2>3. CASE NoSystemd
    BY <2>3 DEF NoSystemd
  <2>4. CASE RestartFails
    BY <2>4 DEF RestartFails, Started
  <2>5. CASE VerifyFails
    BY <2>5 DEF VerifyFails
  <2>6. CASE ParityFails
    BY <2>6 DEF ParityFails
  <2>7. CASE RestoreFails
    BY <2>7 DEF RestoreFails
  <2>8. CASE Restart2Fails
    BY <2>8 DEF Restart2Fails, Started
  <2>9. CASE Kill
    BY <2>9 DEF Kill
  <2> QED
    BY <1>15, <2>1, <2>2, <2>3, <2>4, <2>5, <2>6, <2>7, <2>8, <2>9 DEF Failure
<1>16. CASE ServerReturns
  BY <1>16 DEF ServerReturns
<1>17. CASE Edit
  BY <1>17 DEF Edit
<1>18. CASE Publish
  BY <1>18 DEF Publish
<1>19. CASE UNCHANGED vars
  BY <1>19 DEF vars
<1> QED
  BY <1>1, <1>2, <1>3, <1>4, <1>5, <1>6, <1>7, <1>8, <1>9, <1>10, <1>11, <1>12, <1>13,
     <1>14, <1>15, <1>16, <1>17, <1>18, <1>19 DEF Next, Step

\* Type correctness of mofgw-sync: files, gateway and run keep their shape.
THEOREM TypeCorrect == Spec => []TypeOK
<1>1. IInv => TypeOK
  BY DEF IInv
<1> QED
  BY InitIInv, NextIInv, <1>1, PTL DEF Spec

\* run and Apply promise that exit code 1 leaves config.yaml as it was.
THEOREM FailLoudCorrect == Spec => []FailLoudLeavesConfig
<1>1. IInv => FailLoudLeavesConfig
  BY DEF IInv, ResultsTell
<1> QED
  BY InitIInv, NextIInv, <1>1, PTL DEF Spec

\* Run exits with 0 only when the file is the candidate and, after a write, the
\* gateway runs it.
THEOREM ZeroCorrect == Spec => []ZeroMeansPublished
<1>1. IInv => ZeroMeansPublished
  BY DEF IInv, ResultsTell
<1> QED
  BY InitIInv, NextIInv, <1>1, PTL DEF Spec

\* rollback reports itself complete only when the gateway serves what the run found.
THEOREM RollbackCorrect == Spec => []RolledBackServes
<1>1. IInv => RolledBackServes
  BY DEF IInv, ResultsTell
<1> QED
  BY InitIInv, NextIInv, <1>1, PTL DEF Spec

=============================================================================
