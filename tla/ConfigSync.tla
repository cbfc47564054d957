------------------------------ MODULE ConfigSync ------------------------------
(***************************************************************************)
(* mofgw-sync: one run reads config.yaml, merges the catalogs into a       *)
(* candidate, applies it (the digest first, the file after it), restarts   *)
(* the gateway, verifies it and rolls back.  The timer starts runs, and    *)
(* systemd never runs two at a time.                                       *)
(*                                                                         *)
(* A configuration is what the operator wrote and the models the sync      *)
(* derives; a digest is the configuration it was computed from.  Whatever  *)
(* may fail takes one from a budget of failures.                           *)
(***************************************************************************)
EXTENDS Integers

CONSTANTS
    Manual,       \* what the operator may write
    Models,       \* what the catalogs may hold
    Rejected,     \* models whose candidate ParseForValidation refuses
    Unfit,        \* models with which the gateway does not come up
    VerifyKey,    \* MOFGW_SYNC_VERIFY_KEY is set
    MaxFailures,  \* bound: failures of the environment
    MaxChanges    \* bound: edits of the operator, changes of the catalogs

Configs == [manual : Manual, models : Models]
None == [manual |-> "none", models |-> "none"]

ASSUME ConfigSyncAssumption ==
    /\ Rejected \subseteq Models /\ Unfit \subseteq Models
    /\ None \notin Configs
    /\ VerifyKey \in BOOLEAN
    /\ MaxFailures \in Nat /\ MaxChanges \in Nat

VARIABLES
    config,     \* config.yaml
    sidecar,    \* config.yaml.sha256, None = absent
    running,    \* what the gateway was started with, None = down
    catalog,    \* what the caches of the four sources give
    pc, mode,   \* of the run; mode is "reload" or "noReload"
    stash,      \* config.yaml as the run read it
    candidate,
    result,     \* how the run ended
    failures, changes

disk == <<config, sidecar>>
run == <<mode, stash, candidate>>
bounds == <<failures, changes>>
vars == <<disk, running, catalog, pc, run, result, bounds>>

Merge(c, models) == [c EXCEPT !.models = models]
ComesUp(c) == c.models \notin Unfit

Init ==
    /\ config \in Configs /\ ComesUp(config) /\ config.models \notin Rejected
    /\ sidecar = None /\ running = config
    /\ catalog \in Models
    /\ pc = "idle" /\ mode = "reload"
    /\ stash = None /\ candidate = None /\ result = "none"
    /\ failures = 0 /\ changes = 0

GoTo(from, to) == pc = from /\ pc' = to /\ UNCHANGED result
End(from, how) == pc = from /\ pc' = "ended" /\ result' = how
Fails == failures < MaxFailures /\ failures' = failures + 1 /\ UNCHANGED changes

\* loadRawConfig and loadSources: one read of the file feeds the whole run.
Start(m) ==
    /\ GoTo("idle", "apply")
    /\ mode' = m /\ stash' = config /\ candidate' = Merge(config, catalog)
    /\ UNCHANGED <<disk, running, catalog, bounds>>

-----------------------------------------------------------------------------
(* configsync.Apply.                                                       *)

\* The candidate does not validate: nothing is written.
Reject ==
    /\ candidate.models \in Rejected
    /\ End("apply", "failLoud")
    /\ UNCHANGED <<disk, running, catalog, run, bounds>>

SlipSameDigest == sidecar # None

\* The digest of the candidate is compared with the sidecar, never with the file.
SameDigest == sidecar = candidate

Skip ==
    /\ candidate.models \notin Rejected /\ SameDigest
    /\ IF mode = "reload" THEN GoTo("apply", "m2") ELSE End("apply", "noReload")
    /\ UNCHANGED <<disk, running, catalog, run, bounds>>

\* writeAtomic of the sidecar, then of the file.
WriteSidecar ==
    /\ candidate.models \notin Rejected /\ ~SameDigest
    /\ GoTo("apply", "body")
    /\ sidecar' = candidate
    /\ UNCHANGED <<config, running, catalog, run, bounds>>

WriteConfig ==
    /\ IF mode = "reload" THEN GoTo("body", "restart") ELSE End("body", "noReload")
    /\ config' = candidate
    /\ UNCHANGED <<sidecar, running, catalog, run, bounds>>

\* A failed write leaves the file it would have replaced.
WriteFails ==
    /\ Fails
    /\ \/ candidate.models \notin Rejected /\ ~SameDigest /\ End("apply", "failLoud")
       \/ End("body", "failLoud")
    /\ UNCHANGED <<disk, running, catalog, run>>

-----------------------------------------------------------------------------
(* reloadsig.Run.                                                          *)

SlipTrustsSidecar ==
    /\ End("m2", "skipped")
    /\ UNCHANGED <<disk, running, catalog, run, bounds>>

\* m2Defense: a skip is a success only if the file is the candidate.
M2Defense ==
    /\ End("m2", IF config = candidate THEN "skipped" ELSE "trapped")
    /\ UNCHANGED <<disk, running, catalog, run, bounds>>

\* The file cannot be read: the digests count as different.
ReadFails ==
    /\ Fails
    /\ End("m2", "trapped")
    /\ UNCHANGED <<disk, running, catalog, run>>

\* No user manager: the new file stays, the gateway is not restarted.
NoSystemd ==
    /\ Fails
    /\ End("restart", "unverified")
    /\ UNCHANGED <<disk, running, catalog, run>>

\* The gateway starts with the file on disk, if it starts.
Started == running' = IF ComesUp(config) THEN config ELSE None

Restart ==
    /\ GoTo("restart", "isActive")
    /\ Started
    /\ UNCHANGED <<disk, catalog, run, bounds>>

\* systemctl fails or takes 30 s, or the gateway does not come up this time.
RestartFails ==
    /\ Fails
    /\ \/ GoTo("restart", "restore") /\ (Started \/ running' \in {running, None})
       \/ GoTo("restart", "isActive") /\ running' = None
    /\ UNCHANGED <<disk, catalog, run>>

\* The 30 s windows of is-active and of healthz.
Verify(phase, next) ==
    /\ GoTo(phase, IF running # None THEN next ELSE "restore")
    /\ UNCHANGED <<disk, running, catalog, run, bounds>>

\* The gateway is up and is not seen to be.
VerifyFails ==
    /\ Fails
    /\ \/ GoTo("isActive", "restore")
       \/ GoTo("healthz", "restore")
       \/ End("verify2", "unverified")
    /\ UNCHANGED <<disk, running, catalog, run>>

\* parityCheck: the models served against those of the file, without a key not
\* checked at all.
Parity ==
    /\ IF VerifyKey => running.models = config.models
       THEN End("parity", "published") ELSE GoTo("parity", "restore")
    /\ UNCHANGED <<disk, running, catalog, run, bounds>>

ParityFails ==
    /\ VerifyKey /\ Fails
    /\ GoTo("parity", "restore")
    /\ UNCHANGED <<disk, running, catalog, run>>

\* restoreStash: the bytes that were read, and not the sidecar.
Restore ==
    /\ GoTo("restore", "restart2")
    /\ config' = stash
    /\ UNCHANGED <<sidecar, running, catalog, run, bounds>>

RestoreFails ==
    /\ Fails
    /\ End("restore", "unverified")
    /\ UNCHANGED <<disk, running, catalog, run>>

Restart2 ==
    /\ GoTo("restart2", "verify2")
    /\ Started
    /\ UNCHANGED <<disk, catalog, run, bounds>>

Restart2Fails ==
    /\ Fails
    /\ \/ End("restart2", "unverified") /\ (Started \/ running' \in {running, None})
       \/ GoTo("restart2", "verify2") /\ running' = None
    /\ UNCHANGED <<disk, catalog, run>>

SlipNoSecondLook ==
    /\ End("verify2", "rolledBack")
    /\ UNCHANGED <<disk, running, catalog, run, bounds>>

\* Liveness only: is-active and healthz again.
Verify2 ==
    /\ End("verify2", IF running # None THEN "rolledBack" ELSE "unverified")
    /\ UNCHANGED <<disk, running, catalog, run, bounds>>

-----------------------------------------------------------------------------
(* The environment.                                                        *)

\* The run is killed between two steps.
Kill ==
    /\ pc \notin {"idle", "ended"}
    /\ Fails
    /\ pc' = "ended" /\ result' = "killed"
    /\ UNCHANGED <<disk, running, catalog, run>>

\* The process exits with the code of its result.
Exit ==
    /\ pc = "ended" /\ pc' = "idle" /\ result' = "none"
    /\ mode' = "reload" /\ stash' = None /\ candidate' = None
    /\ UNCHANGED <<disk, running, catalog, bounds>>

\* Restart=on-failure of the gateway's unit.
ServerReturns ==
    /\ running = None /\ ComesUp(config) /\ running' = config
    /\ UNCHANGED <<disk, catalog, pc, run, result, bounds>>

\* The operator edits config.yaml between two runs, the models included.
Edit ==
    /\ pc = "idle" /\ changes < MaxChanges /\ changes' = changes + 1
    /\ \E c \in Configs :
          /\ ComesUp(c) /\ c.models \notin Rejected
          /\ config' = c
    /\ UNCHANGED <<sidecar, running, catalog, pc, run, result, failures>>

\* The catalogs change.
Publish ==
    /\ changes < MaxChanges /\ changes' = changes + 1
    /\ catalog' \in Models
    /\ UNCHANGED <<disk, running, pc, run, result, failures>>

Step ==
    \/ Reject \/ Skip \/ WriteSidecar \/ WriteConfig \/ M2Defense
    \/ Restart \/ Verify("isActive", "healthz") \/ Verify("healthz", "parity") \/ Parity
    \/ Restore \/ Restart2 \/ Verify2 \/ Exit

Failure ==
    \/ WriteFails \/ ReadFails \/ NoSystemd \/ RestartFails \/ VerifyFails \/ ParityFails
    \/ RestoreFails \/ Restart2Fails \/ Kill

Next == \/ \E m \in {"reload", "noReload"} : Start(m)
        \/ Step \/ Failure \/ ServerReturns \/ Edit \/ Publish

Spec == Init /\ [][Next]_vars

(* The timer fires for ever, a run takes its steps; the operator and the   *)
(* environment owe nothing.                                                *)
FairSpec == Spec /\ WF_vars(Start("reload")) /\ WF_vars(Step)

-----------------------------------------------------------------------------
Points == {"idle", "apply", "body", "m2", "restart", "isActive", "healthz", "parity",
           "restore", "restart2", "verify2", "ended"}
Results == {"none", "failLoud", "noReload", "skipped", "trapped", "published",
            "unverified", "rolledBack", "killed"}

\* Files, gateway and run have the right shape.
TypeOK ==
    /\ config \in Configs /\ sidecar \in Configs \cup {None}
    /\ running \in Configs \cup {None} /\ catalog \in Models
    /\ pc \in Points /\ mode \in {"reload", "noReload"}
    /\ stash \in Configs \cup {None} /\ candidate \in Configs \cup {None}
    /\ result \in Results /\ (pc # "ended" => result = "none")
    /\ failures \in 0..MaxFailures /\ changes \in 0..MaxChanges

\* Exit code 1: whatever failed, config.yaml is what the run found.
FailLoudLeavesConfig ==
    result \in {"failLoud", "trapped"} => config = stash

\* Exit code 0 of a run with reload: config.yaml is the candidate, and if the run
\* wrote it, the gateway runs it.
ZeroMeansPublished ==
    /\ result \in {"skipped", "published"} => config = candidate
    /\ result = "published" => running = candidate

\* A completed rollback leaves the gateway up with the configuration it had.
RolledBackServes ==
    result = "rolledBack" => config = stash /\ running = stash

\* The digest of the candidate is on disk while the file is not the candidate: the
\* next run skips.
Trapped == config.models # catalog /\ sidecar = Merge(config, catalog)

Published == config.models = catalog \/ catalog \in Rejected

\* Nothing but the trap of the sidecar keeps the timer from publishing what the
\* catalogs hold once they are quiet.
PublishedUnlessTrapped == []<>(Published \/ Trapped)

=============================================================================
