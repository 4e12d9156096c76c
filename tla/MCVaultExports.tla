---------------------------- MODULE MCVaultExports ----------------------------
(***************************************************************************)
(* Exports of the Photo-Vault add-on: one export with two calls at a time; *)
(* and, without downloads and deletions, one beside a second that is       *)
(* created while the first is active.                                      *)
(***************************************************************************)
EXTENDS VaultExports, TLC

CONSTANTS h1, h2, e1, e2

VARIABLE part

ExportsInit == part \in {"one", "two"} /\ Init

ExportsNext ==
    /\ Next /\ UNCHANGED part
    /\ \/ part = "one" /\ export'[e2] = NoExport
       \/ /\ part = "two"
          /\ export'[e2] # NoExport => export[e1] # NoExport
          /\ job'[e2] = job[e2] /\ job'[e1].attempt = 1
          /\ \A h \in Handlers : op'[h].kind \notin {"deleting", "expiring"}

\* Abort keeps Serve(h) within both parts, and nothing else that is owed is left out.
ExportsSpec ==
    /\ ExportsInit
    /\ [][ExportsNext]_<<vars, part>>
    /\ Fairness
=============================================================================
