----------------------------- MODULE MCVaultMedia -----------------------------
(***************************************************************************)
(* Small instances of the Photo-Vault protocols: two calls, requests or    *)
(* jobs, about one media; two media with one call at a time; two requests  *)
(* with one key; or two about one pack.                                    *)
(***************************************************************************)
EXTENDS Vault, TLC

CONSTANTS h2, m2

VARIABLE alone    \* in the part about media: whether calls are one at a time

MCInit == VaultInit /\ alone \in BOOLEAN /\ (alone => part = "media")

MCNext ==
    /\ VaultNext /\ UNCHANGED alone
    /\ part = "media" => IF alone THEN op'[h2] = Idle ELSE media'[m2] = NoMedia

\* Fairness, owed in the part about media.
MCFairness ==
    /\ \A h \in Handlers : WF_vars(part = "media" /\ Serve(h))
    /\ \A m \in Media : SF_vars(part = "media" /\ Take(m))
    /\ SF_vars(part = "media" /\ Scan)
    /\ WF_vars(part = "media" /\ Tick)

MCSpec == MCInit /\ [][MCNext]_<<vaultVars, alone>> /\ MCFairness
=============================================================================
