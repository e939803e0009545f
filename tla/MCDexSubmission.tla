--------------------------- MODULE MCDexSubmission ---------------------------
(* TLC instance of DexSubmission: two jobs of one wallet.                    *)
EXTENDS DexSubmission, TLC

CONSTANTS j1, j2

MCJobs == {j1, j2}
MCMixes == {j1 :> "swap" @@ j2 :> "transfer", j1 :> "swap" @@ j2 :> "bundle",
            j1 :> "unwind" @@ j2 :> "bundle"}
=============================================================================
