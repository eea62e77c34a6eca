-------------------------- MODULE MCRendererRelease --------------------------
(* Instances of RendererRelease for TLC. *)
EXTENDS RendererRelease, TLC

CONSTANTS e1, e2

\* One entry is in any state it can rest in, another one is not allocated yet.
RestingStates ==
    e1 :> {"Requested", "ProcessingRequest", "Ready", "Unavailable", "Uploaded", "PreparedRenew",
           "Outdated", "RequestedUpdate", "ProcessingUpdate", "UnloadPending"}
    @@ e2 :> {"Unknown"}
OneUploaded == e1 :> {"Uploaded"} @@ e2 :> {"Unknown"}

\* Every set-up of threads and providers; only the plain GPU worker is suspended,
\* which covers the set-up where it never is.
AllModes ==
    [gpu : {FALSE}, async : BOOLEAN, suspend : {FALSE}]
    \cup {[gpu |-> TRUE, async |-> async, suspend |-> ~async] : async \in BOOLEAN}
WorkerModes == [gpu : {TRUE}, async : {FALSE}, suspend : {FALSE}]
=============================================================================
