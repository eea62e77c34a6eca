---------------------------- MODULE ResourceStates ----------------------------
(* The states of a map renderer resource and the compare-and-swap ladders      *)
(* that every handler of MapRendererResourcesManager climbs.                   *)
(*                                                                             *)
(* A resource's state is one atomic integer. The code changes it with          *)
(* setStateIf(test, new), and almost every handler is a chain of such calls    *)
(* joined by else-if (or by && !): the first one that finds its test state     *)
(* wins, the others are not tried. A ladder is that chain, as a sequence of    *)
(* <<test, new>> rungs, so a handler needs a rung index and nothing else.      *)
EXTENDS Sequences, Naturals

\* Abbreviations for the longest names of enum MapRendererResourceState.
RCWBP == "RequestCanceledWhileBeingProcessed"
PUWR  == "ProcessingUpdateWhileRenewing"
UCWBP == "UpdatingCancelledWhileBeingProcessed"
JBD   == "JustBeforeDeath"

ResourceState ==
    {"Unknown", "Requesting", "Requested", "ProcessingRequest", RCWBP, "Unavailable",
     "Ready", "Uploading", "Uploaded", "IsBeingUsed", "UnloadPending", "Unloading", "Unloaded",
     "PreparingRenew", "PreparedRenew", "Renewing", "Outdated", "Updating",
     "RequestedUpdate", "ProcessingUpdate", PUWR, UCWBP, JBD}

\* States in which a request for the resource's data is being served.
Processing == {"ProcessingRequest", RCWBP, "ProcessingUpdate", PUWR, UCWBP}

\* States of an entry whose first data has not reached the GPU, or has left it.
NotInGPU == {"Unknown", "Requesting", "Requested", "ProcessingRequest", RCWBP,
             "Unavailable", "Ready", "Unloaded", JBD}

Ladder == Seq(ResourceState \X ResourceState)

BeginLadder ==
    << <<"Requested", "ProcessingRequest">>, <<"RequestedUpdate", "ProcessingUpdate">> >>

EndLadder(available) ==
    LET update == IF available THEN "PreparedRenew" ELSE "Uploaded"
    IN  << <<"ProcessingRequest", IF available THEN "Ready" ELSE "Unavailable">>,
           <<"ProcessingUpdate", update>>, <<PUWR, update>> >>

EndFailedLadder ==
    << <<"ProcessingUpdate", "Outdated">>, <<PUWR, "Outdated">>, <<UCWBP, "UnloadPending">> >>

\* A faulty variant: a cancelled first request is left where it is.
CancelLadderPartial ==
    << <<"Requested", JBD>>, <<"Ready", JBD>>, <<"Unavailable", JBD>>,
       <<"RequestedUpdate", "UnloadPending">>, <<UCWBP, "UnloadPending">> >>
CancelLadder ==
    << <<"Requested", JBD>>, <<"Ready", JBD>>, <<"Unavailable", JBD>>, <<RCWBP, JBD>>,
       <<"RequestedUpdate", "UnloadPending">>, <<UCWBP, "UnloadPending">> >>

UploadLadder ==
    << <<"Ready", "Uploading">>, <<"PreparedRenew", "Renewing">>, <<"ProcessingUpdate", PUWR>> >>

\* A faulty variant: a failed first upload counts as done.
UploadFailedLadderShown ==
    << <<"Uploading", "Uploaded">>, <<"Renewing", "Uploaded">> >>
UploadFailedLadder ==
    << <<"Uploading", "Unloaded">>, <<"Renewing", "Uploaded">> >>

\* A faulty variant: an upload during an update ends the update.
UploadedLadderEndsUpdate(outcome) ==
    LET fresh == IF outcome = "fresh" THEN "Uploaded" ELSE "Outdated"
    IN  << <<"Uploading", fresh>>, <<"Renewing", fresh>>, <<PUWR, fresh>> >>
\* outcome: what the flags isOld and isOldTime say once the upload has succeeded.
UploadedLadder(outcome) ==
    LET fresh == CASE outcome = "old" -> "Outdated"
                   [] outcome = "oldTime" -> "PreparedRenew"
                   [] OTHER -> "Uploaded"
    IN  << <<"Uploading", fresh>>, <<"Renewing", fresh>>, <<PUWR, "ProcessingUpdate">> >>

\* Faulty variants of the cleanup ladder: an entry that is being processed is
\* removed at once; one that is being unloaded is taken for unloaded; one that is
\* uploaded is removed without being unloaded.
CleanupLadderImpatient == << <<"ProcessingRequest", JBD>>, <<"Requested", JBD>> >>
CleanupLadderUnloading == << <<"Unloading", JBD>>, <<"Uploaded", "UnloadPending">> >>
CleanupLadderLeaking == << <<"Uploaded", JBD>>, <<"PreparedRenew", JBD>> >>
CleanupLadder ==
    << <<"Unloaded", JBD>>, <<"Uploaded", "UnloadPending">>, <<"PreparedRenew", "UnloadPending">>,
       <<"Outdated", "UnloadPending">>, <<"Ready", JBD>>, <<"ProcessingRequest", RCWBP>>,
       <<"ProcessingUpdate", UCWBP>>, <<PUWR, UCWBP>>, <<"Requested", JBD>>,
       <<"RequestedUpdate", "UnloadPending">>, <<"Unavailable", JBD>> >>

=============================================================================
