------------------------------ MODULE MCCatalog ------------------------------
(* Constants for TLC's runs of Catalog. *)
EXTENDS Catalog, TLC

CONSTANTS u1, u2, d1, d2, f1, f2, m1

Body(doi, draft, archived, owner, eps, fns) ==
    [doi |-> doi, doi_is_draft |-> draft, is_archived |-> archived,
     owner_identity_id |-> owner, entrypoint_ids |-> eps, modal_function_ids |-> fns]

GPatch(draft, archived, eps) ==
    [doi_is_draft |-> draft, is_archived |-> archived, entrypoint_ids |-> eps]

EBody(doi, draft, func, owner) ==
    [doi |-> doi, doi_is_draft |-> draft, is_archived |-> FALSE, func |-> func,
     owner_identity_id |-> owner]

EPatch(draft, archived, func) ==
    [doi_is_draft |-> draft, is_archived |-> archived, func |-> func]

None == {}

\* Garden payloads: a draft of the requester, an undecided one that gives the
\* garden away and takes a member, and a published one under the other DOI.
DraftGarden == Body(d1, TRUE, FALSE, NULL, {}, {})
GivenAwayGarden == Body(d1, NULL, FALSE, u2, {d1}, {m1})
PublishedGarden == Body(d2, FALSE, FALSE, NULL, {}, {})
ArchivedGarden == Body(d1, TRUE, TRUE, NULL, {}, {})

Publish == GPatch(FALSE, NULL, NULL)
Archive == GPatch(NULL, TRUE, NULL)
BackToDraft == GPatch(TRUE, FALSE, NULL)
SetMembers == GPatch(NULL, NULL, {d1})
ClearMembers == GPatch(NULL, NULL, {})

\* Bodies without functions, for the runs that leave functions out.
AdoptedGarden == Body(d1, NULL, FALSE, u2, {d1}, {})
AllGardenBodies == {DraftGarden, AdoptedGarden, PublishedGarden, ArchivedGarden}
AllGardenPatches == {Publish, Archive, BackToDraft, SetMembers}

\* Entrypoint payloads.
DraftEntrypoint == EBody(d1, TRUE, f1, NULL)
OtherEntrypoint == EBody(d2, FALSE, f2, u2)
RebuiltEntrypoint == EBody(d1, TRUE, f2, NULL)

AllEntrypointBodies == {DraftEntrypoint, OtherEntrypoint, RebuiltEntrypoint}
OneEntrypointBody == {DraftEntrypoint}
TwoGardenBodies == {DraftGarden, GivenAwayGarden}
RaceGardenPatches == {Publish, Archive, SetMembers, ClearMembers}

PublishE == EPatch(FALSE, NULL, NULL)
Rebuild == EPatch(NULL, NULL, f2)
WithdrawAndRebuild == EPatch(TRUE, NULL, f2)
ArchiveE == EPatch(NULL, TRUE, NULL)
UnarchiveE == EPatch(NULL, FALSE, NULL)
AllEntrypointPatches == {PublishE, Rebuild, WithdrawAndRebuild, ArchiveE, UnarchiveE}

PubPatches == {PublishE}

Symmetry ==
    Permutations(GardenReq) \cup Permutations(EntrypointReq)
        \cup Permutations(GardenId) \cup Permutations(EntrypointId)
=============================================================================
