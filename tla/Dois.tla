-------------------------------- MODULE Dois --------------------------------
(***************************************************************************)
(* The doi routes (api/routes/doi.py). Both handlers forward the payload   *)
(* to DataCite with a blocking call, so no other request runs in between,  *)
(* and neither reads or writes the database.                               *)
(***************************************************************************)
EXTENDS CatalogDB

CONSTANT DoiEvents      \* states the payloads ask DataCite for

ASSUME DoiEventsAssumption == DoiEvents \subseteq {"findable", "registered"}

MintDraftDoi(d) ==
    /\ datacite[d] = "unminted"
    /\ datacite' = [datacite EXCEPT ![d] = "draft"]
    /\ UNCHANGED tables

\* Event "publish" makes a minted DOI findable, "register" and "hide" leave it
\* resolvable without being indexed.
UpdateDatacite(d, state) ==
    /\ datacite[d] # "unminted"
    /\ datacite' = [datacite EXCEPT ![d] = state]
    /\ UNCHANGED tables

DoisNext ==
    \E d \in Doi : MintDraftDoi(d) \/ \E s \in DoiEvents : UpdateDatacite(d, s)
=============================================================================
