----------------------------- MODULE MCModalApps -----------------------------
(* Constants for TLC's runs of ModalApps. *)
EXTENDS ModalApps, TLC

CONSTANTS u1, u2, a1, a2, n1, n2, s1, s2, t1, t2, d1, d2

\* Both files define the app a1; the second has a function more.
Files == [s \in {s1, s2} |-> [app |-> a1, functions |-> IF s = s1 THEN {n1} ELSE {n1, n2}]]

Data(name, doi) == [name |-> name, doi |-> doi, is_archived |-> FALSE, text |-> t1]

Payload(app, file, names, data) ==
    [app_name |-> app, file |-> file, modal_function_names |-> names,
     modal_functions |-> data]

Draft == Payload(a1, s1, {n1}, {Data(n1, NULL)})
Pair == Payload(a1, s2, {n1, n2}, {Data(n1, NULL), Data(n2, d1)})
Twin == Payload(a1, s2, {n1, n2}, {Data(n1, NULL), Data(n2, NULL)})
Unchecked == Payload(a1, s1, {n1}, {Data(n2, NULL)})
Misnamed == Payload(a2, s1, {n1}, {Data(n1, NULL)})

FPatch(name, doi, archived, text) ==
    [name |-> name, doi |-> doi, is_archived |-> archived, text |-> text]

Publish == FPatch(NULL, d1, NULL, NULL)
Rewrite == FPatch(NULL, NULL, NULL, t2)
Archive == FPatch(NULL, NULL, TRUE, NULL)
Unarchive == FPatch(NULL, NULL, FALSE, NULL)

Payloads == {Draft, Twin, Pair, Unchecked, Misnamed}
Patches == {Publish, Rewrite, Archive, Unarchive}

Symmetry ==
    Permutations(ModalReq) \cup Permutations(AppId) \cup Permutations(FnId)
        \cup Permutations(User)
=============================================================================
