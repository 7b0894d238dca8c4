-------------------------- MODULE Migrations_proof --------------------------
(***************************************************************************)
(* Proofs about Migrations, whatever tables have rows.                     *)
(***************************************************************************)
EXTENDS Migrations, WellFoundedInduction, TLAPS

LEMMA LastIs == Last = 24
BY DEF Last, Chain

LEMMA ChainIs ==
    /\ Chain[1] = CreateUsers
    /\ Chain[2] = CreateEntrypoints
    /\ Chain[3] = SimplifyEntrypointTable
    /\ Chain[4] = BringBackUsers
    /\ Chain[5] = AddRepositoryContributors
    /\ Chain[6] = AddMetadataFields
    /\ Chain[7] = CreateGardens
    /\ Chain[8] = AddEntrypointAliases
    /\ Chain[9] = FreeContainerUuid
    /\ Chain[10] = UseIds
    /\ Chain[11] = AddOwner
    /\ Chain[12] = SimplifyEntrypointSchema
    /\ Chain[13] = AddUserFields
    /\ Chain[14] = CreateMdfDatasets
    /\ Chain[15] = LinkDatasets
    /\ Chain[16] = CreateFailedUpdates
    /\ Chain[17] = AddIsArchived
    /\ Chain[18] = DropDatasetSource
    /\ Chain[19] = CreateModal
    /\ Chain[20] = LinkModalFunctions
    /\ Chain[21] = ReviseModal
    /\ Chain[22] = CreateInvocations
    /\ Chain[23] = RemoveFailedUpdates
    /\ Chain[24] = AddHardwareSpec
BY DEF Chain

-----------------------------------------------------------------------------
(* One migration at a time *)

\* What a migration drops of a schema.
Drops(m, f) ==
    \/ f[2] \in m.dropTables
    \/ f \in m.drop
    \/ \E tc \in m.dropColumns : Uses(f, tc[1], tc[2])

LEMMA AppliedIs ==
    ASSUME NEW S, NEW m, NEW f
    PROVE  f \in Applied(S, m) <=> (f \in S /\ ~Drops(m, f)) \/ f \in m.add
BY DEF Applied, Dropped, Drops

\* d takes a schema back to what it was before m.
Undoes(d, m, S) ==
    /\ \A f \in m.add : Drops(d, f)
    /\ \A f \in S : Drops(m, f) \/ Drops(d, f) => f \in d.add
    /\ d.add \subseteq S

LEMMA Undone ==
    ASSUME NEW S, NEW m, NEW d, Undoes(d, m, S)
    PROVE  Applied(Applied(S, m), d) = S
<1> DEFINE A == Applied(S, m)
           B == Applied(A, d)
<1>1. ASSUME NEW f PROVE f \in B <=> f \in S
    <2>1. f \in A <=> (f \in S /\ ~Drops(m, f)) \/ f \in m.add
        BY AppliedIs
    <2>2. f \in B <=> (f \in A /\ ~Drops(d, f)) \/ f \in d.add
        BY AppliedIs
    <2> HIDE DEF A, B
    <2> QED BY <2>1, <2>2 DEF Undoes
<1> HIDE DEF B
<1>2. B = S
    BY <1>1
<1> QED BY <1>2 DEF B

-----------------------------------------------------------------------------
(* The schema of a revision *)

LEMMA NatInduct ==
    ASSUME NEW Good, 0 \in Good, \A n \in Nat : n \in Good => n + 1 \in Good
    PROVE  Nat \subseteq Good
<1> DEFINE Bad == Nat \ Good
<1>1. SUFFICES ASSUME Bad # {} PROVE FALSE
    OBVIOUS
<1>2. PICK n \in Bad : \A k \in Bad : <<k, n>> \notin OpToRel(<, Nat)
    BY <1>1, NatLessThanWellFounded, WFMin
<1>3. n \in Nat /\ n \notin Good /\ n # 0
    BY <1>2
<1>4. n - 1 \in Nat /\ n - 1 < n /\ n = (n - 1) + 1
    BY <1>3
<1>6. n - 1 \in Bad
    BY <1>3, <1>4
<1>5. <<n - 1, n>> \in OpToRel(<, Nat)
    BY <1>3, <1>4 DEF OpToRel
<1> QED BY <1>2, <1>5, <1>6, Zenon

SchemaUpTo(g, n) ==
    g = [k \in 0..n |-> IF k = 0 THEN {} ELSE Applied(g[k - 1], Chain[k].up)]

LEMMA SchemaExists == \A n \in Nat : \E g : SchemaUpTo(g, n)
<1> DEFINE Good == {n \in Nat : \E g : SchemaUpTo(g, n)}
<1>1. 0 \in Good
    <2> DEFINE g == [k \in 0..0 |-> {}]
    <2>1. SchemaUpTo(g, 0)
        BY DEF SchemaUpTo
    <2> QED BY <2>1
<1>2. ASSUME NEW n \in Nat, n \in Good PROVE n + 1 \in Good
    <2>1. PICK g : SchemaUpTo(g, n)
        BY <1>2
    <2> DEFINE e(k) == IF k = 0 THEN {} ELSE Applied(g[k - 1], Chain[k].up)
               h == [k \in 0..n + 1 |-> e(k)]
               d(k) == IF k = 0 THEN {} ELSE Applied(h[k - 1], Chain[k].up)
    <2>2. \A k \in 0..n : g[k] = e(k)
        BY <2>1 DEF SchemaUpTo
    <2>3. \A k \in 0..n : h[k] = g[k]
        <3> HIDE DEF e
        <3> QED BY <2>2
    <2>4. \A k \in 0..n + 1 : e(k) = d(k)
        <3> HIDE DEF h
        <3>1. \A k \in 0..n + 1 : k # 0 => k - 1 \in 0..n
            OBVIOUS
        <3> QED BY <2>3, <3>1
    <2>5. h = [k \in 0..n + 1 |-> d(k)]
        <3> HIDE DEF e, d
        <3> QED BY <2>4
    <2>6. SchemaUpTo(h, n + 1)
        BY <2>5 DEF SchemaUpTo
    <2> QED BY <2>6
<1> HIDE DEF Good
<1>3. Nat \subseteq Good
    BY <1>1, <1>2, NatInduct
<1> QED BY <1>3 DEF Good

LEMMA SchemaStep ==
    /\ SchemaAt[0] = {}
    /\ \A k \in 1..24 : SchemaAt[k] = Applied(SchemaAt[k - 1], Chain[k].up)
<1>1. Last \in Nat
    BY LastIs
<1>2. PICK g : SchemaUpTo(g, Last)
    BY <1>1, SchemaExists
<1>3. SchemaUpTo(SchemaAt, Last)
    BY <1>2 DEF SchemaAt, SchemaUpTo
<1>4. SchemaUpTo(SchemaAt, 24)
    BY <1>3, LastIs
<1> DEFINE e(k) == IF k = 0 THEN {} ELSE Applied(SchemaAt[k - 1], Chain[k].up)
<1>5. SchemaAt = [k \in 0..24 |-> e(k)]
    BY <1>4 DEF SchemaUpTo
<1>6. \A k \in 0..24 : SchemaAt[k] = e(k)
    <2> HIDE DEF e
    <2> QED BY <1>5
<1> QED BY <1>6

\* A fact of a revision's schema comes from an earlier one, or was added since.
LEMMA Origin ==
    ASSUME NEW j \in 0..24, NEW n \in j..24, NEW f \in SchemaAt[n]
    PROVE  f \in SchemaAt[j] \/ \E k \in (j + 1)..n : f \in Chain[k].up.add
<1> DEFINE Since(i) == \E k \in (j + 1)..i : f \in Chain[k].up.add
           Good == {i \in Nat : j + i <= 24 /\ f \in SchemaAt[j + i]
                                    => f \in SchemaAt[j] \/ Since(j + i)}
<1>1. 0 \in Good
    OBVIOUS
<1>2. ASSUME NEW i \in Nat, i \in Good PROVE i + 1 \in Good
    <2> SUFFICES ASSUME j + (i + 1) <= 24, f \in SchemaAt[j + (i + 1)]
                 PROVE  f \in SchemaAt[j] \/ Since(j + (i + 1))
        OBVIOUS
    <2> DEFINE k == j + (i + 1)
    <2>1. k \in 1..24 /\ k - 1 = j + i /\ k \in (j + 1)..k
        OBVIOUS
    <2>2. SchemaAt[k] = Applied(SchemaAt[j + i], Chain[k].up)
        BY <2>1, SchemaStep
    <2>3. f \in SchemaAt[j + i] \/ f \in Chain[k].up.add
        <3> HIDE DEF k
        <3>1. f \in SchemaAt[k]
            BY DEF k
        <3> QED BY <2>2, <3>1, AppliedIs
    <2>4. CASE f \in Chain[k].up.add
        BY <2>1, <2>4
    <2>5. CASE f \in SchemaAt[j + i]
        BY <1>2, <2>5
    <2> QED BY <2>3, <2>4, <2>5
<1> HIDE DEF Good
<1>3. n - j \in Good
    <2>1. Nat \subseteq Good
        BY <1>1, <1>2, NatInduct
    <2> QED BY <2>1
<1> QED BY <1>3 DEF Good

\* A fact that no migration drops is still there.
LEMMA Stays ==
    ASSUME NEW j \in 0..24, NEW n \in j..24, NEW f \in SchemaAt[j],
           \A k \in (j + 1)..n : ~Drops(Chain[k].up, f)
    PROVE  f \in SchemaAt[n]
<1> DEFINE Good == {i \in Nat : j + i <= n => f \in SchemaAt[j + i]}
<1>1. 0 \in Good
    OBVIOUS
<1>2. ASSUME NEW i \in Nat, i \in Good PROVE i + 1 \in Good
    <2> SUFFICES ASSUME j + (i + 1) <= n PROVE f \in SchemaAt[j + (i + 1)]
        OBVIOUS
    <2> DEFINE k == j + (i + 1)
    <2>1. k \in 1..24 /\ k - 1 = j + i /\ k \in (j + 1)..n
        OBVIOUS
    <2>2. SchemaAt[k] = Applied(SchemaAt[j + i], Chain[k].up)
        BY <2>1, SchemaStep
    <2>3. f \in SchemaAt[j + i]
        BY <1>2
    <2> HIDE DEF k
    <2>4. f \in SchemaAt[k]
        BY <2>1, <2>2, <2>3, AppliedIs
    <2> QED BY <2>4 DEF k
<1> HIDE DEF Good
<1>3. n - j \in Good
    <2>1. Nat \subseteq Good
        BY <1>1, <1>2, NatInduct
    <2> QED BY <2>1
<1> QED BY <1>3 DEF Good

-----------------------------------------------------------------------------
(* What the migrations add and drop *)

ColumnsOf(t, cs) == {<<t, c>> : c \in cs}

\* A migration that drops, field by field.
Changes(m, tables, columns, facts, new) ==
    /\ m.dropTables = tables /\ m.dropColumns = columns /\ m.drop = facts
    /\ m.add = new

LEMMA SimplifyEntrypointTableUpgrade ==
    Changes(SimplifyEntrypointTable.up, {"authors", "test_functions", "users", "tags"}, {}, {},
            Required("entrypoints", {"authors", "tags", "test_functions"}))
BY DEF Changes, SimplifyEntrypointTable, Migration, NoChange

LEMMA AddMetadataFieldsUpgrade ==
    Changes(AddMetadataFields.up, {}, {}, Unique("dataset_metadata", {"doi"}),
            Required("dataset_metadata", {"title"})
                 \cup Required("paper_metadata", {"title", "authors"}))
BY DEF Changes, AddMetadataFields, Migration, NoChange

LEMMA FreeContainerUuidUpgrade ==
    Changes(FreeContainerUuid.up, {}, {}, Unique("entrypoints", {"container_uuid"}), {})
BY DEF Changes, FreeContainerUuid, Migration, NoChange

LEMMA UseIdsUpgrade ==
    Changes(UseIds.up, {},
            ColumnsOf("gardens_entrypoints", {"garden_doi", "entrypoint_doi"}), {},
            UNION {
                 Required("gardens_entrypoints", {"garden_id", "entrypoint_id"}),
                 References("gardens_entrypoints", "entrypoint_id", "entrypoints"),
                 References("gardens_entrypoints", "garden_id", "gardens")})
BY DEF Changes, UseIds, Migration, NoChange, DropsColumns, ColumnsOf

LEMMA AddOwnerUpgrade ==
    Changes(AddOwner.up, {}, {}, {},
            UNION {
                 Required("entrypoints", {"user_id"}), Required("gardens", {"user_id"}),
                 References("entrypoints", "user_id", "users"),
                 References("gardens", "user_id", "users")})
BY DEF Changes, AddOwner, Migration, NoChange

LEMMA SimplifyEntrypointSchemaUpgrade ==
    Changes(SimplifyEntrypointSchema.up,
            {"model_metadata", "dataset_metadata", "paper_metadata",
             "repository_metadata"},
            {}, {}, Columns("entrypoints", EntrypointLists))
BY DEF Changes, SimplifyEntrypointSchema, Migration, NoChange

LEMMA AddUserFieldsUpgrade ==
    Changes(AddUserFields.up, {}, {}, NotNull("users", "username"),
            UNION {
                 Table("users_saved_gardens", {"garden_id"}, {"user_id"}, {}),
                 References("users_saved_gardens", "garden_id", "gardens"),
                 References("users_saved_gardens", "user_id", "users"),
                 Columns("users", UserFields)})
BY DEF Changes, AddUserFields, Migration, NoChange

LEMMA AddIsArchivedUpgrade ==
    Changes(AddIsArchived.up, {}, {}, {},
            Required("entrypoints", {"is_archived"}) \cup Required("gardens", {"is_archived"}))
BY DEF Changes, AddIsArchived, Migration, NoChange, Adds

LEMMA DropDatasetSourceUpgrade ==
    Changes(DropDatasetSource.up, {}, ColumnsOf("mdf_datasets", SourceColumns), {}, {})
BY DEF Changes, DropDatasetSource, Migration, NoChange, DropsColumns, ColumnsOf

LEMMA ReviseModalUpgrade ==
    Changes(ReviseModal.up, {"modal_apps_modal_functions"},
            ColumnsOf("modal_apps", {"file_text"})
                 \cup ColumnsOf("modal_functions", RevisedColumns),
            NotNull("modal_functions", "doi"),
            UNION {
                 Required("modal_apps", {"base_image_name", "requirements", "file_contents"}),
                 Required("modal_functions", {"title", "function_name", "modal_app_id"}),
                 References("modal_functions", "modal_app_id", "modal_apps")})
BY DEF Changes, ReviseModal, ReviseModalUp, Migration, NoChange, ColumnsOf

LEMMA RemoveFailedUpdatesUpgrade ==
    Changes(RemoveFailedUpdates.up, {"failed_search_index_updates"}, {}, {}, {})
BY DEF Changes, RemoveFailedUpdates, Migration, NoChange, DropsTables

LEMMA Adding ==
    /\ \A facts : /\ Changes(Creates(facts).up, {}, {}, {}, facts)
                  /\ Creates(facts).down = DropsTables(TablesOf(facts))
    /\ \E new : Changes(AddRepositoryContributors.up, {}, {}, {}, new)
    /\ \E new : Changes(AddEntrypointAliases.up, {}, {}, {}, new)
    /\ \E new : Changes(AddHardwareSpec.up, {}, {}, {}, new)
BY DEF Changes, Creates, Migration, Adds, NoChange, AddRepositoryContributors,
       AddEntrypointAliases, AddHardwareSpec

LEMMA FactsOf ==
    /\ \A t, cs : /\ \A f \in Columns(t, cs) : f[2] = t
                  /\ \A f \in Required(t, cs) : f[2] = t
                  /\ \A f \in Unique(t, cs) : f[2] = t
    /\ \A t, c : \A f \in NotNull(t, c) : f[2] = t
    /\ \A t, c, t2 : \A f \in References(t, c, t2) : f[2] = t
    /\ \A t, pk, cs, ds : \A f \in Table(t, pk, cs, ds) : f[2] = t
    /\ \A t, cs, ds : \A f \in OfEntrypoint(t, cs, ds) : f[2] = t
    /\ \A t, c1, t1, c2, t2 : \A f \in Links(t, c1, t1, c2, t2) : f[2] = t
BY DEF Columns, Required, Unique, NotNull, References, Table, OfEntrypoint, Links

\* The tables each migration adds to.
TablesAdded ==
    <<{"users"},
      {"entrypoints", "authors", "tags", "test_functions", "model_metadata",
       "dataset_metadata", "paper_metadata", "repository_metadata"},
      {"entrypoints"},
      {"users"},
      {"repository_metadata"},
      {"dataset_metadata", "paper_metadata"},
      {"gardens", "gardens_entrypoints"},
      {"gardens"},
      {},
      {"gardens_entrypoints"},
      {"entrypoints", "gardens"},
      {"entrypoints"},
      {"users_saved_gardens", "users"},
      {"mdf_datasets"},
      {"entrypoints_mdf_datasets"},
      {"failed_search_index_updates"},
      {"entrypoints", "gardens"},
      {},
      {"modal_apps", "modal_functions", "modal_apps_modal_functions"},
      {"gardens_modal_functions"},
      {"modal_apps", "modal_functions"},
      {"modal_invocations"},
      {},
      {"modal_functions", "modal_invocations"}>>

LEMMA AddedTo == \A k \in 1..24 : \A f \in Chain[k].up.add : f[2] \in TablesAdded[k]
<1> USE FactsOf DEF TablesAdded
<1>1. \A f \in Chain[1].up.add : f[2] \in TablesAdded[1]
    BY ChainIs DEF Creates, Migration, Adds, NoChange, CreateUsers, UsersTable
<1>2. \A f \in Chain[2].up.add : f[2] \in TablesAdded[2]
    BY ChainIs DEF Creates, Migration, Adds, NoChange, CreateEntrypoints,
            AuthorsTable, TagsTable, TestFunctionsTable, ModelMetadata
<1>3. \A f \in Chain[3].up.add : f[2] \in TablesAdded[3]
    BY SimplifyEntrypointTableUpgrade, ChainIs DEF Changes
<1>4. \A f \in Chain[4].up.add : f[2] \in TablesAdded[4]
    BY ChainIs DEF Creates, Migration, Adds, NoChange, BringBackUsers, UsersTable
<1>5. \A f \in Chain[5].up.add : f[2] \in TablesAdded[5]
    BY ChainIs DEF Creates, Migration, Adds, NoChange, AddRepositoryContributors
<1>6. \A f \in Chain[6].up.add : f[2] \in TablesAdded[6]
    BY AddMetadataFieldsUpgrade, ChainIs DEF Changes
<1>7. \A f \in Chain[7].up.add : f[2] \in TablesAdded[7]
    BY ChainIs DEF Creates, Migration, Adds, NoChange, CreateGardens
<1>8. \A f \in Chain[8].up.add : f[2] \in TablesAdded[8]
    BY ChainIs DEF Creates, Migration, Adds, NoChange, AddEntrypointAliases
<1>9. \A f \in Chain[9].up.add : f[2] \in TablesAdded[9]
    BY FreeContainerUuidUpgrade, ChainIs DEF Changes
<1>10. \A f \in Chain[10].up.add : f[2] \in TablesAdded[10]
    BY UseIdsUpgrade, ChainIs DEF Changes
<1>11. \A f \in Chain[11].up.add : f[2] \in TablesAdded[11]
    BY AddOwnerUpgrade, ChainIs DEF Changes
<1>12. \A f \in Chain[12].up.add : f[2] \in TablesAdded[12]
    BY SimplifyEntrypointSchemaUpgrade, ChainIs DEF Changes
<1>13. \A f \in Chain[13].up.add : f[2] \in TablesAdded[13]
    BY AddUserFieldsUpgrade, ChainIs DEF Changes
<1>14. \A f \in Chain[14].up.add : f[2] \in TablesAdded[14]
    BY ChainIs DEF Creates, Migration, Adds, NoChange, CreateMdfDatasets
<1>15. \A f \in Chain[15].up.add : f[2] \in TablesAdded[15]
    BY ChainIs DEF Creates, Migration, Adds, NoChange, LinkDatasets
<1>16. \A f \in Chain[16].up.add : f[2] \in TablesAdded[16]
    BY ChainIs DEF Creates, Migration, Adds, NoChange, CreateFailedUpdates, FailedUpdates
<1>17. \A f \in Chain[17].up.add : f[2] \in TablesAdded[17]
    BY AddIsArchivedUpgrade, ChainIs DEF Changes
<1>18. \A f \in Chain[18].up.add : f[2] \in TablesAdded[18]
    BY DropDatasetSourceUpgrade, ChainIs DEF Changes
<1>19. \A f \in Chain[19].up.add : f[2] \in TablesAdded[19]
    BY ChainIs DEF Creates, Migration, Adds, NoChange, CreateModal, AppsFunctions
<1>20. \A f \in Chain[20].up.add : f[2] \in TablesAdded[20]
    BY ChainIs DEF Creates, Migration, Adds, NoChange, LinkModalFunctions
<1>21. \A f \in Chain[21].up.add : f[2] \in TablesAdded[21]
    BY ReviseModalUpgrade, ChainIs DEF Changes
<1>22. \A f \in Chain[22].up.add : f[2] \in TablesAdded[22]
    BY ChainIs DEF Creates, Migration, Adds, NoChange, CreateInvocations
<1>23. \A f \in Chain[23].up.add : f[2] \in TablesAdded[23]
    BY RemoveFailedUpdatesUpgrade, ChainIs DEF Changes
<1>24. \A f \in Chain[24].up.add : f[2] \in TablesAdded[24]
    BY ChainIs DEF Creates, Migration, Adds, NoChange, AddHardwareSpec
<1> QED BY <1>1, <1>2, <1>3, <1>4, <1>5, <1>6, <1>7, <1>8, <1>9, <1>10, <1>11,
        <1>12, <1>13, <1>14, <1>15, <1>16, <1>17, <1>18, <1>19, <1>20, <1>21,
        <1>22, <1>23, <1>24

\* The migrations that only add.
AddsOnly == 1..24 \ {3, 6, 9, 10, 12, 13, 18, 21, 23}

LEMMA ColumnsDropped ==
    ASSUME NEW f, NEW t, NEW cs
    PROVE  (\E tc \in ColumnsOf(t, cs) : Uses(f, tc[1], tc[2])) <=> \E c \in cs : Uses(f, t, c)
<1>1. ASSUME NEW tc \in ColumnsOf(t, cs), Uses(f, tc[1], tc[2])
      PROVE  \E c \in cs : Uses(f, t, c)
    <2>1. PICK c \in cs : tc = <<t, c>>
        BY DEF ColumnsOf
    <2>2. tc[1] = t /\ tc[2] = c
        BY <2>1
    <2>3. Uses(f, t, c)
        BY <1>1, <2>2, Zenon
    <2> QED BY <2>3
<1>2. ASSUME NEW c \in cs, Uses(f, t, c)
      PROVE  \E tc \in ColumnsOf(t, cs) : Uses(f, tc[1], tc[2])
    <2>1. <<t, c>> \in ColumnsOf(t, cs) /\ <<t, c>>[1] = t /\ <<t, c>>[2] = c
        BY DEF ColumnsOf
    <2>2. Uses(f, <<t, c>>[1], <<t, c>>[2])
        BY <1>2, <2>1, Zenon
    <2> QED BY <2>1, <2>2
<1> QED BY <1>1, <1>2

LEMMA UpDrops ==
    /\ \A k \in AddsOnly : \A f : ~Drops(Chain[k].up, f)
    /\ \A f : Drops(Chain[3].up, f) <=> f[2] \in {"authors", "test_functions", "users", "tags"}
    /\ \A f : Drops(Chain[6].up, f) <=> f = <<"unique", "dataset_metadata", "doi">>
    /\ \A f : Drops(Chain[9].up, f) <=> f = <<"unique", "entrypoints", "container_uuid">>
    /\ \A f : Drops(Chain[10].up, f) => f[2] = "gardens_entrypoints" /\ f[1] # "table"
    /\ \A f : Drops(Chain[12].up, f) <=>
            f[2] \in {"model_metadata", "dataset_metadata", "paper_metadata",
                      "repository_metadata"}
    /\ \A f : Drops(Chain[13].up, f) <=> f = <<"notnull", "users", "username">>
    /\ \A f : Drops(Chain[18].up, f) <=>
            \E c \in SourceColumns : Uses(f, "mdf_datasets", c)
    /\ \A f : Drops(Chain[21].up, f) <=>
            \/ f[2] = "modal_apps_modal_functions"
            \/ f = <<"notnull", "modal_functions", "doi">>
            \/ Uses(f, "modal_apps", "file_text")
            \/ \E c \in RevisedColumns : Uses(f, "modal_functions", c)
    /\ \A f : Drops(Chain[23].up, f) <=> f[2] = "failed_search_index_updates"
<1>1. \A k \in {1, 2, 4, 7, 14, 15, 16, 19, 20, 22} :
        \E facts : Chain[k] = Creates(facts)
    BY ChainIs
       DEF CreateUsers, CreateEntrypoints, BringBackUsers, CreateGardens, CreateMdfDatasets,
           LinkDatasets, CreateFailedUpdates, CreateModal, LinkModalFunctions, CreateInvocations
<1>2. \A k \in {5, 8, 11, 17, 24} : \E new : Changes(Chain[k].up, {}, {}, {}, new)
    BY ChainIs, Adding, AddOwnerUpgrade, AddIsArchivedUpgrade
<1>3. \A k \in AddsOnly : \E new : Changes(Chain[k].up, {}, {}, {}, new)
    BY <1>1, <1>2, Adding DEF AddsOnly
<1>4. \A k \in AddsOnly : \A f : ~Drops(Chain[k].up, f)
    BY <1>3 DEF Changes, Drops
<1>5. \A f : Drops(SimplifyEntrypointTable.up, f)
                <=> f[2] \in {"authors", "test_functions", "users", "tags"}
    BY SimplifyEntrypointTableUpgrade DEF Changes, Drops
<1>6. \A f : Drops(AddMetadataFields.up, f) <=> f = <<"unique", "dataset_metadata", "doi">>
    BY AddMetadataFieldsUpgrade DEF Changes, Drops, Unique
<1>7. \A f : Drops(FreeContainerUuid.up, f)
                <=> f = <<"unique", "entrypoints", "container_uuid">>
    BY FreeContainerUuidUpgrade DEF Changes, Drops, Unique
<1>8. \A f : Drops(UseIds.up, f) => f[2] = "gardens_entrypoints" /\ f[1] # "table"
    BY UseIdsUpgrade, ColumnsDropped DEF Changes, Drops, Uses
<1>9. \A f : Drops(SimplifyEntrypointSchema.up, f)
                <=> f[2] \in {"model_metadata", "dataset_metadata", "paper_metadata",
                              "repository_metadata"}
    BY SimplifyEntrypointSchemaUpgrade DEF Changes, Drops
<1>10. \A f : Drops(AddUserFields.up, f) <=> f = <<"notnull", "users", "username">>
    BY AddUserFieldsUpgrade DEF Changes, Drops, NotNull
<1>11. \A f : Drops(DropDatasetSource.up, f)
                <=> \E c \in SourceColumns : Uses(f, "mdf_datasets", c)
    <2> TAKE f
    <2>1. Drops(DropDatasetSource.up, f)
            <=> \E tc \in ColumnsOf("mdf_datasets", SourceColumns) : Uses(f, tc[1], tc[2])
        BY DropDatasetSourceUpgrade DEF Changes, Drops
    <2> QED BY <2>1, ColumnsDropped
<1>12. \A f : Drops(ReviseModal.up, f) <=>
                \/ f[2] = "modal_apps_modal_functions"
                \/ f = <<"notnull", "modal_functions", "doi">>
                \/ Uses(f, "modal_apps", "file_text")
                \/ \E c \in RevisedColumns : Uses(f, "modal_functions", c)
    <2> TAKE f
    <2> DEFINE cols == ColumnsOf("modal_apps", {"file_text"})
                            \cup ColumnsOf("modal_functions", RevisedColumns)
    <2>1. Drops(ReviseModal.up, f) <=>
            \/ f[2] \in {"modal_apps_modal_functions"}
            \/ f \in NotNull("modal_functions", "doi")
            \/ \E tc \in cols : Uses(f, tc[1], tc[2])
        BY ReviseModalUpgrade DEF Changes, Drops
    <2>2. (\E tc \in cols : Uses(f, tc[1], tc[2])) <=>
            \/ \E c \in {"file_text"} : Uses(f, "modal_apps", c)
            \/ \E c \in RevisedColumns : Uses(f, "modal_functions", c)
        BY ColumnsDropped
    <2>3. f \in NotNull("modal_functions", "doi") <=> f = <<"notnull", "modal_functions", "doi">>
        BY DEF NotNull
    <2> HIDE DEF cols
    <2> QED BY <2>1, <2>2, <2>3
<1>13. \A f : Drops(RemoveFailedUpdates.up, f) <=> f[2] = "failed_search_index_updates"
    BY RemoveFailedUpdatesUpgrade DEF Changes, Drops
<1>14. \A f : /\ Drops(Chain[3].up, f) <=> Drops(SimplifyEntrypointTable.up, f)
              /\ Drops(Chain[6].up, f) <=> Drops(AddMetadataFields.up, f)
              /\ Drops(Chain[9].up, f) <=> Drops(FreeContainerUuid.up, f)
              /\ Drops(Chain[10].up, f) <=> Drops(UseIds.up, f)
              /\ Drops(Chain[12].up, f) <=> Drops(SimplifyEntrypointSchema.up, f)
              /\ Drops(Chain[13].up, f) <=> Drops(AddUserFields.up, f)
              /\ Drops(Chain[18].up, f) <=> Drops(DropDatasetSource.up, f)
              /\ Drops(Chain[21].up, f) <=> Drops(ReviseModal.up, f)
              /\ Drops(Chain[23].up, f) <=> Drops(RemoveFailedUpdates.up, f)
    BY ChainIs
<1> QED BY <1>4, <1>5, <1>6, <1>7, <1>8, <1>9, <1>10, <1>11, <1>12, <1>13, <1>14

-----------------------------------------------------------------------------
(* Where the facts of a schema come from *)

LEMMA Adders ==
    /\ \A k \in 1..24 :
        /\ "users" \in TablesAdded[k] => k \in {1, 4, 13}
        /\ "entrypoints" \in TablesAdded[k] => k \in {2, 3, 11, 12, 17}
        /\ "authors" \in TablesAdded[k] => k = 2
        /\ "tags" \in TablesAdded[k] => k = 2
        /\ "test_functions" \in TablesAdded[k] => k = 2
        /\ "model_metadata" \in TablesAdded[k] => k = 2
        /\ "dataset_metadata" \in TablesAdded[k] => k \in {2, 6}
        /\ "paper_metadata" \in TablesAdded[k] => k \in {2, 6}
        /\ "repository_metadata" \in TablesAdded[k] => k \in {2, 5}
        /\ "gardens" \in TablesAdded[k] => k \in {7, 8, 11, 17}
        /\ "gardens_entrypoints" \in TablesAdded[k] => k \in {7, 10}
        /\ "users_saved_gardens" \in TablesAdded[k] => k = 13
        /\ "mdf_datasets" \in TablesAdded[k] => k = 14
        /\ "entrypoints_mdf_datasets" \in TablesAdded[k] => k = 15
        /\ "failed_search_index_updates" \in TablesAdded[k] => k = 16
        /\ "modal_apps" \in TablesAdded[k] => k \in {19, 21}
        /\ "modal_functions" \in TablesAdded[k] => k \in {19, 21, 24}
        /\ "modal_apps_modal_functions" \in TablesAdded[k] => k = 19
        /\ "gardens_modal_functions" \in TablesAdded[k] => k = 20
        /\ "modal_invocations" \in TablesAdded[k] => k \in {22, 24}
BY DEF TablesAdded

LEMMA AddedBy ==
    ASSUME NEW n \in 0..24, NEW f \in SchemaAt[n]
    PROVE  \E k \in 1..n : f \in Chain[k].up.add /\ f[2] \in TablesAdded[k]
<1>1. PICK j \in 0..24 : j = 0
    OBVIOUS
<1>2. n \in j..24
    BY <1>1
<1>3. f \in SchemaAt[j] \/ \E k \in (j + 1)..n : f \in Chain[k].up.add
    BY <1>2, Origin
<1> QED BY <1>1, <1>3, SchemaStep, AddedTo

\* The migrations that create tables and do nothing else.
Creating == {1, 2, 4, 7, 14, 15, 16, 19, 20, 22}

LEMMA TablesCreated ==
    ASSUME NEW k \in Creating
    PROVE  TablesOf(Chain[k].up.add) = TablesAdded[k]
<1>1. ASSUME NEW t \in TablesAdded[k] PROVE <<"table", t>> \in Chain[k].up.add
    <2> USE ChainIs, <1>1 DEF TablesAdded, Creates, Migration, Adds, NoChange, Table
    <2>1. CASE k = 1
        BY <2>1 DEF CreateUsers, UsersTable
    <2>2. CASE k = 2
        BY <2>2 DEF CreateEntrypoints, OfEntrypoint, AuthorsTable, TagsTable, TestFunctionsTable,
                    ModelMetadata
    <2>4. CASE k = 4
        BY <2>4 DEF BringBackUsers, UsersTable
    <2>7. CASE k = 7
        BY <2>7 DEF CreateGardens
    <2>14. CASE k = 14
        BY <2>14 DEF CreateMdfDatasets
    <2>15. CASE k = 15
        BY <2>15 DEF LinkDatasets, Links
    <2>16. CASE k = 16
        BY <2>16 DEF CreateFailedUpdates, FailedUpdates
    <2>19. CASE k = 19
        BY <2>19 DEF CreateModal, AppsFunctions, Links
    <2>20. CASE k = 20
        BY <2>20 DEF LinkModalFunctions, Links
    <2>22. CASE k = 22
        BY <2>22 DEF CreateInvocations
    <2> QED
        BY <2>1, <2>2, <2>4, <2>7, <2>14, <2>15, <2>16, <2>19, <2>20, <2>22 DEF Creating
<1>2. \A t : <<"table", t>>[1] = "table" /\ <<"table", t>>[2] = t
    OBVIOUS
<1>3. k \in 1..24
    BY DEF Creating
<1> QED BY <1>1, <1>2, <1>3, AddedTo DEF TablesOf

LEMMA CreatesUndone ==
    ASSUME NEW k \in Creating, \A f \in SchemaAt[k - 1] : f[2] \notin TablesAdded[k]
    PROVE  Undoes(Chain[k].down, Chain[k].up, SchemaAt[k - 1])
<1>1. PICK facts : Chain[k] = Creates(facts)
    BY ChainIs
       DEF Creating, CreateUsers, CreateEntrypoints, BringBackUsers, CreateGardens,
           CreateMdfDatasets, LinkDatasets, CreateFailedUpdates, CreateModal,
           LinkModalFunctions, CreateInvocations
<1>2. Changes(Chain[k].up, {}, {}, {}, facts)
    BY <1>1, Adding
<1>3. facts = Chain[k].up.add /\ TablesOf(facts) = TablesAdded[k]
    BY <1>2, TablesCreated DEF Changes
<1>4. Changes(Chain[k].down, TablesAdded[k], {}, {}, {})
    <2>1. Chain[k].down = DropsTables(TablesAdded[k])
        BY <1>1, <1>3, Adding
    <2>2. \A ts : Changes(DropsTables(ts), ts, {}, {}, {})
        BY DEF Changes, DropsTables, NoChange
    <2> QED BY <2>1, <2>2
<1>5. \A f \in facts : f[2] \in TablesAdded[k]
    BY <1>3, AddedTo DEF Creating
<1> QED BY <1>2, <1>4, <1>5 DEF Undoes, Drops, Changes

\* A migration that creates tables finds none of their facts there.
LEMMA NewTables ==
    ASSUME NEW k \in Creating, NEW f \in SchemaAt[k - 1]
    PROVE  f[2] \notin TablesAdded[k]
<1>1. k \in 1..24 /\ k - 1 \in 0..24
    BY DEF Creating
<1>2. PICK j \in 1..(k - 1) : f \in Chain[j].up.add /\ f[2] \in TablesAdded[j]
    BY <1>1, AddedBy
<1>3. j \in 1..24 /\ j < k
    BY <1>1, <1>2
<1>4. CASE k # 4
    BY <1>2, <1>3, <1>4, Adders DEF Creating, TablesAdded
<1>5. CASE k = 4
    <2>1. SchemaAt[3] = Applied(SchemaAt[2], Chain[3].up)
        BY SchemaStep
    <2>2. f[2] # "users" \/ f \in Chain[3].up.add
        BY <1>5, <2>1, AppliedIs, UpDrops
    <2>3. f \in Chain[3].up.add => f[2] = "entrypoints"
        BY AddedTo DEF TablesAdded
    <2> QED BY <1>5, <2>2, <2>3 DEF TablesAdded
<1> QED BY <1>4, <1>5

\* Columns that a migration does not add.
LEMMA Unused ==
    /\ \A f \in Chain[1].up.add \cup Chain[4].up.add : \A c \in UserFields : ~Uses(f, "users", c)
    /\ \A f \in Chain[2].up.add :
        /\ \A c \in {"authors", "tags", "test_functions", "is_archived"} \cup EntrypointLists :
            ~Uses(f, "entrypoints", c)
        /\ ~Uses(f, "repository_metadata", "contributors")
        /\ \A c \in {"title", "authors"} : ~Uses(f, "paper_metadata", c)
        /\ ~Uses(f, "dataset_metadata", "title")
    /\ \A f \in Chain[3].up.add \cup Chain[11].up.add :
            \A c \in {"is_archived"} \cup EntrypointLists : ~Uses(f, "entrypoints", c)
    /\ \A f \in Chain[7].up.add : ~Uses(f, "gardens", "entrypoint_aliases")
    /\ \A f \in Chain[7].up.add \cup Chain[8].up.add \cup Chain[11].up.add :
            ~Uses(f, "gardens", "is_archived")
    /\ \A f \in Chain[12].up.add : ~Uses(f, "entrypoints", "is_archived")
    /\ \A f \in Chain[19].up.add \cup Chain[21].up.add : ~Uses(f, "modal_functions", "hardware_spec")
    /\ \A f \in Chain[22].up.add : ~Uses(f, "modal_invocations", "function_call_id")
<1> USE DEF Creates, Migration, Adds, NoChange, Changes, Table, Unique, References, Required,
            Columns, Links, OfEntrypoint, Uses
<1>1. \A f \in CreateUsers.up.add \cup BringBackUsers.up.add :
        \A c \in UserFields : ~Uses(f, "users", c)
    BY DEF CreateUsers, BringBackUsers, UsersTable, UserFields
<1>2. \A f \in CreateEntrypoints.up.add :
        \A c \in {"authors", "tags", "test_functions", "is_archived"} \cup EntrypointLists :
            ~Uses(f, "entrypoints", c)
    BY DEF CreateEntrypoints, EntrypointLists, AuthorsTable, TagsTable, TestFunctionsTable,
           ModelMetadata
<1>3. \A f \in CreateEntrypoints.up.add :
        /\ ~Uses(f, "repository_metadata", "contributors")
        /\ \A c \in {"title", "authors"} : ~Uses(f, "paper_metadata", c)
        /\ ~Uses(f, "dataset_metadata", "title")
    BY DEF CreateEntrypoints, AuthorsTable, TagsTable, TestFunctionsTable, ModelMetadata
<1>4. \A f \in SimplifyEntrypointTable.up.add \cup AddOwner.up.add :
        \A c \in {"is_archived"} \cup EntrypointLists : ~Uses(f, "entrypoints", c)
    BY SimplifyEntrypointTableUpgrade, AddOwnerUpgrade DEF EntrypointLists
<1>5. \A f \in CreateGardens.up.add :
        ~Uses(f, "gardens", "entrypoint_aliases") /\ ~Uses(f, "gardens", "is_archived")
    BY DEF CreateGardens
<1>6. \A f \in AddEntrypointAliases.up.add \cup AddOwner.up.add : ~Uses(f, "gardens", "is_archived")
    BY AddOwnerUpgrade DEF AddEntrypointAliases
<1>7. \A f \in SimplifyEntrypointSchema.up.add : ~Uses(f, "entrypoints", "is_archived")
    BY SimplifyEntrypointSchemaUpgrade DEF EntrypointLists
<1>8. \A f \in CreateModal.up.add \cup ReviseModal.up.add :
        ~Uses(f, "modal_functions", "hardware_spec")
    BY ReviseModalUpgrade DEF CreateModal, AppsFunctions
<1>9. \A f \in CreateInvocations.up.add : ~Uses(f, "modal_invocations", "function_call_id")
    BY DEF CreateInvocations
<1> QED
    BY ChainIs, <1>1, <1>2, <1>3, <1>4, <1>5, <1>6, <1>7, <1>8, <1>9

-----------------------------------------------------------------------------
(* What the downgrades drop and add *)

LEMMA DowngradeColumns ==
    /\ Changes(SimplifyEntrypointTable.down, {},
            ColumnsOf("entrypoints", {"authors", "tags", "test_functions"}), {},
            UNION {TagsTable, UsersTable, TestFunctionsTable, AuthorsTable})
    /\ Changes(AddRepositoryContributors.down, {},
            ColumnsOf("repository_metadata", {"contributors"}), {}, {})
    /\ Changes(AddEntrypointAliases.down, {}, ColumnsOf("gardens", {"entrypoint_aliases"}), {}, {})
BY DEF Changes, ColumnsOf, Migration, NoChange, DropsColumns, SimplifyEntrypointTable,
       AddRepositoryContributors, AddEntrypointAliases

LEMMA MetadataDowngrade ==
    Changes(AddMetadataFields.down, {},
        ColumnsOf("paper_metadata", {"authors", "title"})
            \cup ColumnsOf("dataset_metadata", {"title"}), {},
        Unique("dataset_metadata", {"doi"}))
BY DEF Changes, ColumnsOf, Migration, NoChange, AddMetadataFields

LEMMA SchemaDowngrade ==
    Changes(SimplifyEntrypointSchema.down, {}, ColumnsOf("entrypoints", EntrypointLists), {},
        UNION {
            OfEntrypoint("repository_metadata",
                {"repo_name", "url", "entrypoint_id", "contributors"}, {}),
            OfEntrypoint("paper_metadata",
                {"doi", "entrypoint_id", "title", "authors"}, {"citation"}),
            OfEntrypoint("dataset_metadata",
                {"doi", "url", "repository", "entrypoint_id", "title"}, {"data_type"}),
            ModelMetadata})
BY DEF Changes, ColumnsOf, Migration, NoChange, DropsColumns, SimplifyEntrypointSchema

LEMMA UserFieldsDowngrade ==
    Changes(AddUserFields.down, {"users_saved_gardens"}, ColumnsOf("users", UserFields), {},
        NotNull("users", "username"))
BY DEF Changes, ColumnsOf, Migration, NoChange, DropsColumns, AddUserFields

LEMMA ArchivedDowngrade ==
    Changes(AddIsArchived.down, {},
        ColumnsOf("gardens", {"is_archived"}) \cup ColumnsOf("entrypoints", {"is_archived"}),
        {}, {})
BY DEF Changes, ColumnsOf, Migration, NoChange, AddIsArchived

LEMMA HardwareDowngrade ==
    Changes(AddHardwareSpec.down, {},
        ColumnsOf("modal_invocations", {"function_call_id"})
            \cup ColumnsOf("modal_functions", {"hardware_spec"}), {}, {})
BY DEF Changes, ColumnsOf, Migration, NoChange, AddHardwareSpec

LEMMA AddingDowngrades ==
    /\ Changes(FreeContainerUuid.down, {}, {}, {}, Unique("entrypoints", {"container_uuid"}))
    /\ Changes(DropDatasetSource.down, {}, {}, {},
            Required("mdf_datasets", SourceColumns) \cup Unique("mdf_datasets", {"flow_action_id"}))
    /\ Changes(RemoveFailedUpdates.down, {}, {}, {}, FailedUpdates)
BY DEF Changes, Migration, NoChange, Adds, FreeContainerUuid, DropDatasetSource,
       RemoveFailedUpdates

LEMMA ColumnsDroppedTwice ==
    ASSUME NEW f, NEW t, NEW cs, NEW u, NEW ds
    PROVE  (\E tc \in ColumnsOf(t, cs) \cup ColumnsOf(u, ds) : Uses(f, tc[1], tc[2]))
                <=> (\E c \in cs : Uses(f, t, c)) \/ (\E d \in ds : Uses(f, u, d))
<1> DEFINE A == ColumnsOf(t, cs)
           B == ColumnsOf(u, ds)
<1>1. /\ (\E tc \in A : Uses(f, tc[1], tc[2])) <=> (\E c \in cs : Uses(f, t, c))
      /\ (\E tc \in B : Uses(f, tc[1], tc[2])) <=> (\E d \in ds : Uses(f, u, d))
    BY ColumnsDropped
<1> HIDE DEF A, B
<1>2. (\E tc \in A \cup B : Uses(f, tc[1], tc[2])) <=>
        (\E tc \in A : Uses(f, tc[1], tc[2])) \/ (\E tc \in B : Uses(f, tc[1], tc[2]))
    OBVIOUS
<1> QED BY <1>1, <1>2 DEF A, B

\* What a downgrade that gives no constraint to drop by name drops.
LEMMA DropsWith ==
    ASSUME NEW m, NEW ts, NEW cols, NEW new, Changes(m, ts, cols, {}, new), NEW f
    PROVE  Drops(m, f) <=> f[2] \in ts \/ \E tc \in cols : Uses(f, tc[1], tc[2])
BY DEF Changes, Drops

LEMMA DownDrops ==
    ASSUME NEW f
    PROVE  /\ Drops(Chain[3].down, f) <=>
                \E c \in {"authors", "tags", "test_functions"} : Uses(f, "entrypoints", c)
           /\ Drops(Chain[5].down, f) <=> \E c \in {"contributors"} : Uses(f, "repository_metadata", c)
           /\ Drops(Chain[6].down, f) <=>
                \/ \E c \in {"authors", "title"} : Uses(f, "paper_metadata", c)
                \/ \E c \in {"title"} : Uses(f, "dataset_metadata", c)
           /\ Drops(Chain[8].down, f) <=> \E c \in {"entrypoint_aliases"} : Uses(f, "gardens", c)
           /\ ~Drops(Chain[9].down, f)
           /\ Drops(Chain[12].down, f) <=> \E c \in EntrypointLists : Uses(f, "entrypoints", c)
           /\ Drops(Chain[13].down, f) <=>
                f[2] = "users_saved_gardens" \/ \E c \in UserFields : Uses(f, "users", c)
           /\ Drops(Chain[17].down, f) <=>
                \/ \E c \in {"is_archived"} : Uses(f, "gardens", c)
                \/ \E c \in {"is_archived"} : Uses(f, "entrypoints", c)
           /\ ~Drops(Chain[18].down, f)
           /\ ~Drops(Chain[23].down, f)
           /\ Drops(Chain[24].down, f) <=>
                \/ \E c \in {"function_call_id"} : Uses(f, "modal_invocations", c)
                \/ \E c \in {"hardware_spec"} : Uses(f, "modal_functions", c)
<1>1. /\ Drops(Chain[3].down, f) <=>
            \E c \in {"authors", "tags", "test_functions"} : Uses(f, "entrypoints", c)
      /\ Drops(Chain[5].down, f) <=> \E c \in {"contributors"} : Uses(f, "repository_metadata", c)
      /\ Drops(Chain[8].down, f) <=> \E c \in {"entrypoint_aliases"} : Uses(f, "gardens", c)
    BY ChainIs, DowngradeColumns, DropsWith, ColumnsDropped
<1>2. /\ Drops(Chain[6].down, f) <=>
            \/ \E c \in {"authors", "title"} : Uses(f, "paper_metadata", c)
            \/ \E c \in {"title"} : Uses(f, "dataset_metadata", c)
      /\ Drops(Chain[17].down, f) <=>
            \/ \E c \in {"is_archived"} : Uses(f, "gardens", c)
            \/ \E c \in {"is_archived"} : Uses(f, "entrypoints", c)
      /\ Drops(Chain[24].down, f) <=>
            \/ \E c \in {"function_call_id"} : Uses(f, "modal_invocations", c)
            \/ \E c \in {"hardware_spec"} : Uses(f, "modal_functions", c)
    BY ChainIs, MetadataDowngrade, ArchivedDowngrade, HardwareDowngrade, DropsWith,
       ColumnsDroppedTwice
<1>3. /\ Drops(Chain[12].down, f) <=> \E c \in EntrypointLists : Uses(f, "entrypoints", c)
      /\ Drops(Chain[13].down, f) <=>
            f[2] = "users_saved_gardens" \/ \E c \in UserFields : Uses(f, "users", c)
    <2>1. /\ Drops(SimplifyEntrypointSchema.down, f) <=>
                \E tc \in ColumnsOf("entrypoints", EntrypointLists) : Uses(f, tc[1], tc[2])
          /\ Drops(AddUserFields.down, f) <=>
                \/ f[2] \in {"users_saved_gardens"}
                \/ \E tc \in ColumnsOf("users", UserFields) : Uses(f, tc[1], tc[2])
        BY SchemaDowngrade, UserFieldsDowngrade DEF Changes, Drops
    <2>2. /\ (\E tc \in ColumnsOf("entrypoints", EntrypointLists) : Uses(f, tc[1], tc[2]))
                <=> \E c \in EntrypointLists : Uses(f, "entrypoints", c)
          /\ (\E tc \in ColumnsOf("users", UserFields) : Uses(f, tc[1], tc[2]))
                <=> \E c \in UserFields : Uses(f, "users", c)
        BY ColumnsDropped
    <2>3. Chain[12] = SimplifyEntrypointSchema /\ Chain[13] = AddUserFields
        BY ChainIs
    <2> QED BY <2>1, <2>2, <2>3
<1>4. ~Drops(Chain[9].down, f) /\ ~Drops(Chain[18].down, f) /\ ~Drops(Chain[23].down, f)
    BY ChainIs, AddingDowngrades, DropsWith
<1> QED BY <1>1, <1>2, <1>3, <1>4

-----------------------------------------------------------------------------
(* Every downgrade undoes its upgrade *)

LEMMA AddedStays ==
    ASSUME NEW j \in 1..24, NEW n \in j..24, NEW f \in Chain[j].up.add,
           \A k \in (j + 1)..n : ~Drops(Chain[k].up, f)
    PROVE  f \in SchemaAt[n]
<1>1. SchemaAt[j] = Applied(SchemaAt[j - 1], Chain[j].up)
    BY SchemaStep
<1>2. f \in SchemaAt[j]
    BY <1>1, AppliedIs
<1> QED BY <1>2, Stays

\* Columns go with what was added for them.
LEMMA NewColumns ==
    ASSUME NEW t, NEW cs, NEW f \in Required(t, cs) \cup Columns(t, cs)
    PROVE  \E c \in cs : Uses(f, t, c)
BY DEF Required, Columns, Uses

LEMMA ColumnsBack ==
    /\ Undoes(Chain[5].down, Chain[5].up, SchemaAt[4])
    /\ Undoes(Chain[8].down, Chain[8].up, SchemaAt[7])
    /\ Undoes(Chain[17].down, Chain[17].up, SchemaAt[16])
    /\ Undoes(Chain[24].down, Chain[24].up, SchemaAt[23])
<1>1. Undoes(Chain[5].down, Chain[5].up, SchemaAt[4])
    <2>1. ASSUME NEW f \in Chain[5].up.add PROVE Drops(Chain[5].down, f)
        <3>1. f \in Required("repository_metadata", {"contributors"})
            BY ChainIs DEF AddRepositoryContributors, Migration, Adds, NoChange
        <3> QED BY <3>1, NewColumns, DownDrops
    <2>2. ASSUME NEW f \in SchemaAt[4] PROVE ~Drops(Chain[5].up, f) /\ ~Drops(Chain[5].down, f)
        <3>1. ~Drops(Chain[5].up, f)
            BY UpDrops DEF AddsOnly
        <3>2. PICK j \in 1..4 : f \in Chain[j].up.add /\ f[2] \in TablesAdded[j]
            BY AddedBy
        <3>3. ~Uses(f, "repository_metadata", "contributors")
            <4>1. CASE j = 2
                BY <3>2, <4>1, Unused
            <4>2. CASE j # 2
                <5>1. f[2] # "repository_metadata"
                    BY <3>2, <4>2, Adders
                <5> QED BY <5>1 DEF Uses
            <4> QED BY <4>1, <4>2
        <3> QED BY <3>1, <3>3, DownDrops
    <2>3. Chain[5].down.add = {}
        BY ChainIs, DowngradeColumns DEF Changes
    <2> QED BY <2>1, <2>2, <2>3 DEF Undoes
<1>2. Undoes(Chain[8].down, Chain[8].up, SchemaAt[7])
    <2>1. ASSUME NEW f \in Chain[8].up.add PROVE Drops(Chain[8].down, f)
        <3>1. f \in Required("gardens", {"entrypoint_aliases"})
            BY ChainIs DEF AddEntrypointAliases, Migration, Adds, NoChange
        <3> QED BY <3>1, NewColumns, DownDrops
    <2>2. ASSUME NEW f \in SchemaAt[7] PROVE ~Drops(Chain[8].up, f) /\ ~Drops(Chain[8].down, f)
        <3>1. ~Drops(Chain[8].up, f)
            BY UpDrops DEF AddsOnly
        <3>2. PICK j \in 1..7 : f \in Chain[j].up.add /\ f[2] \in TablesAdded[j]
            BY AddedBy
        <3>3. ~Uses(f, "gardens", "entrypoint_aliases")
            <4>1. CASE j = 7
                BY <3>2, <4>1, Unused
            <4>2. CASE j # 7
                <5>1. f[2] # "gardens"
                    BY <3>2, <4>2, Adders
                <5> QED BY <5>1 DEF Uses
            <4> QED BY <4>1, <4>2
        <3> QED BY <3>1, <3>3, DownDrops
    <2>3. Chain[8].down.add = {}
        BY ChainIs, DowngradeColumns DEF Changes
    <2> QED BY <2>1, <2>2, <2>3 DEF Undoes
<1>3. Undoes(Chain[17].down, Chain[17].up, SchemaAt[16])
    <2>1. ASSUME NEW f \in Chain[17].up.add PROVE Drops(Chain[17].down, f)
        <3>1. f \in Required("entrypoints", {"is_archived"}) \cup Required("gardens", {"is_archived"})
            BY ChainIs, AddIsArchivedUpgrade DEF Changes
        <3> QED BY <3>1, NewColumns, DownDrops
    <2>2. ASSUME NEW f \in SchemaAt[16] PROVE ~Drops(Chain[17].up, f) /\ ~Drops(Chain[17].down, f)
        <3>1. ~Drops(Chain[17].up, f)
            BY UpDrops DEF AddsOnly
        <3>2. PICK j \in 1..16 : f \in Chain[j].up.add /\ f[2] \in TablesAdded[j]
            BY AddedBy
        <3>3. ~Uses(f, "gardens", "is_archived")
            <4>1. CASE j \in {7, 8, 11}
                BY <3>2, <4>1, Unused
            <4>2. CASE j \notin {7, 8, 11}
                <5>1. f[2] # "gardens"
                    BY <3>2, <4>2, Adders
                <5> QED BY <5>1 DEF Uses
            <4> QED BY <4>1, <4>2
        <3>4. ~Uses(f, "entrypoints", "is_archived")
            <4>1. CASE j \in {2, 3, 11, 12}
                BY <3>2, <4>1, Unused
            <4>2. CASE j \notin {2, 3, 11, 12}
                <5>1. f[2] # "entrypoints"
                    BY <3>2, <4>2, Adders
                <5> QED BY <5>1 DEF Uses
            <4> QED BY <4>1, <4>2
        <3> QED BY <3>1, <3>3, <3>4, DownDrops
    <2>3. Chain[17].down.add = {}
        BY ChainIs, ArchivedDowngrade DEF Changes
    <2> QED BY <2>1, <2>2, <2>3 DEF Undoes
<1>4. Undoes(Chain[24].down, Chain[24].up, SchemaAt[23])
    <2>1. ASSUME NEW f \in Chain[24].up.add PROVE Drops(Chain[24].down, f)
        <3>1. f \in Columns("modal_functions", {"hardware_spec"})
                        \cup Columns("modal_invocations", {"function_call_id"})
            BY ChainIs DEF AddHardwareSpec, Migration, Adds, NoChange
        <3> QED BY <3>1, NewColumns, DownDrops
    <2>2. ASSUME NEW f \in SchemaAt[23] PROVE ~Drops(Chain[24].up, f) /\ ~Drops(Chain[24].down, f)
        <3>1. ~Drops(Chain[24].up, f)
            BY UpDrops DEF AddsOnly
        <3>2. PICK j \in 1..23 : f \in Chain[j].up.add /\ f[2] \in TablesAdded[j]
            BY AddedBy
        <3>3. ~Uses(f, "modal_functions", "hardware_spec")
            <4>1. CASE j \in {19, 21}
                BY <3>2, <4>1, Unused
            <4>2. CASE j \notin {19, 21}
                <5>1. f[2] # "modal_functions"
                    BY <3>2, <4>2, Adders
                <5> QED BY <5>1 DEF Uses
            <4> QED BY <4>1, <4>2
        <3>4. ~Uses(f, "modal_invocations", "function_call_id")
            <4>1. CASE j = 22
                BY <3>2, <4>1, Unused
            <4>2. CASE j # 22
                <5>1. f[2] # "modal_invocations"
                    BY <3>2, <4>2, Adders
                <5> QED BY <5>1 DEF Uses
            <4> QED BY <4>1, <4>2
        <3> QED BY <3>1, <3>3, <3>4, DownDrops
    <2>3. Chain[24].down.add = {}
        BY ChainIs, HardwareDowngrade DEF Changes
    <2> QED BY <2>1, <2>2, <2>3 DEF Undoes
<1> QED BY <1>1, <1>2, <1>3, <1>4

LEMMA SimplifyEntrypointTableUndone == Undoes(Chain[3].down, Chain[3].up, SchemaAt[2])
<1> DEFINE Old == UNION {TagsTable, UsersTable, TestFunctionsTable, AuthorsTable}
<1>1. Chain[3].down.add = Old
    BY ChainIs, DowngradeColumns DEF Changes
<1>2. ASSUME NEW f \in Chain[3].up.add PROVE Drops(Chain[3].down, f)
    <2>1. f \in Required("entrypoints", {"authors", "tags", "test_functions"})
        BY ChainIs, SimplifyEntrypointTableUpgrade DEF Changes
    <2> QED BY <2>1, NewColumns, DownDrops
<1>3. /\ \A f \in UsersTable : f \in Chain[1].up.add
      /\ \A f \in Chain[1].up.add : f \in UsersTable
    BY ChainIs, Adding DEF CreateUsers, Changes
<1>4. /\ \A f \in TagsTable \cup TestFunctionsTable \cup AuthorsTable : f \in Chain[2].up.add
      /\ \A f \in Chain[2].up.add : f[2] \in {"authors", "test_functions", "tags"} => f \in Old
    <2>1. \A f \in TagsTable \cup TestFunctionsTable \cup AuthorsTable :
            f \in CreateEntrypoints.up.add
        BY DEF CreateEntrypoints, Creates, Migration, Adds, NoChange
    <2>2. \A f \in CreateEntrypoints.up.add :
            f[2] \in {"authors", "test_functions", "tags"} => f \in Old
        BY FactsOf DEF CreateEntrypoints, Creates, Migration, Adds, NoChange, ModelMetadata
    <2> QED BY <2>1, <2>2, ChainIs
<1>5. ASSUME NEW f \in SchemaAt[2], Drops(Chain[3].up, f) \/ Drops(Chain[3].down, f)
      PROVE  f \in Old
    <2>1. PICK j \in 1..2 : f \in Chain[j].up.add /\ f[2] \in TablesAdded[j]
        BY AddedBy
    <2>2. CASE j = 1
        BY <2>1, <2>2, <1>3
    <2>3. CASE j = 2
        <3>1. ~Drops(Chain[3].down, f)
            BY <2>1, <2>3, Unused, DownDrops
        <3>2. f[2] \in {"authors", "test_functions", "users", "tags"}
            BY <3>1, <1>5, UpDrops
        <3>3. f[2] # "users"
            BY <2>1, <2>3, Adders
        <3> QED BY <2>1, <2>3, <3>2, <3>3, <1>4
    <2> QED BY <2>1, <2>2, <2>3
<1>6. ASSUME NEW f \in Old PROVE f \in SchemaAt[2]
    <2>1. f \in Chain[1].up.add \/ f \in Chain[2].up.add
        BY <1>3, <1>4
    <2>2. PICK k \in 1..24 : k \in {1, 2} /\ f \in Chain[k].up.add
        BY <2>1
    <2>3. 2 \in k..24 /\ \A i \in (k + 1)..2 : i = 2
        BY <2>2
    <2>4. ~Drops(Chain[2].up, f)
        BY UpDrops DEF AddsOnly
    <2> QED BY <2>2, <2>3, <2>4, AddedStays
<1> HIDE DEF Old
<1> QED BY <1>1, <1>2, <1>5, <1>6 DEF Undoes

LEMMA AddMetadataFieldsUndone == Undoes(Chain[6].down, Chain[6].up, SchemaAt[5])
<1> DEFINE doi == <<"unique", "dataset_metadata", "doi">>
<1>1. Chain[6].down.add = {doi}
    BY ChainIs, MetadataDowngrade DEF Changes, Unique
<1>2. ASSUME NEW f \in Chain[6].up.add PROVE Drops(Chain[6].down, f)
    <2>1. f \in Required("dataset_metadata", {"title"})
                \cup Required("paper_metadata", {"title", "authors"})
        BY ChainIs, AddMetadataFieldsUpgrade DEF Changes
    <2> QED BY <2>1, NewColumns, DownDrops
<1>3. ASSUME NEW f \in SchemaAt[5] PROVE ~Drops(Chain[6].down, f)
    <2>1. PICK j \in 1..5 : f \in Chain[j].up.add /\ f[2] \in TablesAdded[j]
        BY AddedBy
    <2>2. /\ \A c \in {"authors", "title"} : ~Uses(f, "paper_metadata", c)
          /\ ~Uses(f, "dataset_metadata", "title")
        <3>1. CASE j = 2
            BY <2>1, <3>1, Unused
        <3>2. CASE j # 2
            <4>1. f[2] # "paper_metadata" /\ f[2] # "dataset_metadata"
                BY <2>1, <3>2, Adders
            <4> QED BY <4>1 DEF Uses
        <3> QED BY <3>1, <3>2
    <2> QED BY <2>2, DownDrops
<1>4. doi \in SchemaAt[5]
    <2>1. doi \in CreateEntrypoints.up.add
        BY DEF CreateEntrypoints, Creates, Migration, Adds, NoChange, Unique
    <2>2. doi \in Chain[2].up.add
        BY <2>1, ChainIs
    <2>3. doi[2] \notin {"authors", "test_functions", "users", "tags"}
        OBVIOUS
    <2> HIDE DEF doi
    <2>4. ~Drops(Chain[3].up, doi) /\ ~Drops(Chain[4].up, doi) /\ ~Drops(Chain[5].up, doi)
        BY <2>3, UpDrops DEF AddsOnly
    <2>5. \A k \in (2 + 1)..5 : ~Drops(Chain[k].up, doi)
        BY <2>4
    <2> QED BY <2>2, <2>5, AddedStays
<1>5. \A f : Drops(Chain[6].up, f) => f = doi
    BY UpDrops
<1> HIDE DEF doi
<1> QED BY <1>1, <1>2, <1>3, <1>4, <1>5 DEF Undoes

LEMMA FreeContainerUuidUndone == Undoes(Chain[9].down, Chain[9].up, SchemaAt[8])
<1> DEFINE key == <<"unique", "entrypoints", "container_uuid">>
<1>1. Chain[9].down.add = {key} /\ Chain[9].up.add = {}
    BY ChainIs, AddingDowngrades, FreeContainerUuidUpgrade DEF Changes, Unique
<1>2. \A f : ~Drops(Chain[9].down, f)
    BY DownDrops
<1>3. \A f : Drops(Chain[9].up, f) => f = key
    BY UpDrops
<1>4. key \in SchemaAt[8]
    <2>1. key \in CreateEntrypoints.up.add
        BY DEF CreateEntrypoints, Creates, Migration, Adds, NoChange, Unique
    <2>2. key \in Chain[2].up.add
        BY <2>1, ChainIs
    <2>3. /\ key[2] \notin {"authors", "test_functions", "users", "tags"}
          /\ key # <<"unique", "dataset_metadata", "doi">>
        OBVIOUS
    <2> HIDE DEF key
    <2>4. \A k \in (2 + 1)..8 : ~Drops(Chain[k].up, key)
        <3>1. ~Drops(Chain[3].up, key) /\ ~Drops(Chain[6].up, key)
            BY <2>3, UpDrops
        <3>2. \A k \in {4, 5, 7, 8} : ~Drops(Chain[k].up, key)
            BY UpDrops DEF AddsOnly
        <3> QED BY <3>1, <3>2
    <2> QED BY <2>2, <2>4, AddedStays
<1> HIDE DEF key
<1> QED BY <1>1, <1>2, <1>3, <1>4 DEF Undoes

LEMMA SimplifyEntrypointSchemaUndone == Undoes(Chain[12].down, Chain[12].up, SchemaAt[11])
<1> DEFINE Metadata ==
                {"model_metadata", "dataset_metadata", "paper_metadata", "repository_metadata"}
           doi == <<"unique", "dataset_metadata", "doi">>
           Contributors == Required("repository_metadata", {"contributors"})
           Titles == Required("dataset_metadata", {"title"})
                        \cup Required("paper_metadata", {"title", "authors"})
           Old == UNION {
                OfEntrypoint("repository_metadata",
                    {"repo_name", "url", "entrypoint_id", "contributors"}, {}),
                OfEntrypoint("paper_metadata",
                    {"doi", "entrypoint_id", "title", "authors"}, {"citation"}),
                OfEntrypoint("dataset_metadata",
                    {"doi", "url", "repository", "entrypoint_id", "title"}, {"data_type"}),
                ModelMetadata}
<1>1. Chain[12].down.add = Old
    BY ChainIs, SchemaDowngrade DEF Changes
<1>2. ASSUME NEW f \in Chain[12].up.add PROVE Drops(Chain[12].down, f)
    <2>1. f \in Columns("entrypoints", EntrypointLists)
        BY ChainIs, SimplifyEntrypointSchemaUpgrade DEF Changes
    <2> QED BY <2>1, NewColumns, DownDrops
<1>3. \A f \in CreateEntrypoints.up.add : f[2] \in Metadata => f = doi \/ f \in Old
    <2> USE DEF OfEntrypoint, Table, Required, Columns, References, Unique
    <2> QED BY DEF CreateEntrypoints, Creates, Migration, Adds, NoChange, AuthorsTable,
                   TagsTable, TestFunctionsTable, ModelMetadata
<1>4. Contributors \subseteq Old /\ Titles \subseteq Old
    BY DEF OfEntrypoint, Table, Required, Columns
<1>5. \A f \in Old : f \in CreateEntrypoints.up.add \/ f \in Contributors \/ f \in Titles
    <2> USE DEF OfEntrypoint, Table, Required, Columns, References, Unique
    <2> QED BY DEF CreateEntrypoints, Creates, Migration, Adds, NoChange, ModelMetadata
<1>6. \A f \in Old : f[2] \in Metadata /\ f # doi
    <2>1. \A f \in Old : f[1] # "unique"
        BY DEF OfEntrypoint, Table, Required, Columns, References, ModelMetadata
    <2>2. \A f \in Old : f[2] \in Metadata
        BY FactsOf DEF ModelMetadata
    <2> QED BY <2>1, <2>2
<1>7. Chain[2].up.add = CreateEntrypoints.up.add /\ Chain[5].up.add = Contributors
        /\ Chain[6].up.add = Titles
    <2>1. AddRepositoryContributors.up.add = Contributors
        BY DEF AddRepositoryContributors, Migration, Adds, NoChange
    <2>2. AddMetadataFields.up.add = Titles
        BY AddMetadataFieldsUpgrade DEF Changes
    <2> QED BY <2>1, <2>2, ChainIs
<1>8. doi[2] = "dataset_metadata"
    OBVIOUS
<1>9. \A f : Drops(Chain[6].up, f) <=> f = doi
    BY UpDrops
<1> HIDE DEF Old, Contributors, Titles, doi
<1>10. doi \notin SchemaAt[11]
    <2>1. SchemaAt[6] = Applied(SchemaAt[5], Chain[6].up)
        BY SchemaStep
    <2>2. doi \notin Chain[6].up.add
        BY <1>4, <1>6, <1>7
    <2>3. doi \notin SchemaAt[6]
        BY <2>1, <2>2, <1>9, AppliedIs
    <2>4. SUFFICES ASSUME doi \in SchemaAt[11] PROVE FALSE
        OBVIOUS
    <2>5. PICK k \in (6 + 1)..11 : doi \in Chain[k].up.add
        BY <2>3, <2>4, Origin
    <2> QED BY <2>5, <1>8, AddedTo, Adders
<1>11. ASSUME NEW f \in SchemaAt[11], Drops(Chain[12].up, f) \/ Drops(Chain[12].down, f)
       PROVE  f \in Old
    <2>1. PICK j \in 1..11 : f \in Chain[j].up.add /\ f[2] \in TablesAdded[j]
        BY AddedBy
    <2>2. \A c \in EntrypointLists : ~Uses(f, "entrypoints", c)
        <3>1. CASE j \in {2, 3, 11}
            BY <2>1, <3>1, Unused
        <3>2. CASE j \notin {2, 3, 11}
            <4>1. f[2] # "entrypoints"
                BY <2>1, <3>2, Adders
            <4> QED BY <4>1 DEF Uses
        <3> QED BY <3>1, <3>2
    <2>3. f[2] \in Metadata
        BY <2>2, <1>11, DownDrops, UpDrops
    <2>4. j \in {2, 5, 6}
        BY <2>1, <2>3, Adders
    <2> QED BY <2>1, <2>3, <2>4, <1>3, <1>4, <1>7, <1>10
<1>12. ASSUME NEW f \in Old PROVE f \in SchemaAt[11]
    <2>1. PICK j \in {2, 5, 6} : f \in Chain[j].up.add
        BY <1>5, <1>7
    <2>2. \A k \in 3..11 : ~Drops(Chain[k].up, f)
        <3>1. f[2] \in Metadata /\ f # doi
            BY <1>6
        <3>2. f # <<"unique", "entrypoints", "container_uuid">>
            BY <3>1
        <3>3. ~Drops(Chain[3].up, f) /\ ~Drops(Chain[6].up, f) /\ ~Drops(Chain[9].up, f)
                /\ ~Drops(Chain[10].up, f)
            BY <3>1, <3>2, <1>9, UpDrops
        <3>4. \A k \in {4, 5, 7, 8, 11} : ~Drops(Chain[k].up, f)
            BY UpDrops DEF AddsOnly
        <3> QED BY <3>3, <3>4
    <2>3. j \in 1..24 /\ 11 \in j..24 /\ \A k \in (j + 1)..11 : k \in 3..11
        BY <2>1
    <2> QED BY <2>1, <2>2, <2>3, AddedStays
<1> QED BY <1>1, <1>2, <1>11, <1>12 DEF Undoes

LEMMA AddUserFieldsUndone == Undoes(Chain[13].down, Chain[13].up, SchemaAt[12])
<1> DEFINE name == <<"notnull", "users", "username">>
<1>1. Chain[13].down.add = {name}
    BY ChainIs, UserFieldsDowngrade DEF Changes, NotNull
<1>2. ASSUME NEW f \in Chain[13].up.add PROVE Drops(Chain[13].down, f)
    <2>1. f[2] = "users_saved_gardens" \/ f \in Columns("users", UserFields)
        BY ChainIs, AddUserFieldsUpgrade, FactsOf DEF Changes
    <2> QED BY <2>1, NewColumns, DownDrops
<1>3. ASSUME NEW f \in SchemaAt[12] PROVE ~Drops(Chain[13].down, f)
    <2>1. PICK j \in 1..12 : f \in Chain[j].up.add /\ f[2] \in TablesAdded[j]
        BY AddedBy
    <2>2. f[2] # "users_saved_gardens"
        BY <2>1, Adders
    <2>3. \A c \in UserFields : ~Uses(f, "users", c)
        <3>1. CASE j \in {1, 4}
            BY <2>1, <3>1, Unused
        <3>2. CASE j \notin {1, 4}
            <4>1. f[2] # "users"
                BY <2>1, <3>2, Adders
            <4> QED BY <4>1 DEF Uses
        <3> QED BY <3>1, <3>2
    <2> QED BY <2>2, <2>3, DownDrops
<1>4. name \in SchemaAt[12]
    <2>1. name \in BringBackUsers.up.add
        BY DEF BringBackUsers, Creates, Migration, Adds, NoChange, UsersTable, Table, Required
    <2>2. name \in Chain[4].up.add
        BY <2>1, ChainIs
    <2>3. /\ name[2] = "users"
          /\ name # <<"unique", "dataset_metadata", "doi">>
          /\ name # <<"unique", "entrypoints", "container_uuid">>
        OBVIOUS
    <2> HIDE DEF name
    <2>4. \A k \in (4 + 1)..12 : ~Drops(Chain[k].up, name)
        <3>1. ~Drops(Chain[6].up, name) /\ ~Drops(Chain[9].up, name)
                /\ ~Drops(Chain[10].up, name) /\ ~Drops(Chain[12].up, name)
            BY <2>3, UpDrops
        <3>2. \A k \in {5, 7, 8, 11} : ~Drops(Chain[k].up, name)
            BY UpDrops DEF AddsOnly
        <3> QED BY <3>1, <3>2
    <2> QED BY <2>2, <2>4, AddedStays
<1>5. \A f : Drops(Chain[13].up, f) => f = name
    BY UpDrops
<1> HIDE DEF name
<1> QED BY <1>1, <1>2, <1>3, <1>4, <1>5 DEF Undoes

LEMMA DropDatasetSourceUndone == Undoes(Chain[18].down, Chain[18].up, SchemaAt[17])
<1> DEFINE Old == Required("mdf_datasets", SourceColumns)
                    \cup Unique("mdf_datasets", {"flow_action_id"})
<1>1. Chain[18].down.add = Old /\ Chain[18].up.add = {}
    BY ChainIs, AddingDowngrades, DropDatasetSourceUpgrade DEF Changes
<1>2. \A f : ~Drops(Chain[18].down, f)
    BY DownDrops
<1>3. /\ \A f \in Chain[14].up.add :
            (\E c \in SourceColumns : Uses(f, "mdf_datasets", c)) => f \in Old
      /\ Old \subseteq Chain[14].up.add
    <2> USE DEF CreateMdfDatasets, Creates, Migration, Adds, NoChange, Table, Required, Columns,
                References, Unique, SourceColumns
    <2>1. \A f \in CreateMdfDatasets.up.add :
            (\E c \in SourceColumns : Uses(f, "mdf_datasets", c)) => f \in Old
        BY DEF Uses
    <2>2. Old \subseteq CreateMdfDatasets.up.add
        OBVIOUS
    <2>3. Chain[14] = CreateMdfDatasets
        BY ChainIs
    <2> QED BY <2>1, <2>2, <2>3, Zenon
<1> HIDE DEF Old
<1>4. ASSUME NEW f \in SchemaAt[17], Drops(Chain[18].up, f) PROVE f \in Old
    <2>1. \E c \in SourceColumns : Uses(f, "mdf_datasets", c)
        BY <1>4, UpDrops
    <2>2. f[2] = "mdf_datasets"
        BY <2>1 DEF Uses
    <2>3. PICK j \in 1..17 : f \in Chain[j].up.add /\ f[2] \in TablesAdded[j]
        BY AddedBy
    <2>4. j = 14
        BY <2>2, <2>3, Adders
    <2> QED BY <2>1, <2>3, <2>4, <1>3
<1>5. ASSUME NEW f \in Old PROVE f \in SchemaAt[17]
    <2>1. f \in Chain[14].up.add
        BY <1>3
    <2>2. \A k \in (14 + 1)..17 : ~Drops(Chain[k].up, f)
        BY UpDrops DEF AddsOnly
    <2> QED BY <2>1, <2>2, AddedStays
<1> QED BY <1>1, <1>2, <1>4, <1>5 DEF Undoes

LEMMA RemoveFailedUpdatesUndone == Undoes(Chain[23].down, Chain[23].up, SchemaAt[22])
<1>1. Chain[23].down.add = FailedUpdates /\ Chain[23].up.add = {}
    BY ChainIs, AddingDowngrades, RemoveFailedUpdatesUpgrade DEF Changes
<1>2. \A f : ~Drops(Chain[23].down, f)
    BY DownDrops
<1>3. Chain[16].up.add = FailedUpdates
    BY ChainIs, Adding DEF CreateFailedUpdates, Changes
<1>4. ASSUME NEW f \in SchemaAt[22], Drops(Chain[23].up, f) PROVE f \in FailedUpdates
    <2>1. f[2] = "failed_search_index_updates"
        BY <1>4, UpDrops
    <2>2. PICK j \in 1..22 : f \in Chain[j].up.add /\ f[2] \in TablesAdded[j]
        BY AddedBy
    <2>3. j = 16
        BY <2>1, <2>2, Adders
    <2> QED BY <2>2, <2>3, <1>3
<1>5. ASSUME NEW f \in FailedUpdates PROVE f \in SchemaAt[22]
    <2>1. f[2] = "failed_search_index_updates"
        BY FactsOf DEF FailedUpdates
    <2>2. /\ f # <<"notnull", "modal_functions", "doi">>
          /\ \A c : ~Uses(f, "mdf_datasets", c)
          /\ \A c : ~Uses(f, "modal_apps", c)
          /\ \A c : ~Uses(f, "modal_functions", c)
        BY <2>1 DEF Uses
    <2>3. ~Drops(Chain[18].up, f) /\ ~Drops(Chain[21].up, f)
        BY <2>1, <2>2, UpDrops
    <2>4. \A k \in {17, 19, 20, 22} : ~Drops(Chain[k].up, f)
        <3>1. \A k \in {17, 19, 20, 22} : k \in AddsOnly
            BY DEF AddsOnly
        <3> QED BY <3>1, UpDrops
    <2>5. \A k \in (16 + 1)..22 : ~Drops(Chain[k].up, f)
        BY <2>3, <2>4
    <2> QED BY <2>5, <1>3, AddedStays
<1> QED BY <1>1, <1>2, <1>4, <1>5 DEF Undoes

\* Every downgrade that Alembic can run takes the schema of its revision back
\* to that of the revision before.
LEMMA DowngradesUndo ==
    ASSUME NEW k \in (1..24) \ Nameless
    PROVE  Applied(SchemaAt[k], Chain[k].down) = SchemaAt[k - 1]
<1>1. Undoes(Chain[k].down, Chain[k].up, SchemaAt[k - 1])
    <2>1. CASE k \in Creating
        BY <2>1, CreatesUndone, NewTables
    <2>2. CASE k \in {3, 5, 6, 8}
        BY <2>2, SimplifyEntrypointTableUndone, ColumnsBack, AddMetadataFieldsUndone
    <2>3. CASE k \in {9, 12, 13}
        BY <2>3, FreeContainerUuidUndone, SimplifyEntrypointSchemaUndone, AddUserFieldsUndone
    <2>4. CASE k \in {17, 18, 23, 24}
        BY <2>4, ColumnsBack, DropDatasetSourceUndone, RemoveFailedUpdatesUndone
    <2> QED BY <2>1, <2>2, <2>3, <2>4 DEF Creating, Nameless, RevisedModal
<1>2. SchemaAt[k] = Applied(SchemaAt[k - 1], Chain[k].up)
    BY SchemaStep
<1> QED BY <1>1, <1>2, Undone

-----------------------------------------------------------------------------
(* What a migration does beside the schema *)

\* A migration that names what it drops, and drops no table as a mere fact.
Named(m, inserts) ==
    m.inserts = inserts /\ m.unnamed = FALSE /\ \A f \in m.drop : f[1] # "table"

LEMMA UpgradesNamed ==
    \A k \in 1..24 : Named(Chain[k].up, IF k = 11 THEN {"users"} ELSE {})
<1> USE DEF Named, Creates, Migration, Adds, NoChange
<1>1. /\ Named(CreateUsers.up, {}) /\ Named(CreateEntrypoints.up, {})
      /\ Named(BringBackUsers.up, {}) /\ Named(CreateGardens.up, {})
      /\ Named(CreateMdfDatasets.up, {}) /\ Named(LinkDatasets.up, {})
      /\ Named(CreateFailedUpdates.up, {}) /\ Named(CreateModal.up, {})
      /\ Named(LinkModalFunctions.up, {}) /\ Named(CreateInvocations.up, {})
    <2>1. \A facts : Named(Creates(facts).up, {})
        OBVIOUS
    <2> HIDE DEF Named, Creates
    <2> QED BY <2>1 DEF CreateUsers, CreateEntrypoints, BringBackUsers, CreateGardens,
                        CreateMdfDatasets, LinkDatasets, CreateFailedUpdates, CreateModal,
                        LinkModalFunctions, CreateInvocations
<1>2. Named(SimplifyEntrypointTable.up, {})
    BY DEF SimplifyEntrypointTable
<1>3. Named(AddRepositoryContributors.up, {}) /\ Named(AddEntrypointAliases.up, {})
      /\ Named(AddHardwareSpec.up, {})
    BY DEF AddRepositoryContributors, AddEntrypointAliases, AddHardwareSpec
<1>4. Named(AddMetadataFields.up, {})
    <2>1. AddMetadataFields.up.inserts = {} /\ AddMetadataFields.up.unnamed = FALSE
        BY DEF AddMetadataFields
    <2>2. \A f \in AddMetadataFields.up.drop : f[1] # "table"
        BY AddMetadataFieldsUpgrade DEF Changes, Unique
    <2> QED BY <2>1, <2>2
<1>5. Named(FreeContainerUuid.up, {})
    BY DEF FreeContainerUuid, Unique
<1>6. Named(UseIds.up, {})
    BY DEF UseIds, DropsColumns
<1>7. Named(AddOwner.up, {"users"})
    BY DEF AddOwner
<1>8. Named(SimplifyEntrypointSchema.up, {})
    BY DEF SimplifyEntrypointSchema
<1>9. Named(AddUserFields.up, {})
    <2>1. AddUserFields.up.inserts = {} /\ AddUserFields.up.unnamed = FALSE
        BY DEF AddUserFields
    <2>2. \A f \in AddUserFields.up.drop : f[1] # "table"
        BY AddUserFieldsUpgrade DEF Changes, NotNull
    <2> QED BY <2>1, <2>2
<1>10. Named(AddIsArchived.up, {})
    BY DEF AddIsArchived
<1>11. Named(DropDatasetSource.up, {})
    BY DEF DropDatasetSource, DropsColumns
<1>12. Named(ReviseModal.up, {})
    <2>1. ReviseModal.up.inserts = {} /\ ReviseModal.up.unnamed = FALSE
        BY DEF ReviseModal, ReviseModalUp
    <2>2. \A f \in ReviseModal.up.drop : f[1] # "table"
        BY ReviseModalUpgrade DEF Changes, NotNull
    <2> QED BY <2>1, <2>2
<1>13. Named(RemoveFailedUpdates.up, {})
    BY DEF RemoveFailedUpdates, DropsTables
<1> HIDE DEF Named
<1>14. ASSUME NEW k \in 1..24 PROVE Named(Chain[k].up, IF k = 11 THEN {"users"} ELSE {})
    <2>1. CASE k \in {1, 2, 4, 7, 14, 15, 16, 19, 20, 22}
        BY <2>1, <1>1, ChainIs
    <2>2. CASE k \in {3, 5, 6, 8, 9, 10, 12}
        BY <2>2, <1>2, <1>3, <1>4, <1>5, <1>6, <1>8, ChainIs
    <2>3. CASE k \in {11, 13, 17, 18, 21, 23, 24}
        BY <2>3, <1>3, <1>7, <1>9, <1>10, <1>11, <1>12, <1>13, ChainIs
    <2> QED BY <2>1, <2>2, <2>3
<1> QED BY <1>14

LEMMA DowngradesNamed ==
    \A k \in 1..24 : IF k \in Nameless THEN Chain[k].down.unnamed = TRUE
                                       ELSE Named(Chain[k].down, {})
<1> USE DEF Named, Creates, Migration, Adds, NoChange
<1>1. /\ Named(CreateUsers.down, {}) /\ Named(CreateEntrypoints.down, {})
      /\ Named(BringBackUsers.down, {}) /\ Named(CreateGardens.down, {})
      /\ Named(CreateMdfDatasets.down, {}) /\ Named(LinkDatasets.down, {})
      /\ Named(CreateFailedUpdates.down, {}) /\ Named(CreateModal.down, {})
      /\ Named(LinkModalFunctions.down, {}) /\ Named(CreateInvocations.down, {})
    <2>1. \A facts : Named(Creates(facts).down, {})
        BY DEF DropsTables
    <2> HIDE DEF Named, Creates
    <2> QED BY <2>1 DEF CreateUsers, CreateEntrypoints, BringBackUsers, CreateGardens,
                        CreateMdfDatasets, LinkDatasets, CreateFailedUpdates, CreateModal,
                        LinkModalFunctions, CreateInvocations
<1>2. Named(SimplifyEntrypointTable.down, {})
    BY DEF SimplifyEntrypointTable, DropsColumns
<1>3. Named(AddRepositoryContributors.down, {}) /\ Named(AddEntrypointAliases.down, {})
    BY DEF AddRepositoryContributors, AddEntrypointAliases, DropsColumns
<1>4. Named(AddMetadataFields.down, {}) /\ Named(AddHardwareSpec.down, {})
    BY DEF AddMetadataFields, AddHardwareSpec
<1>5. Named(FreeContainerUuid.down, {})
    BY DEF FreeContainerUuid
<1>6. UseIds.down.unnamed = TRUE /\ AddOwner.down.unnamed = TRUE
        /\ ReviseModal.down.unnamed = TRUE
    BY DEF UseIds, AddOwner, ReviseModal
<1>7. Named(SimplifyEntrypointSchema.down, {})
    BY DEF SimplifyEntrypointSchema, DropsColumns
<1>8. Named(AddUserFields.down, {})
    BY DEF AddUserFields, DropsColumns
<1>9. Named(AddIsArchived.down, {})
    BY DEF AddIsArchived
<1>10. Named(DropDatasetSource.down, {}) /\ Named(RemoveFailedUpdates.down, {})
    BY DEF DropDatasetSource, RemoveFailedUpdates
<1> HIDE DEF Named
<1>11. ASSUME NEW k \in 1..24, k \notin Nameless PROVE Named(Chain[k].down, {})
    <2>1. CASE k \in {1, 2, 4, 7, 14, 15, 16, 19, 20, 22}
        BY <2>1, <1>1, ChainIs
    <2>2. CASE k \in {3, 5, 6, 8, 9, 12}
        BY <2>2, <1>2, <1>3, <1>4, <1>5, <1>7, ChainIs
    <2>3. CASE k \in {13, 17, 18, 23, 24}
        BY <2>3, <1>4, <1>8, <1>9, <1>10, ChainIs
    <2> QED BY <1>11, <2>1, <2>2, <2>3 DEF Nameless, RevisedModal
<1>12. ASSUME NEW k \in Nameless PROVE Chain[k].down.unnamed = TRUE
    BY <1>6, ChainIs DEF Nameless, RevisedModal
<1> QED BY <1>11, <1>12

\* Rows are in tables that the schema still has.
LEMMA RowsHaveTables ==
    ASSUME NEW S, NEW m, NEW filled, NEW inserts, Named(m, inserts),
           filled \subseteq TablesOf(S),
           \A t \in inserts : <<"table", t>> \in Applied(S, m)
    PROVE  FilledAfter(filled, m) \subseteq TablesOf(Applied(S, m))
<1> SUFFICES ASSUME NEW t \in FilledAfter(filled, m) PROVE t \in TablesOf(Applied(S, m))
    OBVIOUS
<1>1. t \in filled \ m.dropTables \/ t \in inserts
    BY DEF FilledAfter, Named
<1>2. CASE t \in inserts
    <2>1. <<"table", t>>[1] = "table" /\ <<"table", t>>[2] = t
        OBVIOUS
    <2> QED BY <1>2, <2>1 DEF TablesOf
<1>3. CASE t \in filled \ m.dropTables
    <2>1. PICK f \in S : f[1] = "table" /\ f[2] = t
        BY <1>3 DEF TablesOf
    <2>2. ~Drops(m, f)
        BY <1>3, <2>1 DEF Drops, Named, Uses
    <2>3. f \in Applied(S, m)
        BY <2>1, <2>2, AppliedIs
    <2> QED BY <2>1, <2>3 DEF TablesOf
<1> QED BY <1>1, <1>2, <1>3

\* The owner that AddOwner writes has a table to be in.
LEMMA OwnerHasTable == <<"table", "users">> \in SchemaAt[11]
<1> DEFINE users == <<"table", "users">>
<1>1. users \in Chain[4].up.add
    <2>1. users \in BringBackUsers.up.add
        BY DEF BringBackUsers, Creates, Migration, Adds, NoChange, UsersTable, Table
    <2> QED BY <2>1, ChainIs
<1>2. /\ users[2] = "users" /\ users # <<"unique", "dataset_metadata", "doi">>
      /\ users # <<"unique", "entrypoints", "container_uuid">>
    OBVIOUS
<1> HIDE DEF users
<1>3. \A k \in (4 + 1)..11 : ~Drops(Chain[k].up, users)
    <2>1. ~Drops(Chain[6].up, users) /\ ~Drops(Chain[9].up, users) /\ ~Drops(Chain[10].up, users)
        BY <1>2, UpDrops
    <2>2. \A k \in {5, 7, 8, 11} : ~Drops(Chain[k].up, users)
        BY UpDrops DEF AddsOnly
    <2> QED BY <2>1, <2>2
<1>4. users \in SchemaAt[11]
    BY <1>1, <1>3, AddedStays
<1> QED BY <1>4 DEF users

\* From revision 4 on no upgrade drops a table that the models map.
LEMMA ModelTablesStay ==
    \A k \in 4..24 : TablesOf(ModelSchema) \cap Chain[k].up.dropTables = {}
<1> DEFINE Mapped ==
                {"users", "entrypoints", "gardens", "mdf_datasets", "modal_apps",
                 "modal_functions", "modal_invocations", "gardens_entrypoints",
                 "gardens_modal_functions", "users_saved_gardens", "entrypoints_mdf_datasets"}
<1>1. TablesOf(ModelSchema) \subseteq Mapped
    <2>1. \A f \in ModelSchema : f[2] \in Mapped
        BY FactsOf DEF ModelSchema, User, Entrypoint, Garden, Dataset, ModalApp, ModalFunction,
                       ModalInvocation, Associations
    <2> QED BY <2>1 DEF TablesOf
<1>2. \A k \in AddsOnly \cup {6, 9, 10, 13, 18} : Chain[k].up.dropTables = {}
    <2>1. \A k \in {1, 2, 4, 7, 14, 15, 16, 19, 20, 22} : \E facts : Chain[k] = Creates(facts)
        BY ChainIs
           DEF CreateUsers, CreateEntrypoints, BringBackUsers, CreateGardens, CreateMdfDatasets,
               LinkDatasets, CreateFailedUpdates, CreateModal, LinkModalFunctions,
               CreateInvocations
    <2>2. \A k \in {1, 2, 4, 7, 14, 15, 16, 19, 20, 22} : Chain[k].up.dropTables = {}
        BY <2>1, Adding DEF Changes
    <2>3. \A k \in {5, 6, 8, 9, 10, 11, 13, 17, 18, 24} : Chain[k].up.dropTables = {}
        BY ChainIs, Adding, AddMetadataFieldsUpgrade, FreeContainerUuidUpgrade, UseIdsUpgrade,
           AddOwnerUpgrade, AddUserFieldsUpgrade, AddIsArchivedUpgrade, DropDatasetSourceUpgrade
           DEF Changes
    <2> QED BY <2>2, <2>3 DEF AddsOnly
<1>3. /\ Chain[12].up.dropTables = {"model_metadata", "dataset_metadata", "paper_metadata",
                                    "repository_metadata"}
      /\ Chain[21].up.dropTables = {"modal_apps_modal_functions"}
      /\ Chain[23].up.dropTables = {"failed_search_index_updates"}
    BY ChainIs, SimplifyEntrypointSchemaUpgrade, ReviseModalUpgrade, RemoveFailedUpdatesUpgrade
       DEF Changes
<1>4. \A k \in {12, 21, 23} : Mapped \cap Chain[k].up.dropTables = {}
    BY <1>3
<1> HIDE DEF Mapped
<1> QED BY <1>1, <1>2, <1>4 DEF AddsOnly

\* What the foreign keys point at, whichever migration created them.
Targets ==
    {<<"entrypoints", "id">>, <<"entrypoints", "doi">>, <<"gardens", "id">>,
     <<"gardens", "doi">>, <<"users", "id">>, <<"mdf_datasets", "id">>,
     <<"modal_apps", "id">>, <<"modal_functions", "id">>}

PointsAtTarget(facts) == \A f \in facts : f[1] = "fk" => <<f[4], f[5]>> \in Targets

LEMMA PointingFacts ==
    /\ \A t, cs : PointsAtTarget(Columns(t, cs)) /\ PointsAtTarget(Required(t, cs))
    /\ \A t, cs : PointsAtTarget(Unique(t, cs))
    /\ \A t, pk, cs, ds : PointsAtTarget(Table(t, pk, cs, ds))
    /\ \A t, c : \A t2 \in {"entrypoints", "gardens", "users", "mdf_datasets", "modal_apps",
                            "modal_functions"} : PointsAtTarget(References(t, c, t2))
    /\ PointsAtTarget({})
    /\ \A A, B : PointsAtTarget(A) /\ PointsAtTarget(B) => PointsAtTarget(A \cup B)
<1>1. /\ \A t, cs : PointsAtTarget(Columns(t, cs)) /\ PointsAtTarget(Required(t, cs))
      /\ \A t, cs : PointsAtTarget(Unique(t, cs))
      /\ \A t, pk, cs, ds : PointsAtTarget(Table(t, pk, cs, ds))
    BY DEF PointsAtTarget, Columns, Required, Unique, Table
<1>2. \A t, c : \A t2 \in {"entrypoints", "gardens", "users", "mdf_datasets", "modal_apps",
                           "modal_functions"} : PointsAtTarget(References(t, c, t2))
    BY DEF PointsAtTarget, References, Targets
<1>3. /\ PointsAtTarget({})
      /\ \A A, B : PointsAtTarget(A) /\ PointsAtTarget(B) => PointsAtTarget(A \cup B)
    BY DEF PointsAtTarget
<1> QED BY <1>1, <1>2, <1>3

LEMMA ForeignKeysPoint == \A k \in 1..24 : PointsAtTarget(Chain[k].up.add)
<1> USE DEF PointsAtTarget
<1>1. \A f \in CreateEntrypoints.up.add : f[1] = "fk" => f[4] = "entrypoints" /\ f[5] = "id"
    BY DEF CreateEntrypoints, Creates, Migration, Adds, NoChange, AuthorsTable, TagsTable,
           TestFunctionsTable, ModelMetadata, OfEntrypoint, Table, Required, Columns,
           References, Unique
<1>2. \A f \in CreateGardens.up.add :
        f[1] = "fk" => f[4] \in {"entrypoints", "gardens"} /\ f[5] = "doi"
    BY DEF CreateGardens, Creates, Migration, Adds, NoChange, Table, Required, Columns, Unique
<1>3. PointsAtTarget(CreateEntrypoints.up.add) /\ PointsAtTarget(CreateGardens.up.add)
    BY <1>1, <1>2 DEF Targets
<1> HIDE DEF PointsAtTarget
<1> USE PointingFacts
<1>4. PointsAtTarget(UsersTable) /\ PointsAtTarget(FailedUpdates)
    BY DEF UsersTable, FailedUpdates
<1>5. \A facts : PointsAtTarget(facts) => PointsAtTarget(Creates(facts).up.add)
    BY Adding DEF Changes
<1>6. PointsAtTarget(SimplifyEntrypointTable.up.add) /\ PointsAtTarget(AddMetadataFields.up.add)
        /\ PointsAtTarget(FreeContainerUuid.up.add)
    BY SimplifyEntrypointTableUpgrade, AddMetadataFieldsUpgrade, FreeContainerUuidUpgrade
       DEF Changes
<1>7. PointsAtTarget(AddRepositoryContributors.up.add)
        /\ PointsAtTarget(AddEntrypointAliases.up.add) /\ PointsAtTarget(AddHardwareSpec.up.add)
    BY DEF AddRepositoryContributors, AddEntrypointAliases, AddHardwareSpec, Migration, Adds,
           NoChange
<1>8. PointsAtTarget(UseIds.up.add)
    <2>1. UseIds.up.add = (Required("gardens_entrypoints", {"garden_id", "entrypoint_id"})
                \cup References("gardens_entrypoints", "entrypoint_id", "entrypoints"))
                \cup References("gardens_entrypoints", "garden_id", "gardens")
        BY UseIdsUpgrade DEF Changes
    <2> QED BY <2>1
<1>9. PointsAtTarget(AddOwner.up.add)
    <2>1. AddOwner.up.add = ((Required("entrypoints", {"user_id"})
                \cup Required("gardens", {"user_id"}))
                \cup References("entrypoints", "user_id", "users"))
                \cup References("gardens", "user_id", "users")
        BY AddOwnerUpgrade DEF Changes
    <2> QED BY <2>1
<1>10. PointsAtTarget(SimplifyEntrypointSchema.up.add) /\ PointsAtTarget(AddIsArchived.up.add)
        /\ PointsAtTarget(DropDatasetSource.up.add) /\ PointsAtTarget(RemoveFailedUpdates.up.add)
    BY SimplifyEntrypointSchemaUpgrade, AddIsArchivedUpgrade, DropDatasetSourceUpgrade,
       RemoveFailedUpdatesUpgrade DEF Changes
<1>11. PointsAtTarget(AddUserFields.up.add)
    <2>1. AddUserFields.up.add = ((Table("users_saved_gardens", {"garden_id"}, {"user_id"}, {})
                \cup References("users_saved_gardens", "garden_id", "gardens"))
                \cup References("users_saved_gardens", "user_id", "users"))
                \cup Columns("users", UserFields)
        BY AddUserFieldsUpgrade DEF Changes
    <2> QED BY <2>1
<1>12. PointsAtTarget(ReviseModal.up.add)
    <2>1. ReviseModal.up.add =
            (Required("modal_apps", {"base_image_name", "requirements", "file_contents"})
                \cup Required("modal_functions", {"title", "function_name", "modal_app_id"}))
                \cup References("modal_functions", "modal_app_id", "modal_apps")
        BY ReviseModalUpgrade DEF Changes
    <2> QED BY <2>1
<1>13. /\ PointsAtTarget(CreateUsers.up.add) /\ PointsAtTarget(BringBackUsers.up.add)
       /\ PointsAtTarget(CreateFailedUpdates.up.add)
    BY <1>4, <1>5 DEF CreateUsers, BringBackUsers, CreateFailedUpdates
<1>14. /\ PointsAtTarget(LinkDatasets.up.add) /\ PointsAtTarget(LinkModalFunctions.up.add)
    BY <1>5 DEF LinkDatasets, LinkModalFunctions, Links
<1>15. PointsAtTarget(CreateMdfDatasets.up.add)
    <2>1. \A f \in CreateMdfDatasets.up.add : f[1] = "fk" => f[4] = "users" /\ f[5] = "id"
        BY DEF CreateMdfDatasets, Creates, Migration, Adds, NoChange, Table, Required, Columns,
               References, Unique
    <2> QED BY <2>1 DEF PointsAtTarget, Targets
<1>16. PointsAtTarget(CreateInvocations.up.add)
    <2>1. \A f \in CreateInvocations.up.add :
            f[1] = "fk" => f[4] \in {"modal_functions", "users"} /\ f[5] = "id"
        BY DEF CreateInvocations, Creates, Migration, Adds, NoChange, Table, Required, Columns,
               References
    <2> QED BY <2>1 DEF PointsAtTarget, Targets
<1>17. PointsAtTarget(CreateModal.up.add)
    <2>1. \A f \in CreateModal.up.add :
            f[1] = "fk" => f[4] \in {"modal_apps", "modal_functions", "users"} /\ f[5] = "id"
        BY DEF CreateModal, AppsFunctions, Links, Creates, Migration, Adds, NoChange, Table,
               Required, Columns, References, Unique
    <2> QED BY <2>1 DEF PointsAtTarget, Targets
<1>18. ASSUME NEW k \in 1..24 PROVE PointsAtTarget(Chain[k].up.add)
    <2>1. CASE k \in {1, 2, 4, 7, 14, 15, 16, 19, 20, 22}
        BY <2>1, <1>3, <1>13, <1>14, <1>15, <1>16, <1>17, ChainIs
    <2>2. CASE k \in {3, 5, 6, 8, 9, 10, 12}
        BY <2>2, <1>6, <1>7, <1>8, <1>10, ChainIs
    <2>3. CASE k \in {11, 13, 17, 18, 21, 23, 24}
        BY <2>3, <1>7, <1>9, <1>10, <1>11, <1>12, ChainIs
    <2> QED BY <2>1, <2>2, <2>3
<1> QED BY <1>18

\* The keys that the foreign keys point at, with the migrations that added them.
KeyFacts ==
    {<<"unique", "entrypoints", "doi">>, <<"pk", "entrypoints", {"id"}>>,
     <<"unique", "gardens", "doi">>, <<"pk", "gardens", {"id"}>>, <<"pk", "users", {"id"}>>,
     <<"pk", "mdf_datasets", {"id"}>>, <<"pk", "modal_apps", {"id"}>>,
     <<"pk", "modal_functions", {"id"}>>}

LEMMA KeysAdded ==
    \A f \in KeyFacts :
        \/ f[2] = "entrypoints" /\ f \in Chain[2].up.add
        \/ f[2] = "users" /\ f \in Chain[4].up.add
        \/ f[2] = "gardens" /\ f \in Chain[7].up.add
        \/ f[2] = "mdf_datasets" /\ f \in Chain[14].up.add
        \/ f[2] \in {"modal_apps", "modal_functions"} /\ f \in Chain[19].up.add
<1> USE DEF Creates, Migration, Adds, NoChange, Table, Unique
<1>1. /\ <<"unique", "entrypoints", "doi">> \in CreateEntrypoints.up.add
      /\ <<"pk", "entrypoints", {"id"}>> \in CreateEntrypoints.up.add
    BY DEF CreateEntrypoints
<1>2. <<"pk", "users", {"id"}>> \in BringBackUsers.up.add
    BY DEF BringBackUsers, UsersTable
<1>3. /\ <<"unique", "gardens", "doi">> \in CreateGardens.up.add
      /\ <<"pk", "gardens", {"id"}>> \in CreateGardens.up.add
    BY DEF CreateGardens
<1>4. <<"pk", "mdf_datasets", {"id"}>> \in CreateMdfDatasets.up.add
    BY DEF CreateMdfDatasets
<1>5. /\ <<"pk", "modal_apps", {"id"}>> \in CreateModal.up.add
      /\ <<"pk", "modal_functions", {"id"}>> \in CreateModal.up.add
    BY DEF CreateModal
<1> HIDE DEF Creates, Migration, Adds, NoChange, Table, Unique
<1>6. /\ Chain[2] = CreateEntrypoints /\ Chain[4] = BringBackUsers
      /\ Chain[7] = CreateGardens /\ Chain[14] = CreateMdfDatasets
      /\ Chain[19] = CreateModal
    BY ChainIs
<1>7. SUFFICES ASSUME NEW f \in KeyFacts
               PROVE  \/ f[2] = "entrypoints" /\ f \in Chain[2].up.add
                      \/ f[2] = "users" /\ f \in Chain[4].up.add
                      \/ f[2] = "gardens" /\ f \in Chain[7].up.add
                      \/ f[2] = "mdf_datasets" /\ f \in Chain[14].up.add
                      \/ f[2] \in {"modal_apps", "modal_functions"}
                            /\ f \in Chain[19].up.add
    OBVIOUS
<1>8. CASE f \in {<<"unique", "entrypoints", "doi">>, <<"pk", "entrypoints", {"id"}>>}
    BY <1>1, <1>6, <1>8
<1>9. CASE f = <<"pk", "users", {"id"}>>
    BY <1>2, <1>6, <1>9
<1>10. CASE f \in {<<"unique", "gardens", "doi">>, <<"pk", "gardens", {"id"}>>}
    BY <1>3, <1>6, <1>10
<1>11. CASE f = <<"pk", "mdf_datasets", {"id"}>>
    BY <1>4, <1>6, <1>11
<1>12. CASE f \in {<<"pk", "modal_apps", {"id"}>>, <<"pk", "modal_functions", {"id"}>>}
    BY <1>5, <1>6, <1>12
<1> QED BY <1>8, <1>9, <1>10, <1>11, <1>12 DEF KeyFacts

LEMMA KeysStay ==
    ASSUME NEW f \in KeyFacts
    PROVE  /\ \A k \in 5..24 : ~Drops(Chain[k].up, f)
           /\ f[2] = "entrypoints" => ~Drops(Chain[3].up, f) /\ ~Drops(Chain[4].up, f)
<1>1. /\ f[2] \in {"entrypoints", "gardens", "users", "mdf_datasets", "modal_apps",
                   "modal_functions"}
      /\ f # <<"unique", "dataset_metadata", "doi">>
      /\ f # <<"unique", "entrypoints", "container_uuid">>
      /\ f # <<"notnull", "users", "username">>
      /\ f # <<"notnull", "modal_functions", "doi">>
    BY DEF KeyFacts
<1>2. /\ \A c \in SourceColumns : ~Uses(f, "mdf_datasets", c)
      /\ ~Uses(f, "modal_apps", "file_text")
      /\ \A c \in RevisedColumns : ~Uses(f, "modal_functions", c)
    BY DEF KeyFacts, Uses, SourceColumns, RevisedColumns
<1>3. \A k \in {6, 9, 10, 12, 13} : ~Drops(Chain[k].up, f)
    BY <1>1, UpDrops
<1>4. \A k \in {18, 21, 23} : ~Drops(Chain[k].up, f)
    BY <1>1, <1>2, UpDrops
<1>5. \A k \in {5, 7, 8, 11, 14, 15, 16, 17, 19, 20, 22, 24} : ~Drops(Chain[k].up, f)
    <2>1. \A k \in {5, 7, 8, 11, 14, 15, 16, 17, 19, 20, 22, 24} : k \in AddsOnly
        BY DEF AddsOnly
    <2> QED BY <2>1, UpDrops
<1>6. \A k \in 5..24 : ~Drops(Chain[k].up, f)
    BY <1>3, <1>4, <1>5
<1>7. f[2] = "entrypoints" => ~Drops(Chain[3].up, f) /\ ~Drops(Chain[4].up, f)
    <2>1. 4 \in AddsOnly
        BY DEF AddsOnly
    <2> QED BY <2>1, UpDrops
<1> QED BY <1>6, <1>7

LEMMA TargetsAreKeys ==
    ASSUME NEW n \in 21..24, NEW t, NEW c, <<t, c>> \in Targets
    PROVE  IsKey(SchemaAt[n], t, c)
<1>1. ASSUME NEW f \in KeyFacts PROVE f \in SchemaAt[n]
    <2>1. PICK j \in {2, 4, 7, 14, 19} :
            f \in Chain[j].up.add /\ (j = 2 => f[2] = "entrypoints")
        BY KeysAdded
    <2>2. j \in 1..24 /\ n \in j..24 /\ \A k \in (j + 1)..n : k \in 5..24 \/ (j = 2 /\ k \in {3, 4})
        BY <2>1
    <2>3. \A k \in (j + 1)..n : ~Drops(Chain[k].up, f)
        BY <2>1, <2>2, KeysStay
    <2> QED BY <2>1, <2>2, <2>3, AddedStays
<1>2. <<"unique", t, c>> \in KeyFacts \/ <<"pk", t, {c}>> \in KeyFacts
    BY DEF Targets, KeyFacts
<1> QED BY <1>1, <1>2 DEF IsKey

LEMMA ForeignKeysRefer ==
    ASSUME NEW n \in 21..24, NEW f \in SchemaAt[n], f[1] = "fk"
    PROVE  IsKey(SchemaAt[n], f[4], f[5])
<1>1. PICK k \in 1..n : f \in Chain[k].up.add
    BY AddedBy
<1>2. k \in 1..24
    BY <1>1
<1>3. <<f[4], f[5]>> \in Targets
    BY <1>1, <1>2, ForeignKeysPoint DEF PointsAtTarget
<1> QED BY <1>3, TargetsAreKeys

\* The last three upgrades do not depend on the rows there are.
LEMMA LateUpgradesAccepted ==
    ASSUME NEW k \in 22..24, NEW filled, filled \subseteq TablesOf(SchemaAt[k - 1])
    PROVE  ~Refused(SchemaAt[k - 1], filled, Chain[k].up, TRUE)
<1> DEFINE S == SchemaAt[k - 1]
           m == Chain[k].up
<1>1. m.unnamed = FALSE
    BY UpgradesNamed DEF Named
<1>2. \A f \in m.add : f \notin S
    <2>1. CASE k = 22
        <3>1. k \in 1..24 /\ k \in Creating
            BY <2>1 DEF Creating
        <3> QED BY <3>1, NewTables, AddedTo
    <2>2. CASE k = 23
        BY <2>2, ChainIs, RemoveFailedUpdatesUpgrade DEF Changes
    <2>3. CASE k = 24
        <3>1. Chain[24].down.add = {}
            BY ChainIs, HardwareDowngrade DEF Changes
        <3> QED BY <2>3, <3>1, ColumnsBack DEF Undoes
    <2> QED BY <2>1, <2>2, <2>3
<1>3. \A f \in Applied(S, m) : f[1] = "fk" => IsKey(Applied(S, m), f[4], f[5])
    <2>1. k \in 1..24 /\ k \in 21..24
        OBVIOUS
    <2>2. Applied(S, m) = SchemaAt[k]
        BY <2>1, SchemaStep
    <2> HIDE DEF S, m
    <2> QED BY <2>1, <2>2, ForeignKeysRefer
<1>4. \A f \in m.add : f[1] \in {"notnull", "unique"} => f[2] \notin filled
    <2>1. CASE k = 22
        <3>1. k \in 1..24 /\ k \in Creating
            BY <2>1 DEF Creating
        <3>2. \A f \in S : f[2] \notin TablesAdded[k]
            BY <3>1, NewTables
        <3>3. \A f \in m.add : f[2] \in TablesAdded[k]
            BY <3>1, AddedTo
        <3>4. \A t \in filled : t \notin TablesAdded[k]
            BY <3>2 DEF TablesOf
        <3> QED BY <3>3, <3>4
    <2>2. CASE k = 23
        BY <2>2, ChainIs, RemoveFailedUpdatesUpgrade DEF Changes
    <2>3. CASE k = 24
        <3>1. \A f \in AddHardwareSpec.up.add : f[1] = "col"
            BY DEF AddHardwareSpec, Migration, Adds, NoChange, Columns
        <3> QED BY <2>3, <3>1, ChainIs
    <2> QED BY <2>1, <2>2, <2>3
<1> HIDE DEF S, m
<1>5. ~RowsRefuse(S \ Dropped(S, m), filled \ m.dropTables, m, TRUE)
    BY <1>4 DEF RowsRefuse
<1>6. ~Refused(S, filled, m, TRUE)
    BY <1>1, <1>2, <1>3, <1>5 DEF Refused
<1> QED BY <1>6 DEF S, m

-----------------------------------------------------------------------------
(* The database and the running command *)

IsDatabase(d) ==
    /\ d = [at |-> d.at, schema |-> d.schema, filled |-> d.filled]
    /\ d.at \in 0..24
    /\ d.schema = SchemaAt[d.at]
    /\ d.filled \subseteq TablesOf(d.schema)

LEMMA UpgradeStep ==
    ASSUME NEW d, IsDatabase(d), NEW k \in 1..24, k = d.at + 1
    PROVE  IsDatabase([at |-> k, schema |-> Applied(d.schema, Chain[k].up),
                       filled |-> FilledAfter(d.filled, Chain[k].up)])
<1>1. SchemaAt[k] = Applied(SchemaAt[k - 1], Chain[k].up) /\ d.at = k - 1
    BY SchemaStep DEF IsDatabase
<1>2. SchemaAt[k] = Applied(d.schema, Chain[k].up)
    BY <1>1 DEF IsDatabase
<1> DEFINE inserts == IF k = 11 THEN {"users"} ELSE {}
<1>3. Named(Chain[k].up, inserts)
    BY UpgradesNamed
<1>4. \A t \in inserts : <<"table", t>> \in SchemaAt[k]
    BY OwnerHasTable
<1> HIDE DEF inserts
<1>5. FilledAfter(d.filled, Chain[k].up) \subseteq TablesOf(SchemaAt[k])
    BY <1>2, <1>3, <1>4, RowsHaveTables DEF IsDatabase
<1> QED BY <1>2, <1>5 DEF IsDatabase

LEMMA DowngradeStep ==
    ASSUME NEW d, IsDatabase(d), NEW k \in (1..24) \ Nameless, k = d.at
    PROVE  IsDatabase([at |-> k - 1, schema |-> Applied(d.schema, Chain[k].down),
                       filled |-> FilledAfter(d.filled, Chain[k].down)])
<1>1. SchemaAt[k - 1] = Applied(d.schema, Chain[k].down)
    BY DowngradesUndo DEF IsDatabase
<1>2. Named(Chain[k].down, {})
    BY DowngradesNamed
<1>3. FilledAfter(d.filled, Chain[k].down) \subseteq TablesOf(SchemaAt[k - 1])
    BY <1>1, <1>2, RowsHaveTables DEF IsDatabase
<1> QED BY <1>1, <1>3 DEF IsDatabase

\* A command is on its way up, with the rows it must keep, or one step down.
Rising ==
    /\ db.at < cmd.goal /\ db.at <= cmd.work.at /\ cmd.work.at <= cmd.goal
    /\ db.at >= 3 => db.filled \cap TablesOf(ModelSchema) \subseteq cmd.work.filled

Falling ==
    /\ db.at > 0 /\ cmd.goal = db.at - 1
    /\ cmd.work.at = db.at \/ (cmd.work.at = cmd.goal /\ db.at \notin Nameless)

MigrationsInv ==
    /\ IsDatabase(db)
    /\ IsDatabase(cmd.work)
    /\ cmd = [goal |-> cmd.goal, work |-> cmd.work]
    /\ cmd.goal \in -1..24
    /\ Idle \/ Rising \/ Falling

LEMMA MigrationsInit == Init => MigrationsInv
<1> SUFFICES ASSUME Init PROVE MigrationsInv
    OBVIOUS
<1>1. IsDatabase(EmptyDatabase)
    BY SchemaStep DEF IsDatabase, EmptyDatabase
<1> QED BY <1>1 DEF Init, MigrationsInv, NoCommand, Idle

LEMMA MigrateKeeps == MigrationsInv /\ Migrate => MigrationsInv'
<1> SUFFICES ASSUME MigrationsInv, Migrate PROVE MigrationsInv'
    OBVIOUS
<1>1. PICK w : w = cmd.work
    OBVIOUS
<1>2. PICK goal : goal = cmd.goal
    OBVIOUS
<1>3. /\ IsDatabase(w) /\ cmd = [goal |-> goal, work |-> w] /\ db' = db
      /\ w.at \in 0..24 /\ goal \in -1..24 /\ db.at \in 0..24
      /\ w.at # goal
      /\ Rising \/ Falling
    BY <1>1, <1>2 DEF MigrationsInv, Migrate, IsDatabase
<1>4. PICK after : after = [at |-> NextAt, schema |-> Applied(w.schema, NextMigration),
                            filled |-> FilledAfter(w.filled, NextMigration)]
    OBVIOUS
<1>5. cmd' = [goal |-> goal, work |-> after]
    BY <1>3, <1>4 DEF Migrate
<1>6. cmd'.work = after /\ cmd'.goal = goal
    BY <1>5
<1>7. NextMigration.unnamed # TRUE
    BY DEF Migrate, MigrationRefused, Refused
<1>8. CASE Rising
    <2>1. w.at < goal /\ w.at + 1 \in 1..24 /\ db.at < goal /\ db.at <= w.at
        BY <1>1, <1>2, <1>3, <1>8 DEF Rising
    <2>2. PICK k \in 1..24 : k = w.at + 1
        BY <2>1
    <2>3. NextAt = k /\ NextMigration = Chain[k].up
        BY <1>1, <1>2, <2>1, <2>2 DEF NextAt, NextMigration
    <2>4. IsDatabase(after)
        BY <1>3, <1>4, <2>2, <2>3, UpgradeStep
    <2>5. after.at = k /\ after.filled = FilledAfter(w.filled, Chain[k].up)
        BY <1>4, <2>3
    <2>6. db.at >= 3 => db.filled \cap TablesOf(ModelSchema) \subseteq after.filled
        <3>1. SUFFICES ASSUME db.at >= 3
                       PROVE  db.filled \cap TablesOf(ModelSchema) \subseteq after.filled
            OBVIOUS
        <3>2. k \in 4..24
            BY <1>3, <2>1, <2>2, <3>1
        <3>3. db.filled \cap TablesOf(ModelSchema) \subseteq w.filled
            BY <1>1, <1>8, <3>1 DEF Rising
        <3> QED BY <2>5, <3>2, <3>3, ModelTablesStay DEF FilledAfter
    <2>7. Rising'
        BY <1>3, <1>6, <2>1, <2>2, <2>5, <2>6 DEF Rising
    <2> QED BY <1>3, <1>5, <1>6, <2>4, <2>7 DEF MigrationsInv
<1>9. CASE Falling
    <2>1. db.at > 0 /\ goal = db.at - 1 /\ w.at = db.at
        BY <1>1, <1>2, <1>3, <1>9 DEF Falling
    <2>2. PICK k \in 1..24 : k = w.at
        BY <1>3, <2>1
    <2>3. NextAt = k - 1 /\ NextMigration = Chain[k].down
        BY <1>1, <1>2, <1>3, <2>1, <2>2 DEF NextAt, NextMigration
    <2>4. k \notin Nameless
        BY <1>7, <2>3, DowngradesNamed
    <2>5. IsDatabase(after)
        BY <1>3, <1>4, <2>2, <2>3, <2>4, DowngradeStep
    <2>6. Falling'
        BY <1>3, <1>4, <1>6, <2>1, <2>2, <2>3, <2>4 DEF Falling
    <2> QED BY <1>3, <1>5, <1>6, <2>5, <2>6 DEF MigrationsInv
<1> QED BY <1>3, <1>8, <1>9

LEMMA MigrationsNext == MigrationsInv /\ [Next]_vars => MigrationsInv'
<1> SUFFICES ASSUME MigrationsInv, [Next]_vars PROVE MigrationsInv'
    OBVIOUS
<1>1. PICK d : d = db
    OBVIOUS
<1>2. /\ IsDatabase(d) /\ IsDatabase(cmd.work) /\ cmd = [goal |-> cmd.goal, work |-> cmd.work]
      /\ d = [at |-> d.at, schema |-> d.schema, filled |-> d.filled] /\ d.at \in 0..24
    BY <1>1 DEF MigrationsInv, IsDatabase
<1>3. ASSUME NEW t \in Populated, Insert(t) \/ Empty(t) PROVE MigrationsInv'
    <2>1. PICK rows : /\ rows \subseteq TablesOf(d.schema)
                      /\ db' = [db EXCEPT !.filled = rows]
        BY <1>1, <1>2, <1>3 DEF Insert, Empty, IsDatabase
    <2>2. db' = [at |-> d.at, schema |-> d.schema, filled |-> rows]
        BY <1>1, <1>2, <2>1
    <2>3. IsDatabase(db')
        <3>1. PICK e : e = [at |-> d.at, schema |-> d.schema, filled |-> rows]
            OBVIOUS
        <3>2. IsDatabase(e)
            BY <1>2, <2>1, <3>1 DEF IsDatabase
        <3> QED BY <2>2, <3>1, <3>2, Zenon
    <2>4. cmd' = cmd /\ Idle
        BY <1>3 DEF Insert, Empty
    <2> QED BY <2>3, <2>4 DEF MigrationsInv, Idle
<1>4. ASSUME NEW head \in 1..Last, UpgradeHead(head) PROVE MigrationsInv'
    <2>1. head \in 1..24
        BY LastIs
    <2>2. cmd' = [goal |-> head, work |-> db] /\ db' = db /\ head > db.at
        BY <1>4 DEF UpgradeHead
    <2>3. cmd'.goal = head /\ cmd'.work = db
        BY <2>2
    <2>4. Rising'
        BY <1>1, <1>2, <2>1, <2>2, <2>3 DEF Rising
    <2> QED BY <1>1, <1>2, <2>1, <2>2, <2>3, <2>4 DEF MigrationsInv
<1>5. CASE DowngradeOne
    <2>1. cmd' = [goal |-> db.at - 1, work |-> db] /\ db' = db /\ db.at > 0
        BY <1>5 DEF DowngradeOne
    <2>2. cmd'.goal = db.at - 1 /\ cmd'.work = db
        BY <2>1
    <2>3. Falling'
        BY <2>1, <2>2 DEF Falling
    <2> QED BY <1>1, <1>2, <2>1, <2>2, <2>3 DEF MigrationsInv
<1>6. CASE Migrate
    BY <1>6, MigrateKeeps
<1>7. IsDatabase(NoCommand.work) /\ NoCommand = [goal |-> -1, work |-> NoCommand.work]
    <2>1. IsDatabase(EmptyDatabase)
        BY SchemaStep DEF IsDatabase, EmptyDatabase
    <2> QED BY <2>1 DEF NoCommand
<1>8. CASE Fail
    BY <1>1, <1>2, <1>7, <1>8 DEF Fail, MigrationsInv, Idle, NoCommand
<1>9. CASE Commit
    BY <1>1, <1>2, <1>7, <1>9 DEF Commit, MigrationsInv, Idle, NoCommand
<1>10. CASE UNCHANGED vars
    BY <1>10 DEF vars, MigrationsInv, Idle, Rising, Falling
<1> QED BY <1>3, <1>4, <1>5, <1>6, <1>8, <1>9, <1>10 DEF Next

LEMMA MigrationsInvariant == Spec => []MigrationsInv
BY MigrationsInit, MigrationsNext, PTL DEF Spec

-----------------------------------------------------------------------------
(* Theorems *)

\* The database and the one that a running command sees are at revisions there
\* are, and hold rows only in tables of their schemas.
THEOREM Types == Spec => []TypeOK
<1>1. MigrationsInv => TypeOK
    BY LastIs DEF MigrationsInv, IsDatabase, TypeOK
<1> QED BY <1>1, MigrationsInvariant, PTL

\* Whatever upgrades, downgrades and failures came before, the schema is the one
\* that the revision stands for: every downgrade() Alembic can run is the
\* inverse of its upgrade(), whichever of the 24 migrations it belongs to.
THEOREM SchemaTheorem == Spec => []SchemaMatchesRevision
<1>1. MigrationsInv => SchemaMatchesRevision
    BY DEF MigrationsInv, IsDatabase, SchemaMatchesRevision
<1> QED BY <1>1, MigrationsInvariant, PTL

\* From the revision of the revised Modal models on, a deployment's upgrade is
\* accepted whatever rows there are, so that the server starts.
THEOREM AcceptedTheorem == Spec => []UpgradesAccepted
<1>1. MigrationsInv => UpgradesAccepted
    <2> SUFFICES ASSUME MigrationsInv, cmd.work.at >= RevisedModal, cmd.work.at < cmd.goal
                 PROVE  ~MigrationRefused(TRUE)
        BY DEF UpgradesAccepted
    <2>1. IsDatabase(cmd.work) /\ cmd.goal \in -1..24
        BY DEF MigrationsInv
    <2>2. PICK k \in 22..24 : k = cmd.work.at + 1
        BY <2>1 DEF IsDatabase, RevisedModal
    <2>3. k - 1 = cmd.work.at /\ NextMigration = Chain[k].up
        BY <2>1, <2>2 DEF IsDatabase, NextMigration
    <2>4. cmd.work.schema = SchemaAt[k - 1] /\ cmd.work.filled \subseteq TablesOf(SchemaAt[k - 1])
        BY <2>1, <2>3 DEF IsDatabase
    <2> QED BY <2>3, <2>4, LateUpgradesAccepted DEF MigrationRefused
<1> QED BY <1>1, MigrationsInvariant, PTL

\* What a step does to the stored database: rows come and go, or a command commits.
LEMMA Steps ==
    ASSUME MigrationsInv, [Next]_vars
    PROVE  \/ db'.at = db.at
           \/ db' = cmd.work /\ (Rising \/ Falling) /\ cmd.work.at = cmd.goal
<1>1. IsDatabase(db) /\ db = [at |-> db.at, schema |-> db.schema, filled |-> db.filled]
    BY DEF MigrationsInv, IsDatabase
<1>2. ASSUME NEW t \in Populated, Insert(t) \/ Empty(t) PROVE db'.at = db.at
    BY <1>1, <1>2 DEF Insert, Empty
<1>3. CASE Commit
    BY <1>3 DEF Commit, MigrationsInv
<1>4. CASE Migrate \/ Fail \/ DowngradeOne \/ UNCHANGED vars
    BY <1>4 DEF Migrate, Fail, DowngradeOne, vars
<1>5. ASSUME NEW head \in 1..Last, UpgradeHead(head) PROVE db'.at = db.at
    BY <1>5 DEF UpgradeHead
<1> QED BY <1>2, <1>3, <1>4, <1>5 DEF Next

\* A deployment keeps the rows of every table the models map, from revision 3 on.
THEOREM RowsTheorem == Spec => UpgradesKeepRows
<1>1. ASSUME MigrationsInv, [Next]_vars, db.at >= 3 /\ db'.at > db.at
      PROVE  db.filled \cap TablesOf(ModelSchema) \subseteq db'.filled
    <2>1. db.at \in 0..24
        BY <1>1 DEF MigrationsInv, IsDatabase
    <2>2. db' = cmd.work /\ (Rising \/ Falling) /\ cmd.work.at = cmd.goal
        BY <1>1, <2>1, Steps
    <2>3. Rising
        BY <1>1, <2>1, <2>2 DEF Falling
    <2> QED BY <1>1, <2>2, <2>3 DEF Rising
<1> QED BY <1>1, MigrationsInvariant, PTL DEF Spec, UpgradesKeepRows

\* A database that has reached a revision whose downgrade drops a constraint
\* without its name never gets below it again.
THEOREM NoWayBackTheorem == Spec => NoWayBack
<1>1. ASSUME MigrationsInv, [Next]_vars, NEW k \in Nameless, db.at >= k PROVE db'.at >= k
    <2>1. db.at \in 0..24 /\ k \in 0..24
        BY <1>1 DEF MigrationsInv, IsDatabase, Nameless, RevisedModal
    <2>2. CASE db'.at = db.at
        BY <1>1, <2>2
    <2>3. CASE db' = cmd.work /\ (Rising \/ Falling) /\ cmd.work.at = cmd.goal
        <3>1. CASE Rising
            BY <1>1, <2>1, <2>3, <3>1 DEF Rising, MigrationsInv, IsDatabase
        <3>2. CASE Falling
            BY <1>1, <2>1, <2>3, <3>2 DEF Falling
        <3> QED BY <2>3, <3>1, <3>2
    <2> QED BY <1>1, <2>2, <2>3, Steps
<1>2. MigrationsInv /\ [Next]_vars => \A k \in Nameless : db.at >= k => db'.at >= k
    BY <1>1
<1> QED BY <1>2, MigrationsInvariant, PTL DEF Spec, NoWayBack
=============================================================================
