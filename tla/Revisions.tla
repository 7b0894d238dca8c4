----------------------------- MODULE Revisions -----------------------------
(***************************************************************************)
(* The 24 migrations of migrations/versions/, in the order of their        *)
(* down_revision, each with its upgrade() and its downgrade().             *)
(***************************************************************************)
EXTENDS Schema

Migration(up, down) == [up |-> up, down |-> down]

\* A migration that only creates tables, and whose downgrade drops them.
Creates(facts) == Migration(Adds(facts), DropsTables(TablesOf(facts)))

UsersTable ==
    Table("users", {"id"}, {"username", "identity_id"}, {}) \cup Unique("users", {"identity_id"})

\* A table of rows that belong to an entrypoint.
OfEntrypoint(t, required, optional) ==
    Table(t, {"id"}, required, optional) \cup References(t, "entrypoint_id", "entrypoints")

AuthorsTable == OfEntrypoint("authors", {"name", "entrypoint_id"}, {})
TagsTable == OfEntrypoint("tags", {"text", "entrypoint_id"}, {})
TestFunctionsTable == OfEntrypoint("test_functions", {"function_text"}, {"entrypoint_id"})
ModelMetadata ==
    OfEntrypoint("model_metadata",
        {"model_identifier", "model_repository", "entrypoint_id"}, {"model_version"})

\* 46832a4335a5
CreateUsers == Creates(UsersTable)

\* b7c6647b0e70
CreateEntrypoints ==
    Creates(UNION {
        Table("entrypoints", {"id"},
            {"doi", "doi_is_draft", "title", "year", "func_uuid", "container_uuid",
             "base_image_uri", "full_image_uri", "notebook_url", "short_name",
             "function_text"},
            {"description"}),
        Unique("entrypoints", {"container_uuid", "doi", "func_uuid"}),
        AuthorsTable, TagsTable, TestFunctionsTable, ModelMetadata,
        OfEntrypoint("dataset_metadata",
            {"doi", "url", "repository", "entrypoint_id"}, {"data_type"}),
        Unique("dataset_metadata", {"doi"}),
        OfEntrypoint("paper_metadata", {"doi", "entrypoint_id"}, {"citation"}),
        OfEntrypoint("repository_metadata", {"repo_name", "url", "entrypoint_id"}, {})})

\* b278ae89cf0e. The change of function_text's type is left out.
SimplifyEntrypointTable ==
    Migration(
        [NoChange EXCEPT
            !.dropTables = {"authors", "test_functions", "users", "tags"},
            !.add = Required("entrypoints", {"authors", "tags", "test_functions"})],
        [DropsColumns("entrypoints", {"authors", "tags", "test_functions"}) EXCEPT
            !.add = UNION {TagsTable, UsersTable, TestFunctionsTable, AuthorsTable}])

\* 9b07d1d75ae8
BringBackUsers == Creates(UsersTable)

\* 949a58077872
AddRepositoryContributors ==
    Migration(Adds(Required("repository_metadata", {"contributors"})),
              DropsColumns("repository_metadata", {"contributors"}))

\* 0bf4afea3e94
AddMetadataFields ==
    Migration(
        [NoChange EXCEPT
            !.drop = Unique("dataset_metadata", {"doi"}),
            !.add = Required("dataset_metadata", {"title"})
                        \cup Required("paper_metadata", {"title", "authors"})],
        [NoChange EXCEPT
            !.dropColumns = {<<"paper_metadata", "authors">>, <<"paper_metadata", "title">>,
                             <<"dataset_metadata", "title">>},
            !.add = Unique("dataset_metadata", {"doi"})])

\* 21e1daef4f84
CreateGardens ==
    Creates(UNION {
        Table("gardens", {"id"},
            {"title", "doi", "doi_is_draft", "authors", "contributors", "tags",
             "publisher", "year", "language", "version"},
            {"description"}),
        Unique("gardens", {"doi"}),
        Table("gardens_entrypoints", {"garden_doi", "entrypoint_doi"}, {}, {}),
        {<<"fk", "gardens_entrypoints", "entrypoint_doi", "entrypoints", "doi">>,
         <<"fk", "gardens_entrypoints", "garden_doi", "gardens", "doi">>}})

\* 4b5beed10eae
AddEntrypointAliases ==
    Migration(Adds(Required("gardens", {"entrypoint_aliases"})),
              DropsColumns("gardens", {"entrypoint_aliases"}))

\* 8436147ae70a
FreeContainerUuid ==
    Migration([NoChange EXCEPT !.drop = Unique("entrypoints", {"container_uuid"})],
              Adds(Unique("entrypoints", {"container_uuid"})))

\* Mutant of UseIds: the table is created anew.
UseIdsAnew ==
    Migration(
        [DropsTables({"gardens_entrypoints"}) EXCEPT
            !.add = Links("gardens_entrypoints",
                          "garden_id", "gardens", "entrypoint_id", "entrypoints")],
        [NoChange EXCEPT !.unnamed = TRUE])

\* b56d8ac560a5. The columns of the primary key go, and the key with them; the
\* downgrade drops two foreign keys by the name None, which Alembic refuses.
UseIds ==
    Migration(
        [DropsColumns("gardens_entrypoints", {"garden_doi", "entrypoint_doi"}) EXCEPT
            !.add = UNION {
                Required("gardens_entrypoints", {"garden_id", "entrypoint_id"}),
                References("gardens_entrypoints", "entrypoint_id", "entrypoints"),
                References("gardens_entrypoints", "garden_id", "gardens")}],
        [NoChange EXCEPT !.unnamed = TRUE])

\* fdbefac8521a: every row gets the default owner, whom the migration adds to
\* users, before user_id becomes required.
AddOwner ==
    Migration(
        [NoChange EXCEPT
            !.add = UNION {
                Required("entrypoints", {"user_id"}), Required("gardens", {"user_id"}),
                References("entrypoints", "user_id", "users"),
                References("gardens", "user_id", "users")},
            !.defaulted = {"entrypoints", "gardens"},
            !.inserts = {"users"}],
        [NoChange EXCEPT !.unnamed = TRUE])

EntrypointLists == {"requirements", "models", "repositories", "papers", "datasets"}

\* 11833f8cea54
SimplifyEntrypointSchema ==
    Migration(
        [NoChange EXCEPT
            !.dropTables = {"model_metadata", "dataset_metadata", "paper_metadata",
                            "repository_metadata"},
            !.add = Columns("entrypoints", EntrypointLists)],
        [DropsColumns("entrypoints", EntrypointLists) EXCEPT
            !.add = UNION {
                OfEntrypoint("repository_metadata",
                    {"repo_name", "url", "entrypoint_id", "contributors"}, {}),
                OfEntrypoint("paper_metadata",
                    {"doi", "entrypoint_id", "title", "authors"}, {"citation"}),
                OfEntrypoint("dataset_metadata",
                    {"doi", "url", "repository", "entrypoint_id", "title"}, {"data_type"}),
                ModelMetadata}])

UserFields ==
    {"name", "email", "phone_number", "skills", "domains", "affiliations", "profile_pic_id"}

\* f293268b31c5. Of two primary key constraints given for one table SQLAlchemy
\* keeps the last.
AddUserFields ==
    Migration(
        [NoChange EXCEPT
            !.drop = NotNull("users", "username"),
            !.add = UNION {
                Table("users_saved_gardens", {"garden_id"}, {"user_id"}, {}),
                References("users_saved_gardens", "garden_id", "gardens"),
                References("users_saved_gardens", "user_id", "users"),
                Columns("users", UserFields)}],
        [DropsColumns("users", UserFields) EXCEPT
            !.dropTables = {"users_saved_gardens"},
            !.add = NotNull("users", "username")])

\* 92f6722af9e5
CreateMdfDatasets ==
    Creates(UNION {
        Table("mdf_datasets", {"id"},
            {"doi", "versioned_source_id", "source_name", "version", "user_id",
             "flow_action_id"},
            {"previous_versions"}),
        References("mdf_datasets", "user_id", "users"),
        Unique("mdf_datasets", {"doi", "flow_action_id", "versioned_source_id"})})

\* 9e729cff276d
LinkDatasets ==
    Creates(Links("entrypoints_mdf_datasets",
                  "dataset_id", "mdf_datasets", "entrypoint_id", "entrypoints"))

FailedUpdates ==
    Table("failed_search_index_updates", {"id"}, {"doi", "retry_count", "last_attempt"},
          {"operation_type", "error_message"})
        \cup Unique("failed_search_index_updates", {"doi"})

\* 3a7478813c63
CreateFailedUpdates == Creates(FailedUpdates)

\* 13f5b2df7caf: with a server default.
AddIsArchived ==
    Migration(
        [Adds(Required("entrypoints", {"is_archived"}) \cup Required("gardens", {"is_archived"}))
            EXCEPT !.defaulted = {"entrypoints", "gardens"}],
        [NoChange EXCEPT
            !.dropColumns = {<<"gardens", "is_archived">>, <<"entrypoints", "is_archived">>}])

SourceColumns == {"source_name", "version", "flow_action_id"}

\* 270b5e065306
DropDatasetSource ==
    Migration(DropsColumns("mdf_datasets", SourceColumns),
              Adds(Required("mdf_datasets", SourceColumns)
                    \cup Unique("mdf_datasets", {"flow_action_id"})))

AppsFunctions ==
    Links("modal_apps_modal_functions",
          "modal_app_id", "modal_apps", "modal_function_id", "modal_functions")

\* ed639e44d5f1
CreateModal ==
    Creates(UNION {
        Table("modal_apps", {"id"}, {"app_name", "file_text", "user_id"}, {}),
        References("modal_apps", "user_id", "users"),
        Table("modal_functions", {"id"},
            {"doi", "doi_is_draft", "authors", "contributors", "tags", "publisher", "year",
             "language", "version", "is_archived", "short_name", "function_text",
             "test_functions", "user_id"},
            {"description", "requirements", "models", "repositories", "papers", "datasets"}),
        References("modal_functions", "user_id", "users"),
        Unique("modal_functions", {"doi"}),
        AppsFunctions})

\* 40c327013756
LinkModalFunctions ==
    Creates(Links("gardens_modal_functions",
                  "garden_id", "gardens", "modal_function_id", "modal_functions"))

RevisedColumns ==
    {"publisher", "contributors", "user_id", "requirements", "short_name", "language", "version"}

ReviseModalUp ==
    [NoChange EXCEPT
        !.dropTables = {"modal_apps_modal_functions"},
        !.dropColumns = {<<"modal_apps", "file_text">>}
            \cup {<<"modal_functions", c>> : c \in RevisedColumns},
        !.drop = NotNull("modal_functions", "doi"),
        !.add = UNION {
            Required("modal_apps", {"base_image_name", "requirements", "file_contents"}),
            Required("modal_functions", {"title", "function_name", "modal_app_id"}),
            References("modal_functions", "modal_app_id", "modal_apps")}]

\* Mutant of ReviseModal: the downgrade names the foreign key it drops.
ReviseModalNamed ==
    Migration(ReviseModalUp,
        [NoChange EXCEPT
            !.drop = References("modal_functions", "modal_app_id", "modal_apps"),
            !.dropColumns =
                {<<"modal_functions", c>> : c \in {"title", "function_name", "modal_app_id"}}
                \cup {<<"modal_apps", c>> : c \in
                        {"base_image_name", "requirements", "file_contents"}},
            !.add = UNION {
                Required("modal_apps", {"file_text"}),
                Required("modal_functions", RevisedColumns \ {"requirements"}),
                Columns("modal_functions", {"requirements"}),
                NotNull("modal_functions", "doi"),
                References("modal_functions", "user_id", "users"),
                AppsFunctions}])

\* 84833e6b7062. The downgrade drops a foreign key by the name None.
ReviseModal == Migration(ReviseModalUp, [NoChange EXCEPT !.unnamed = TRUE])

\* 499a9bc9101f
CreateInvocations ==
    Creates(UNION {
        Table("modal_invocations", {"id"},
            {"user_id", "function_id", "date_invoked", "execution_time_seconds",
             "estimated_usage"}, {}),
        References("modal_invocations", "function_id", "modal_functions"),
        References("modal_invocations", "user_id", "users")})

\* c833519fb002
RemoveFailedUpdates ==
    Migration(DropsTables({"failed_search_index_updates"}), Adds(FailedUpdates))

\* Mutant: hardware_spec is required.
AddRequiredHardwareSpec ==
    Migration(
        Adds(Required("modal_functions", {"hardware_spec"})
                \cup Columns("modal_invocations", {"function_call_id"})),
        [NoChange EXCEPT
            !.dropColumns = {<<"modal_invocations", "function_call_id">>,
                             <<"modal_functions", "hardware_spec">>}])

\* 7fcd1f0f86cc
AddHardwareSpec ==
    Migration(
        Adds(Columns("modal_functions", {"hardware_spec"})
                \cup Columns("modal_invocations", {"function_call_id"})),
        [NoChange EXCEPT
            !.dropColumns = {<<"modal_invocations", "function_call_id">>,
                             <<"modal_functions", "hardware_spec">>}])

\* The revisions in the order Alembic applies them.
Chain ==
    <<CreateUsers, CreateEntrypoints, SimplifyEntrypointTable, BringBackUsers,
      AddRepositoryContributors, AddMetadataFields, CreateGardens, AddEntrypointAliases,
      FreeContainerUuid, UseIds, AddOwner, SimplifyEntrypointSchema, AddUserFields,
      CreateMdfDatasets, LinkDatasets, CreateFailedUpdates, AddIsArchived,
      DropDatasetSource, CreateModal, LinkModalFunctions, ReviseModal, CreateInvocations,
      RemoveFailedUpdates, AddHardwareSpec>>
=============================================================================
