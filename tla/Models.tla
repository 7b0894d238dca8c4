------------------------------- MODULE Models -------------------------------
(***************************************************************************)
(* The schema the SQLAlchemy models of models/ declare, in the facts of    *)
(* Schema: the one the tests create and the routes rely on.                *)
(***************************************************************************)
EXTENDS Schema

User ==
    Table("users", {"id"}, {"identity_id"},
        {"username", "name", "email", "phone_number", "skills", "domains", "affiliations",
         "profile_pic_id"})
    \cup Unique("users", {"identity_id"})

Entrypoint ==
    UNION {
        Table("entrypoints", {"id"},
            {"doi", "doi_is_draft", "title", "year", "func_uuid", "container_uuid",
             "base_image_uri", "full_image_uri", "notebook_url", "is_archived", "short_name",
             "function_text", "authors", "tags", "test_functions", "user_id"},
            {"description", "requirements", "models", "repositories", "papers", "datasets"}),
        Unique("entrypoints", {"doi", "func_uuid"}),
        References("entrypoints", "user_id", "users")}

Garden ==
    UNION {
        Table("gardens", {"id"},
            {"title", "doi", "doi_is_draft", "authors", "contributors", "tags", "publisher",
             "year", "language", "version", "entrypoint_aliases", "is_archived", "user_id"},
            {"description"}),
        Unique("gardens", {"doi"}),
        References("gardens", "user_id", "users")}

Dataset ==
    UNION {
        Table("mdf_datasets", {"id"}, {"versioned_source_id", "doi", "user_id"},
            {"previous_versions"}),
        Unique("mdf_datasets", {"versioned_source_id", "doi"}),
        References("mdf_datasets", "user_id", "users")}

ModalApp ==
    Table("modal_apps", {"id"},
        {"app_name", "base_image_name", "requirements", "file_contents", "user_id"}, {})
    \cup References("modal_apps", "user_id", "users")

\* language and version have a plain value: class attributes, not columns.
ModalFunction ==
    UNION {
        Table("modal_functions", {"id"},
            {"doi_is_draft", "title", "authors", "tags", "year", "is_archived",
             "function_name", "function_text", "hardware_spec", "test_functions",
             "modal_app_id"},
            {"doi", "description", "models", "repositories", "papers", "datasets"}),
        Unique("modal_functions", {"doi"}),
        References("modal_functions", "modal_app_id", "modal_apps")}

ModalInvocation ==
    UNION {
        Table("modal_invocations", {"id"},
            {"user_id", "function_id", "function_call_id", "date_invoked",
             "execution_time_seconds", "estimated_usage"}, {}),
        References("modal_invocations", "user_id", "users"),
        References("modal_invocations", "function_id", "modal_functions")}

Associations ==
    UNION {
        Links("gardens_entrypoints", "garden_id", "gardens", "entrypoint_id", "entrypoints"),
        Links("gardens_modal_functions",
              "garden_id", "gardens", "modal_function_id", "modal_functions"),
        Links("users_saved_gardens", "user_id", "users", "garden_id", "gardens"),
        Links("entrypoints_mdf_datasets",
              "entrypoint_id", "entrypoints", "dataset_id", "mdf_datasets")}

ModelSchema ==
    UNION {User, Entrypoint, Garden, Dataset, ModalApp, ModalFunction, ModalInvocation,
           Associations}
=============================================================================
