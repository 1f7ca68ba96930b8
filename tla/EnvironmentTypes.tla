-------------------------- MODULE EnvironmentTypes --------------------------
(***************************************************************************)
(* The types of the namespaces a tenant gets (environment/type.go).        *)
(***************************************************************************)
EnvTypes == {"user", "che"}                              \* DefaultEnvTypes
=============================================================================
