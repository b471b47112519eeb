-------------------------- MODULE MCClusterInputs --------------------------
(***************************************************************************)
(* Model of ClusterInputs for TLC: one role, two ObjectStores, and for each *)
(* check of composeFromConfiguration a configuration that fails it.         *)
(***************************************************************************)
EXTENDS ClusterInputs

MCRoles == {"owner"}
MCStores == {"a", "b"}
MCHosts == {"rw", "moved"}
Everything == [enabled |-> TRUE, served |-> TRUE, image |-> TRUE]
MCPlatforms ==
    {Everything, [Everything EXCEPT !.enabled = FALSE],
     [Everything EXCEPT !.served = FALSE], [Everything EXCEPT !.image = FALSE]}
S3(keys, destination) == [provider |-> "s3", keys |-> keys, destination |-> destination]
MCConfigurations ==
    {S3("static", "s3://old"), S3("static", "s3://new"), S3("static", "unparsable"),
     S3("iam", "s3://old"), [S3("static", "s3://old") EXCEPT !.provider = "azure"]}
=============================================================================
