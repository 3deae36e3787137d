------------------------------ MODULE MCStartup ------------------------------
(***************************************************************************)
(* An instance of Startup for the model checker: one process of every role *)
(* that seeds, and the one-shot migration.                                 *)
(***************************************************************************)
EXTENDS Startup, TLC

CONSTANTS image, migrate, api, local

RoleOf == image :> "image" @@ migrate :> "migrate" @@ api :> "api" @@ local :> "local"
TwoFiles == <<"inv_001", "inv_002">>
=============================================================================
