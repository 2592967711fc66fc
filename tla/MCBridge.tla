------------------------------ MODULE MCBridge ------------------------------
(***************************************************************************)
(* Small catalogues of binaries for the model checker.                     *)
(***************************************************************************)
EXTENDS BridgeProperties

CONSTANTS f1, f2

McNames == {"main", "helper", "data"}

\* One file has two functions, and two sections, of the same name; the other
\* shares a section name with it and calls an import that has the name of
\* the functions of the first.
McFunctions == f1 :> <<"helper", "helper">> @@ f2 :> <<"main">>
McSections == f1 :> <<"data", "data">> @@ f2 :> <<"data">>
McNodes == f1 :> <<"helper", "helper">> @@ f2 :> <<"main", "helper">>
=============================================================================
