----------------------------- MODULE MCDeployment -----------------------------
(* Values for model checking Deployment.                                     *)
EXTENDS Deployment

CONSTANTS srv1, srv2, tag1, tag2

TwoMachines == {srv1, srv2}
TwoTags == {tag1, tag2}

================================================================================
