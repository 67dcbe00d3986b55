------------------------------ MODULE MCObjects ------------------------------
(* Instances of Objects: every provisioner, or deployments alone.            *)
EXTENDS Objects

AllProvisioners == Provisioners
OnlyDeployments == {Deployment}

=============================================================================
