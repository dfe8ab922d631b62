------------------------ MODULE MCControllerElection ------------------------
EXTENDS ControllerElection

=============================================================================
