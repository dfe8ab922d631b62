---------------------------- MODULE MCPublishPath ----------------------------
EXTENDS PublishPath

=============================================================================
