----------------------------- MODULE MCResultPush -----------------------------
EXTENDS ResultPush

MCVersions == 1..2
=============================================================================
