------------------------------- MODULE MCNet --------------------------------
EXTENDS Net
=============================================================================
