---------------------------- MODULE MCUserVerify ----------------------------
EXTENDS UserVerify
=============================================================================
