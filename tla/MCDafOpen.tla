------------------------------ MODULE MCDafOpen ------------------------------
EXTENDS DafOpen
=============================================================================
