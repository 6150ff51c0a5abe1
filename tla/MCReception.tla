---------------------------- MODULE MCReception ----------------------------
EXTENDS ReceptionInv
=============================================================================
