------------------------------ MODULE MCWaves ------------------------------
EXTENDS Waves
=============================================================================
