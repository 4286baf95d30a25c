------------------------------ MODULE MCRobot ------------------------------
EXTENDS Robot
=============================================================================
