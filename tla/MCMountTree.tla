------------------------------ MODULE MCMountTree ------------------------------
EXTENDS MountTree
===============================================================================
