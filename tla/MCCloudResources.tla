--------------------------- MODULE MCCloudResources ---------------------------
\* A small instance of CloudResources for TLC.
EXTENDS CloudResources, TLC
===============================================================================
