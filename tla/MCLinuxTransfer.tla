-------------------------- MODULE MCLinuxTransfer ---------------------------
EXTENDS LinuxTransfer
=============================================================================
