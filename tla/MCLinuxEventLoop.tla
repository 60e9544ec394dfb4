------------------------- MODULE MCLinuxEventLoop --------------------------
EXTENDS LinuxEventLoop
=============================================================================
