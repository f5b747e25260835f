----------------------------- MODULE MCExplorer -----------------------------
\* A home directory (1) with a credentials file (2) and a directory of an
\* application (3), which holds the daemon's own secrets file (4).
EXTENDS Explorer

Home == <<0, 1, 1, 3>>
OwnFiles == <<4>>
=============================================================================
