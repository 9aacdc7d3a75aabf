---------------------------- MODULE MCProvisioner ----------------------------
\* Three runs, two titles.
EXTENDS Provisioner

CONSTANTS sshBoard, httpBoard
MCFiles == <<sshBoard, httpBoard>>
=============================================================================
