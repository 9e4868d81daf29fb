---------------------------- MODULE MCCredentials ----------------------------
EXTENDS Credentials, TLC

CONSTANTS c1, c2, k1, k2

MCClusters == {c1, c2}
MCOneCluster == {c1}
MCCalls == {k1, k2}
MCOneCall == {k1}
MCEditing == [edits : {TRUE}, patient : {TRUE}, rotates : {TRUE}]
\* A provider that rotates refresh tokens with a user of either kind, and one that
\* does not with a user who edits.
MCModes == [edits : {FALSE}, patient : BOOLEAN, rotates : {TRUE}]
             \cup [edits : {TRUE}, patient : {TRUE}, rotates : {FALSE}]
MCSymmetry == Permutations(MCClusters) \cup Permutations(MCCalls)
=============================================================================
