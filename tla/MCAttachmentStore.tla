--------------------------- MODULE MCAttachmentStore ---------------------------
\* Instances of AttachmentStore for TLC.
EXTENDS AttachmentStore, TLC

TasksAndDirectories == Permutations(Task) \cup Permutations(Att)
=============================================================================
