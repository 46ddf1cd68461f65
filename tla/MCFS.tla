-------------------------------- MODULE MCFS --------------------------------
(* Model-checking instance of FS: a disk of a few blocks of two cells,    *)
(* two files, two descriptors.                                             *)
EXTENDS FS, TLC

CONSTANTS n1, n2

MCNames == {n1, n2}
NameSymm == Permutations(MCNames)
\* fs_truncate(fd, -1), the call the truncate test makes
MCBadLengths == {-1}
\* The implementation state without lastRead, the last fs_read's output,
\* which no action reads: for the runs whose properties do not mention it.
ImplView == <<mounted, sb, bitmap, bmDirty, inodes, root, fds, disk, dinodes>>
=============================================================================
