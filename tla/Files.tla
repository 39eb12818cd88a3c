---------------------------------- MODULE Files ----------------------------------
(***************************************************************************)
(* The part of the file system the store uses.  A directory holds numbered *)
(* files of one kind (NNNNNN.log, NNNNNN.ldb, MANIFEST-NNNNNN); it is a    *)
(* function from the numbers of the files that exist to their contents.    *)
(* What has been handed to write(2) survives the end of the process.       *)
(***************************************************************************)
EXTENDS Naturals, FiniteSets

\* No file is ever numbered 0 by VersionSet::NewFileNumber; used for "no CURRENT".
NoFile == 0

NoFiles == [n \in {} |-> {}]

\* NewWritableFile: open(O_TRUNC | O_CREAT).  A file of that name is emptied.
NewWritableFile(dir, n, contents) ==
  [m \in DOMAIN dir \union {n} |-> IF m = n THEN contents ELSE dir[m]]

\* DeleteFile: unlink(2).  A process that has the file open keeps writing to
\* an inode nobody can reach any more.
DeleteFile(dir, n) == [m \in DOMAIN dir \ {n} |-> dir[m]]

\* dir is a directory of files whose contents are in C.
IsDirectoryOf(dir, C) ==
  /\ DOMAIN dir \subseteq Nat
  /\ IsFiniteSet(DOMAIN dir)
  /\ dir \in [DOMAIN dir -> C]
==================================================================================
