-------------------------- MODULE MCProvideProgress --------------------------
(* A directory with one file, as Collection::store of iroh-blobs lays it out: the hash *)
(* sequence, the list of names, then the file, which alone makes up the total size.    *)
EXTENDS ProvideProgress, TLC

BlobSizes == <<1, 1, 2>>

RequestSymmetry == Permutations(Requests)
==============================================================================
