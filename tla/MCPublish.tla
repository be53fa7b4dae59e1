----------------------------- MODULE MCPublish -----------------------------
EXTENDS Publish

\* Every run is in one folder.
MCFolderOf(p) == "this folder"

\* Two blobs that fit an upload each and not together, and one that no upload
\* beside others takes.  With two paths the limit on their number is not met.
MCSizeOf(b) == CASE b = "huge" -> 5 [] b = "large" -> 3 [] b = "small" -> 2

MCCloned == [a |-> "large", b |-> "small"]
MCTheirFiles == {[a |-> "small", b |-> "small"], MCCloned}

=============================================================================
