------------------------------- MODULE MCPipe -------------------------------
(* Pipe on a small instance. *)
EXTENDS Pipe

Kind(r, w, n, p) == [read |-> r, write |-> w, nonblock |-> n, packet |-> p]

Reader == Kind(TRUE, FALSE, FALSE, FALSE)
Writer == Kind(FALSE, TRUE, FALSE, FALSE)
NonblockingReader == Kind(TRUE, FALSE, TRUE, FALSE)
PacketWriter == Kind(FALSE, TRUE, TRUE, TRUE)
Both == Kind(TRUE, TRUE, FALSE, FALSE)

AllKinds == {Reader, Writer, NonblockingReader, PacketWriter, Both}

\* Files are told apart by nothing but their names.
Symmetry == Permutations(Files)
=============================================================================
