--------------------------- MODULE MCLlamaRuntime ---------------------------
(* Two agents on one machine of 16 GiB.  In one run both serve a file of 8 GiB,  *)
(* in the other a repository of two shards, with a smaller model in the catalog. *)
EXTENDS LlamaRuntime, Sequences, TLC

CONSTANTS p1, p2, big, small, c1, c2

GiB(n) == n * byteGiB

Shard(i) == [name |-> "m" \o ToString(i), kind |-> "model", base |-> "m", shard |-> i, total |-> 2,
             quant |-> "Q4_K_M", size |-> GiB(3), sha |-> TRUE]
Whole(size) == [name |-> "s", kind |-> "model", base |-> "s", shard |-> 1, total |-> 0,
                quant |-> "Q4_K_M", size |-> size, sha |-> FALSE]

\* The hub gives no digest for the file of the small repository, which is
\* therefore refused.  The commit c2 of the big repository is being uploaded: a shard is missing.
MCListing == [r \in Repos |-> [c \in Commits |->
                IF r = small THEN {Whole(GiB(2))}
                ELSE IF c = c1 THEN {Shard(1), Shard(2)} ELSE {Shard(1)}]]
MCRef == [r \in Repos |-> [file |-> Unset, quant |-> Unset, mmproj |-> Unset]]
MCLadder == {[ref |-> small, bytes |-> GiB(2), modality |-> "text", code |-> TRUE]}
MCNoLadder == {}
MCLocal == [p \in Procs |-> None]
MCRepo == [p \in Procs |-> big]
MCMachine == [total |-> GiB(16), disk |-> GiB(100), vram |-> 0, unified |-> FALSE, gpu |-> FALSE]
MCFree == {GiB(12)}
MCFreeOrNot == {GiB(8), GiB(12)}
MCLocalSize == GiB(8)
=============================================================================
