---------------------------- MODULE MCRankEngine ----------------------------
(* Instances of RankEngine for TLC. *)
EXTENDS RankEngine, TLC

CONSTANTS i1, i2, r1, r2, a1

OneIngestor  == {i1}
TwoIngestors == {i1, i2}
OneReader    == {r1}
TwoReaders   == {r1, r2}
OneAuthor    == {a1}

LiveFaults  == RankFaultKinds \ {"crash"}
LostAckOnly == {"lostack"}
=============================================================================
