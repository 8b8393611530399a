---------------------------- MODULE MCKafkaWorker ----------------------------
EXTENDS KafkaWorker, TLC
WorkerSymmetry == Permutations(Workers)
=============================================================================
