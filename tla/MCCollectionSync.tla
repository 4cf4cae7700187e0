--------------------------- MODULE MCCollectionSync ---------------------------
(* Small instances of CollectionSync for TLC. *)
EXTENDS CollectionSync, TLC

\* Both sides change, delete and review; or also add, and set the config.
MergeKinds == {"Update", "Remove", "Review"}
UpdateKinds == {"Update"}
AllKinds == MergeKinds \cup {"Add", "Config"}
\* A full sync is forced by a schema change,
SchemaKinds == {"Review", "Remove", "Schema"}
\* or by a failing sanity check, after what a normal sync cannot merge.
ReimportKinds == {"Update", "Remove", "Import"}
ResetKinds == {"Review", "Reset"}
LossKinds == {"Remove", "Import", "Review", "Reset", "Schema"}

\* What a network and two processes can do; or without lost answers.
NetworkFaults == {"LostAnswer", "ClientCrash", "ServerRestart"}
StopFaults == {"ClientCrash", "ServerRestart"}
\* What may happen around the commit of a sync.
CommitFaults == {"LostAnswer", "FinishCrash"}

ClientSymmetry == Permutations(Clients)

=============================================================================
