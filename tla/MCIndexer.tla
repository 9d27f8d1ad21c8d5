------------------------------ MODULE MCIndexer ------------------------------
(***************************************************************************)
(* Small instances of the indexer for TLC.                                 *)
(***************************************************************************)
EXTENDS IndexerProperties

\* The stream starts at ledger 2.  Its first ledger has more events than a page
\* holds, one of them unknown to the decoder and one that updates the row of the
\* first; the event of the last ledger updates a row created before the start.
ChainLog ==
  << [ledger |-> 1, needs |-> 0, projects |-> TRUE],
     [ledger |-> 2, needs |-> 0, projects |-> TRUE],
     [ledger |-> 2, needs |-> 2, projects |-> TRUE],
     [ledger |-> 2, needs |-> 0, projects |-> FALSE],
     [ledger |-> 3, needs |-> 1, projects |-> TRUE] >>

=============================================================================
