------------------------- MODULE MCGenerateHistory -------------------------
(* MCGenerate with the last directory that was at the output path. *)
EXTENDS MCGenerate

VARIABLE last

HistoryInit == Init /\ last = out

HistoryNext ==
    /\ Next
    /\ last' = IF out'.kind = "missing" THEN last ELSE out'

HistorySpec == HistoryInit /\ [][HistoryNext]_<<vars, last>>

\* README.md lines 193 to 196: a concurrently replaced output is refused.  When
\* an update publishes, what was last at the output path is what it validated,
\* not a generation that another writer published there since.
ConcurrentlyReplacedRefused ==
    [][\A p \in Updaters :
          phase[p] = "claimed" /\ phase'[p] = "committed" =>
              last = Directory(expected[p])]_<<vars, last>>
=============================================================================
