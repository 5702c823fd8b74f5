------------------------------- MODULE MCCatalog -------------------------------
(***************************************************************************)
(* Instances of Catalog for TLC.                                           *)
(***************************************************************************)
EXTENDS Catalog, TLC

CONSTANTS i1, i2, acme, lobby

\* One file names the client, and has an invalid row; the other leaves the
\* client's code blank.
Row1 == [clientId |-> acme, name |-> lobby, valid |-> TRUE]
Files == [i \in Import |->
    IF i = i1 THEN <<Row1, [Row1 EXCEPT !.valid = FALSE]>>
              ELSE <<[Row1 EXCEPT !.clientId = None]>>]

=============================================================================
