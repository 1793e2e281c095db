------------------------------ MODULE MCVaultScan ------------------------------
(* VaultScan with the kinds of path and the settings of the runs. *)
EXTENDS VaultScan

\* Deletions of settings are looked at in a run of their own.
MCOffers   == {<<"note", TRUE>>, <<"note", FALSE>>, <<"setting", FALSE>>}
MCSettings == {<<"setting", TRUE>>}
=============================================================================
