----------------------------- MODULE MCSession -----------------------------
(* Small instances of ApduSession for TLC.                                 *)
EXTENDS ApduSession

CONSTANTS a, b

\* A one-chunk and a two-chunk document, which both pay the swap (they differ
\* in their sequence number), and one readable as text only, which does not; b
\* alone and the empty document are never valid.
MCValidTxs == {[type |-> "tx_json", data |-> <<a>>],
               [type |-> "tx_json", data |-> <<a, b>>],
               [type |-> "tx_textual", data |-> <<b, b>>]}
MCSwapTxs == {[type |-> "tx_json", data |-> <<a>>],
              [type |-> "tx_json", data |-> <<a, b>>]}
=============================================================================
