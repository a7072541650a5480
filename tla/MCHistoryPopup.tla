--------------------------- MODULE MCHistoryPopup ---------------------------
(* The instance of HistoryPopup for TLC: its constants are in the cfg.     *)
EXTENDS HistoryPopup
=============================================================================
