---------------------------- MODULE MCAppletSync ----------------------------
(* The instance of AppletSync for TLC: its constants are in the cfg.  The  *)
(* first fetch of the applet is under way when the last operation runs.    *)
EXTENDS AppletSync

BootsInTime == ops = MaxOps => boot # Start
=============================================================================
