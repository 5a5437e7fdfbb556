--------------------------- MODULE MCControlServer ---------------------------
(* The constants of the instance are the model values of Ctl_journal.cfg.  *)
EXTENDS ControlServer
=============================================================================
