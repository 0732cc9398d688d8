------------------------------ MODULE MCItedtvBus ------------------------------
(* Instances of ItedtvBus for TLC.                                         *)
EXTENDS ItedtvBus

Build(wq, fails) == [workqueue |-> wq, usbFails |-> fails]

(* The build with a workqueue is followed while no submission fails.       *)
MCBuilds == {Build(FALSE, TRUE), Build(FALSE, FALSE), Build(TRUE, FALSE)}
=============================================================================
