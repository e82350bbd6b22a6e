------------------------------ MODULE MCLifecycle ------------------------------
(* processes.yaml as the controller needs it, and as it is shipped, with the *)
(* daemon's entry commented out.                                             *)
EXTENDS Lifecycle

MCConfigs == {<<"can_daemon", "task_controller">>, <<"task_controller">>}
===============================================================================
