------------------------------ MODULE MCSignals ------------------------------
(* Signals on a small instance. *)
EXTENDS Signals

Act(handler, mask, flags) == [handler |-> handler, mask |-> mask, flags |-> flags]

SmallMasks == {{34, SIGTSTP, SIGSTOP}}
OneShot == Act("handler", {}, {"SA_ONESHOT"})
SmallActions == {Act("SIG_IGN", {}, {}), OneShot}
NoneOrAll == {[s \in Settable |-> act] : act \in {SIG_DFL, OneShot}}
=============================================================================
