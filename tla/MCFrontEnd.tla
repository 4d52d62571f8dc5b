------------------------------ MODULE MCFrontEnd ------------------------------
(* The way of a request through the main process and the renderer's controller, *)
(* in one run: a behaviour exercises one of the two, the other stands still.    *)
EXTENDS Requests, Renderer

CONSTANTS r1, r2, home, work

VARIABLE component

Call(method, input) == [method |-> method, input |-> input]

\* Each id is presented with several calls: also with another one than the first.
MCCallOf == [r \in RequestId |->
    IF r = r1
    THEN {Call("create", "supported"), Call("create", "unsupported"), Call("create", Malformed),
          Call("preview", None), Call("subscribe", All)}
    ELSE {Call("change", 1), Call("cancel", r1), Call("openWebUI", None),
          Call("subscribe", All), Call("search", None), Call("unsubscribe", 1)}]

Commands(kinds, twice, losses) ==
    [k \in kinds \cup {"loss"} |-> IF k = "loss" THEN losses
                                   ELSE IF k \in twice THEN 2 ELSE 1]

MCBehaviours == {
    Commands({"restart", "select", "cancel"}, {}, 0),
    Commands({"restart", "stop"}, {}, 0),
    Commands({"composition", "select"}, {"select"}, 0),
    Commands({"patch", "webUI", "select"}, {}, 0),
    Commands({"create"}, {"create"}, 1),
    Commands({"create", "reopen"}, {}, 1),
    Commands({"stop", "dispose", "retry"}, {}, 2),
    Commands({"preview", "apply", "choose"}, {}, 0),
    Commands({"search", "inspect"}, {}, 0),
    Commands({"versions", "generations"}, {}, 0),
    Commands({"switch", "export", "installed"}, {}, 0),
    Commands({"start", "cancel"}, {}, 0),
    Commands({"restore"}, {}, 0)}

MCInit ==
    /\ RequestInit /\ RendererInit
    /\ \/ component = "renderer"
       \/ component = "requests" /\ commands = Commands({"restore"}, {}, 0)

MCNext ==
    /\ UNCHANGED component
    /\ \/ component = "requests" /\ RequestNext /\ UNCHANGED rendererVars
       \/ component = "renderer" /\ RendererNext /\ UNCHANGED requestVars

MCSpec == MCInit /\ [][MCNext]_<<component, requestVars, rendererVars>> /\ RendererFairness
=============================================================================
