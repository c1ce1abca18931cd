--------------------------- MODULE InferenceRunners ---------------------------
(***************************************************************************)
(* The straight-line inference samples, as the objects they get, use and   *)
(* give back, and what each of their calls leaves behind when it fails:    *)
(*   "iree"    samples/iree/simple_embedding                               *)
(*   "xnn"     samples/xnnpack                                             *)
(*   "muriscv" samples/muriscv-nn                                          *)
(*                                                                         *)
(* A program is a sequence of calls.  A call needs objects that are alive, *)
(* may get an object (which may hold others), give one back, or move one   *)
(* into a list; when it fails the program gives back the call's `undo' and *)
(* returns.  An object is alive while the program holds it or a living     *)
(* object does: the runtimes count references.  The runtimes are external. *)
(***************************************************************************)
EXTENDS Naturals, Sequences

VARIABLES
    runner, at,         \* the program; its next call
    held, holds,        \* what the program holds; what each object holds
    outcome             \* "running", "failed" or "done"

runnerVars == <<runner, at, held, holds, outcome>>

Views == {"arg0", "arg1", "arg2", "ret"}
Buffers == {"kInt8_4", "kInt8_2", "kInt32_Zero", "results"}
Objects == Views \union Buffers \union
           {"instance", "device", "hal_module", "bytecode_module", "context", "inputs", "outputs",
            "test_alloc", "threadpool", "arrays", "fc_op", "ctx.buf"}

\* One call.  sure: its failure is not looked at.
Call(op, o, needs, keeps) == [op |-> op, o |-> o, needs |-> needs, keeps |-> keeps, undo |-> {}, sure |-> FALSE]
Get(o, needs, keeps) == Call("get", o, needs, keeps)
Put(o)               == [Call("put", o, {o}, {}) EXCEPT !.sure = TRUE]
Use(needs)           == Call("use", "", needs, {})
Into(o, list)        == Call("into", o, {o, list}, {list})
Unchecked(call)      == [call EXCEPT !.sure = TRUE]
Undo(call, o)        == [call EXCEPT !.undo = {o}]

-----------------------------------------------------------------------------
(* samples/iree/simple_embedding, Run *)

\* The instance, its types, the device, the modules, the context, the function.
IreeCreate ==
    << Get("instance", {}, {}), Use({"instance"}), Get("device", {}, {}),
       Get("hal_module", {"instance", "device"}, {"instance", "device"}),
       Get("bytecode_module", {"instance"}, {"instance"}),
       Get("context", {"instance", "hal_module", "bytecode_module"},
                      {"instance", "hal_module", "bytecode_module"}),
       Put("hal_module"), Put("bytecode_module"),
       Use({"context"}) >>

\* The host buffers, checked together, and their copies on the device.
IreeInputs ==
    << Unchecked(Get("kInt8_4", {}, {})), Unchecked(Get("kInt8_2", {}, {})),
       Unchecked(Get("kInt32_Zero", {}, {})), Use({}),
       Get("arg0", {"device", "kInt8_4"}, {}), Get("arg1", {"device", "kInt8_2"}, {}),
       Get("arg2", {"device", "kInt32_Zero"}, {}) >>

\* The lists, the invocation, which leaves its result in outputs, and the check.
IreeInvoke ==
    << Get("inputs", {}, {}),
       Into("arg0", "inputs"), Into("arg1", "inputs"), Into("arg2", "inputs"),
       Get("outputs", {}, {}),
       Use({"context", "inputs", "outputs"}), Get("ret", {"outputs"}, {}), Into("ret", "outputs"),
       Get("results", {}, {}), Use({"device", "ret", "results"}), Use({"results"}) >>

\* Mutant of IreeRelease: the device and the context go before the lists.
IreeReleaseDeviceFirst ==
    << Put("kInt8_4"), Put("kInt8_2"), Put("kInt32_Zero"), Put("results"),
       Put("device"), Put("context"), Put("inputs"), Put("outputs"), Put("instance") >>

IreeRelease ==
    << Put("kInt8_4"), Put("kInt8_2"), Put("kInt32_Zero"), Put("results"),
       Put("inputs"), Put("outputs"), Put("device"), Put("context"), Put("instance") >>

-----------------------------------------------------------------------------
(* samples/xnnpack, samples/muriscv-nn *)

\* A first test allocation is lost; the second is given back.  The arrays are not checked.
XnnCreate ==
    << Unchecked(Use({})), Get("test_alloc", {}, {}), Put("test_alloc"),
       Get("threadpool", {}, {}), Use({}), Unchecked(Get("arrays", {}, {})) >>

\* The operator: create, reshape, setup, run; the comparison only prints; delete.
XnnRun ==
    << Get("fc_op", {"arrays"}, {}),
       Undo(Use({"fc_op", "threadpool"}), "fc_op"), Undo(Use({"fc_op", "arrays"}), "fc_op"),
       Undo(Use({"fc_op", "threadpool", "arrays"}), "fc_op"), Put("fc_op") >>

\* The buffer is not checked, and the status is only printed.
MuriscvMain ==
    << Unchecked(Get("ctx.buf", {}, {})), Unchecked(Use({"ctx.buf"})), Put("ctx.buf") >>

-----------------------------------------------------------------------------
Calls == [iree    |-> IreeCreate \o IreeInputs \o IreeInvoke \o IreeRelease,
          xnn     |-> XnnCreate \o XnnRun,
          muriscv |-> MuriscvMain]

Script == Calls[runner]
Now == Script[at]

Init ==
    /\ runner \in DOMAIN Calls /\ at = 1
    /\ held = {} /\ holds = [o \in Objects |-> {}]
    /\ outcome = "running"

Grow(S) == S \union UNION {holds[o] : o \in S}
Alive == Grow(Grow(Grow(held)))

\* The call succeeds, or nobody looks whether it did.
CallOk ==
    /\ outcome = "running"
    /\ held' = CASE Now.op = "get" -> held \union {Now.o}
                 [] Now.op \in {"put", "into"} -> held \ {Now.o}
                 [] OTHER -> held
    /\ holds' = CASE Now.op = "get" -> [holds EXCEPT ![Now.o] = Now.keeps]
                  [] Now.op = "into" -> [o \in Objects |-> IF o \in Now.keeps THEN holds[o] \union {Now.o} ELSE holds[o]]
                  [] OTHER -> holds
    /\ at' = at + 1
    /\ outcome' = IF at = Len(Script) THEN "done" ELSE "running"
    /\ UNCHANGED runner

\* The call fails: the program returns an error, without the reboot that ends the others.
CallFails ==
    /\ outcome = "running" /\ ~Now.sure
    /\ held' = held \ Now.undo
    /\ outcome' = "failed"
    /\ UNCHANGED <<runner, at, holds>>

Next == CallOk \/ CallFails
Spec == Init /\ [][Next]_runnerVars

-----------------------------------------------------------------------------
(* Properties *)

\* No call is made with an object that nothing holds any more: the modules released
\* after the context exists, and the views moved into the lists, are still alive.
NoUseAfterRelease ==
    outcome = "running" => Now.needs \subseteq Alive

\* No view of device memory outlives the device.
ViewsWithinDevice ==
    Alive \intersect Views # {} => "device" \in Alive

\* A run of the IREE or the muRISCV sample that succeeds has given back everything.
NothingLeftBehind ==
    outcome = "done" /\ runner \in {"iree", "muriscv"} => held = {}

\* However the XNNPACK sample ends, it does not leave its operator behind.
OperatorDeleted ==
    runner = "xnn" /\ outcome # "running" => "fc_op" \notin held
=============================================================================
