----------------------------- MODULE MCMainRegistry ---------------------------
(* Clients that take each other over, and a main thread that starts, listens and *)
(* reloads. The parts share no state; a behaviour explores the part it starts with. *)
EXTENDS MCSessionRegistry, MCMainLoop

VARIABLE part

MCInit ==
    /\ part \in {"registry", "main"}
    /\ Init
    /\ MainInit
    /\ part # "main" => env = "base"

\* The next-state relation of a part leaves the variables of the others alone.
Only(name, next, others) == part = name /\ next /\ UNCHANGED others

MCNext ==
    /\ UNCHANGED part
    /\ \/ Only("registry", Next, mainLoopVars)
       \/ Only("main", MainNext, vars)
MCSpec == MCInit /\ [][MCNext]_<<part, vars, mainLoopVars>>

-----------------------------------------------------------------------------
(* Nothing asked of the main thread is forgotten, everything has the same settings  *)
(* between two reloads, a bridge has one worker and one name, workers take turns,   *)
(* and no option gets into another block (mainapp.cpp:946, 1068;                   *)
(* configfileparser.cpp:435).                                                  *)
MainIsSound == part = "main" => MainThreadIsSound
=============================================================================
