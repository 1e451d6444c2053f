---------------------------- MODULE MCHookStream ----------------------------
(***************************************************************************)
(* Instances of HookStream for TLC.                                        *)
(***************************************************************************)
EXTENDS HookStream

Hooked(hook, capacity, callers, faults) ==
  [hook |-> hook, capacity |-> capacity, callers |-> callers, faults |-> faults]

\* One thread that overflows its ring; one and two threads whose ring is large enough
\* and whose disk is not; two that share the last place of a ring; a disk that fails
\* beside a ring that overflows, and under a slow drain thread; a thread that outlives
\* the start of close; a start that fails; and a Node process with all of it.
Processes ==
  {Hooked("python", 1, {"c1"}, {"spoilt"}),
   Hooked("python", 3, {"c1"}, {"append", "status"}),
   Hooked("python", 3, {"c1", "c2"}, {"append"}),
   Hooked("python", 1, {"c1", "c2"}, {}),
   Hooked("python", 2, {"c1"}, {"slow", "append"}),
   Hooked("python", 3, {"c1"}, {"slow"}),
   Hooked("python", 2, {"c1"}, {"daemon"}),
   Hooked("python", 1, {"c1"}, {"install"}),
   Hooked("node", 1, {}, {"append"}),
   Hooked("node", 2, {}, {"append", "status", "install"})}
=============================================================================
