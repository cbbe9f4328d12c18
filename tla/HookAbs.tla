------------------------------ MODULE HookAbs -------------------------------
(***************************************************************************)
(* What src/intercept/hook.h offers its clients, with no bytes in it: a    *)
(* stack of callbacks for every function, and a callee for every call      *)
(* instruction.                                                            *)
(***************************************************************************)
EXTENDS Naturals, Sequences

CONSTANTS Functions, Targets, Sites, Modes, LoadedCallee

VARIABLES chain,     \* the redirects of each function, the newest last
          callee,    \* what each call instruction of wp calls
          alive      \* the process has not been killed

absvars == <<chain, callee, alive>>

AbsInit ==
    /\ chain = [f \in Functions |-> <<>>]
    /\ callee = LoadedCallee
    /\ alive = TRUE

\* "simply be inserted into the call chain", or become the function
Intercept(f, r, mode) ==
    /\ chain' = [chain EXCEPT ![f] = Append(@, [to |-> r, mode |-> mode])]
    /\ UNCHANGED <<callee, alive>>

\* takes off the redirect that was inserted last
Restore(f) ==
    /\ chain[f] # <<>>
    /\ chain' = [chain EXCEPT ![f] = SubSeq(@, 1, Len(@) - 1)]
    /\ UNCHANGED <<callee, alive>>

\* changes one call and nothing else
Retarget(s, r) ==
    /\ callee' = [callee EXCEPT ![s] = r]
    /\ UNCHANGED <<chain, alive>>

Die == alive' = FALSE /\ UNCHANGED <<chain, callee>>

AbsNext ==
    /\ alive
    /\ \/ \E f \in Functions, r \in Targets, mode \in Modes : Intercept(f, r, mode)
       \/ \E f \in Functions : Restore(f)
       \/ \E s \in Sites, r \in Targets : Retarget(s, r)
       \/ Die

AbsSpec == AbsInit /\ [][AbsNext]_absvars
=============================================================================
