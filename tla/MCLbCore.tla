------------------------------ MODULE MCLbCore ------------------------------
(***************************************************************************)
(* Model-checking instance of LbCore: backend records are interchangeable, *)
(* so runs without liveness properties may use symmetry over them.         *)
(***************************************************************************)
EXTENDS LbCore, TLC

BackendSymmetry == Permutations(BackendIds)

\* The state without the adders' last return values: no guard reads status,
\* so states that differ only there have the same successors.  For runs
\* that do not check TypeOK, the only property that reads it.
NoStatusView == <<coreVars, pc, nb, at, selectorLocals, histVars>>

=============================================================================
