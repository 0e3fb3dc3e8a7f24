----------------------------- MODULE ApplyWidth -----------------------------
(* How many threads a call of dispatch_apply_f may use                       *)
(* (libdispatch_sourceCode/src/apply.c). `nested' is dtc_apply_nesting, the  *)
(* product of the iterations of the calls around this one, 0 if none.        *)
EXTENDS Integers

CONSTANTS ActiveCpus,         \* dispatch_hw_config(active_cpus)
          DISPATCH_APPLY_MAX  \* UINT16_MAX in the code

ASSUME ApplyWidthAssumption == /\ ActiveCpus \in Nat \ {0}
                               /\ DISPATCH_APPLY_MAX \in Nat
                               /\ ActiveCpus <= DISPATCH_APPLY_MAX

Min2(a, b) == IF a < b THEN a ELSE b

\* Plausible bug: a nested call takes no share, but all the processors.
ThreadCount_unshared(nested, n) == Min2(n, ActiveCpus)

\* A call from inside an iteration of another gets its share of the processors.
ThreadCount(nested, n) ==
    Min2(n, IF nested = 0 THEN ActiveCpus
            ELSE IF nested < ActiveCpus THEN ActiveCpus \div nested ELSE 1)

\* da_nested, which the iterations of the call see as dtc_apply_nesting.
Nesting(nested, n) ==
    IF nested = 0 THEN n
    ELSE IF nested < DISPATCH_APPLY_MAX /\ n < DISPATCH_APPLY_MAX
         THEN nested * n ELSE DISPATCH_APPLY_MAX
=============================================================================
